----------------------------- MODULE Ingestion -----------------------------
(***************************************************************************)
(* A run of the README pipeline as a whole: the rows of every file are     *)
(* classified against Redis one after another, one row of each role is     *)
(* chosen, the lifecycle is decided again from SQL, and the run reports    *)
(* what it did (app/pipelines/simplify_pipeline.py, app/cli.py).           *)
(*                                                                         *)
(* Runs do not overlap here (JobLifecycle has those that do); a run may    *)
(* fail after Redis was written, and Redis may forget.  Posting dates, the *)
(* choice between two links and the authority of other sources are left    *)
(* out, so a content hash is the place a row states and whether it is      *)
(* closed.  An identity is the ATS posting a link names, 0 if it names     *)
(* none; a role's links belong to one ATS.                                 *)
(***************************************************************************)
EXTENDS Integers, Sequences, SequencesExt

CONSTANTS
    Role,           \* base hashes
    SourceRow,      \* valid rows: role, place, id, closed
    MaxFiles,       \* bound: files of a run
    MaxPerFile,     \* bound: rows of a file
    MaxEditions     \* bound: how often the files are rewritten

ASSUME IngestionAssumption ==
    /\ \A r \in SourceRow : r.role \in Role /\ r.id \in Nat /\ r.closed \in BOOLEAN
    /\ MaxFiles \in Nat \ {0} /\ MaxPerFile \in Nat /\ MaxEditions \in Nat \ {0}

VARIABLES
    readme,         \* the files' rows
    edition,        \* how often they were rewritten, their blob identity
    cached,         \* the deduplicator's hash of each role, or <<>>
    stored,         \* each role's posting and its current occurrence
    report,         \* what the last run told of a role, and what SQL made of it
    settled         \* history: the last run persisted this edition

ingestion == <<readme, edition, cached, stored, report, settled>>

NotStored == [known |-> FALSE]
Editions == SeqOf(SeqOf(SourceRow, MaxPerFile), MaxFiles) \ {<<>>}

IngestionInit ==
    /\ readme \in Editions
    /\ edition = 1
    /\ cached = [r \in Role |-> <<>>]
    /\ stored = [r \in Role |-> NotStored]
    /\ report = [r \in Role |-> [told |-> "nothing", made |-> "nothing"]]
    /\ settled = FALSE

-----------------------------------------------------------------------------
(* Classification: deduplicator.py and _classify_candidates                  *)

HashOf(row) == <<row.place, row.closed>>

Classified(previous, row) ==
    CASE previous = <<>> -> "NEW_ROLE"
      [] previous = HashOf(row) -> "NO_OP"
      [] OTHER -> IF row.closed THEN "ROLE_CLOSED" ELSE "ROLE_UPDATED"

\* a row that repeats a role and its hash within a file is dropped
ClassifyRow(run, row, file) ==
    LET signature == <<file, row.role, HashOf(row)>> IN
    IF signature \in run.seen THEN run
    ELSE [cache |-> [run.cache EXCEPT ![row.role] = HashOf(row)],
          seen |-> run.seen \cup {signature},
          items |-> Append(run.items, [row |-> row, file |-> file,
                                       state |-> Classified(run.cache[row.role], row)])]

ClassifyFile(run, file) ==
    FoldLeft(LAMBDA sofar, row : ClassifyRow(sofar, row, file), run, readme[file])

ClassifyAll(cache) ==
    FoldLeft(ClassifyFile, [cache |-> cache, seen |-> {}, items |-> <<>>],
             [i \in DOMAIN readme |-> i])

-----------------------------------------------------------------------------
(* persist_results                                                           *)

\* the states in the order in which their items are gone through
States == [NEW_ROLE |-> 1, ROLE_UPDATED |-> 2, ROLE_CLOSED |-> 3, ROLE_REPOSTED |-> 4, NO_OP |-> 5]

Considered_Changes(item) == item.state # "NO_OP"      \* mutant
Considered(item) == item.state \in DOMAIN States

\* file by file, in a file state by state, in a state row by row
Follows(items, i, j) ==
    LET a == items[i]
        b == items[j]
    IN  \/ b.file < a.file
        \/ b.file = a.file /\ States[b.state] < States[a.state]
        \/ b.file = a.file /\ b.state = a.state /\ j < i

\* later items replace earlier ones of their role
Chosen(items, role) ==
    LET its == {i \in DOMAIN items : items[i].row.role = role /\ Considered(items[i])}
    IN  IF its = {} THEN <<>>
        ELSE <<items[CHOOSE i \in its : \A j \in its \ {i} : Follows(items, i, j)]>>

KnownIds(posting) == ({posting.own} \cup {s.id : s \in posting.observed}) \ {0}

DecideRow(row, posting) ==
    CASE ~posting.known -> "discover"
      [] posting.known /\ row.closed -> IF posting.closed THEN "open_update" ELSE "close"
      [] posting.known /\ ~row.closed /\ ~posting.closed -> "open_update"
      [] OTHER -> CASE row.id \in KnownIds(posting) -> "reopen"
                    [] row.id # 0 /\ KnownIds(posting) # {}
                         /\ row.id \notin KnownIds(posting) -> "repost"
                    [] OTHER -> "ambiguous"

\* the state reported, decided from SQL as it was before the write
Told(item, posting) ==
    LET decision == DecideRow(item.row, posting) IN
    CASE decision = "repost" -> "ROLE_REPOSTED"
      [] decision = "ambiguous" -> "NO_OP"
      [] decision = "discover" -> "NEW_ROLE"
      [] decision = "reopen" -> "ROLE_UPDATED"
      [] decision = "close" -> "ROLE_CLOSED"
      [] decision = "open_update" ->
           IF HashOf(item.row) = <<posting.place, posting.closed>> THEN "NO_OP"
           ELSE IF item.state \in {"NO_OP", "NEW_ROLE"} THEN "ROLE_UPDATED" ELSE item.state

\* the observation is recorded with the current occurrence, whatever was decided
Observing(posting, item) ==
    LET from == <<edition, item.file>>
    IN  [posting EXCEPT !.observed =
           {s \in @ : s.from # from} \cup {[from |-> from, id |-> item.row.id]}]

Stored(item, posting) ==
    LET row == item.row
        fresh == [known |-> TRUE, place |-> row.place, closed |-> row.closed,
                  own |-> row.id, observed |-> {}]
    IN  Observing(CASE DecideRow(row, posting) \in {"discover", "repost"} -> fresh
                    [] DecideRow(row, posting) = "ambiguous" -> posting
                    [] OTHER -> [posting EXCEPT !.place = row.place, !.closed = row.closed],
                  item)

\* _state_for_persistence
Made(item, posting) ==
    LET new == Stored(item, posting) IN
    CASE ~posting.known -> "NEW_ROLE"
      [] posting.known /\ DecideRow(item.row, posting) = "repost" -> "ROLE_REPOSTED"
      [] OTHER -> IF ~posting.closed /\ new.closed THEN "ROLE_CLOSED"
                  ELSE IF <<posting.place, posting.closed>> # <<new.place, new.closed>>
                    THEN "ROLE_UPDATED" ELSE "NO_OP"

Persisted(items) ==
    [r \in Role |-> LET item == Chosen(items, r)
                    IN  IF item = <<>> THEN stored[r] ELSE Stored(item[1], stored[r])]

Reported(items) ==
    [r \in Role |->
        LET item == Chosen(items, r)
        IN  IF item = <<>> THEN [told |-> "nothing", made |-> "nothing"]
            ELSE [told |-> Told(item[1], stored[r]), made |-> Made(item[1], stored[r])]]

-----------------------------------------------------------------------------
Synchronise ==
    LET run == ClassifyAll(cached) IN
    /\ cached' = run.cache
    /\ stored' = Persisted(run.items)
    /\ report' = Reported(run.items)
    /\ settled' = TRUE
    /\ UNCHANGED <<readme, edition>>

\* the transaction is rolled back, Redis keeps what it was told
SynchroniseFails ==
    /\ cached' = ClassifyAll(cached).cache
    /\ UNCHANGED <<readme, edition, stored, report, settled>>

CacheLoses(r) ==
    /\ cached[r] # <<>>
    /\ cached' = [cached EXCEPT ![r] = <<>>]
    /\ UNCHANGED <<readme, edition, stored, report, settled>>

Rewrite ==
    /\ edition < MaxEditions
    /\ readme' \in Editions \ {readme}
    /\ edition' = edition + 1
    /\ settled' = FALSE
    /\ UNCHANGED <<cached, stored, report>>

IngestionNext ==
    \/ Synchronise \/ SynchroniseFails \/ Rewrite
    \/ \E r \in Role : CacheLoses(r)

-----------------------------------------------------------------------------
(* Properties                                                                *)

RowsOf(role) ==
    {n \in (DOMAIN readme) \X (1 .. MaxPerFile) :
        n[2] \in DOMAIN readme[n[1]] /\ readme[n[1]][n[2]].role = role}
ListedOnce == \A r \in Role : Cardinality(RowsOf(r)) <= 1

Memories == [Role -> {<<>>} \cup {HashOf(row) : row \in SourceRow}]

(* "Persist parsed jobs, including NO_OP rows during cache/database          *)
(* recovery": where the files list a role once, what a run writes to SQL is  *)
(* the same whatever Redis remembers, so that a failed run, a cache that is  *)
(* ahead and one that forgot all lead to the same postings.                  *)
SqlDecides ==
    ListedOnce => \A memory \in Memories :
        Persisted(ClassifyAll(memory).items) = Persisted(ClassifyAll(cached).items)

(* "Reflect the database-authoritative lifecycle decision": the run tells of *)
(* every role it discovered, reposted, closed or changed, and tells nothing  *)
(* where it changed nothing, whatever Redis took the row for.  Only a closed *)
(* role that moved is said to have been closed again.                        *)
ReportIsTrue ==
    \A r \in Role :
        \/ report[r].told = report[r].made
        \/ report[r] = [told |-> "ROLE_CLOSED", made |-> "ROLE_UPDATED"]

\* a closed posting that the files still list as open
Contradicted(r) ==
    stored[r].known /\ stored[r].closed /\ \E n \in RowsOf(r) : ~readme[n[1]][n[2]].closed

(* A run over files that have not changed since the last one writes nothing  *)
(* and reports no change, also when Redis lost what it knew in between.      *)
RepeatsAreQuiet ==
    settled /\ ListedOnce =>
        LET items == ClassifyAll(cached).items
        IN  \A r \in Role : ~Contradicted(r) =>
              /\ Persisted(items)[r] = stored[r]
              /\ Reported(items)[r].told \in {"nothing", "NO_OP"}

-----------------------------------------------------------------------------
(* What the repository's text says of this code and the code does not keep.  *)

(* "All weaker evidence is ambiguous and must leave the durable closure      *)
(* intact": a closed posting is not reopened by reading the same files once  *)
(* more.  (The identity of a row that was refused is recorded with the       *)
(* closed occurrence, and the next run takes it for proof.)                  *)
ClosureStands ==
    [][settled /\ settled' /\ ListedOnce =>
          \A r \in Role : stored[r].known /\ stored[r].closed => stored'[r].closed]_ingestion

(* Redis is a cache: it changes neither what a run writes nor, but for one   *)
(* case, what it says it wrote.                                              *)
RunsFollowSql == SqlDecides /\ ReportIsTrue /\ RepeatsAreQuiet
=============================================================================
