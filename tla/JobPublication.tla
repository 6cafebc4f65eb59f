--------------------------- MODULE JobPublication ---------------------------
(***************************************************************************)
(* Live events of committed job changes: what DatabaseRepository           *)
(* (app/db/repository.py) queues while it saves, hands to EventPublisher   *)
(* (app/events/publisher.py) after the commit and forgets at a rollback.   *)
(*                                                                         *)
(* A writer is a session with a publisher.  Its caller may open the        *)
(* transaction, so that several saves commit or roll back together.  A     *)
(* save reads the posting under a row lock if it is there, and writes it.  *)
(* A posting has fields and details; its row is NoRow before the insert.   *)
(***************************************************************************)
EXTENDS Integers, Sequences, FiniteSets

CONSTANTS
    Writer,         \* sessions
    Patient,        \* writers that wait for their events, as the evidence worker does
    Bulk,           \* writers that save by bulk upsert
    BaseHash,       \* base hashes
    Field, Detail,  \* contents; detail 0 is an observation without details
    MaxSaves        \* bound: saves begun

NoRow == <<>>

ASSUME PublicationAssumption ==
    /\ Patient \subseteq Writer /\ Bulk \subseteq Writer
    /\ Detail \subseteq Nat /\ 0 \in Detail /\ MaxSaves \in Nat

VARIABLES
    rows,           \* committed job_postings
    writer,         \* transaction of each session
    tasks,          \* publications under way
    messages,       \* what Redis was sent
    saves,          \* saves so far
    committed       \* history: transactions that committed, by their first save

publication == <<rows, writer, tasks, messages, saves, committed>>

Closed == [at |-> "idle", wrote |-> [r \in {} |-> NoRow], pending |-> <<>>, raced |-> {}, batch |-> 0]

PublicationInit ==
    /\ rows = [r \in BaseHash |-> NoRow] /\ committed = {}
    /\ writer = [w \in Writer |-> Closed]
    /\ tasks = {} /\ messages = <<>> /\ saves = 0

-----------------------------------------------------------------------------
(* Saving.                                                                   *)

\* a session sees its own writes and what is committed
Visible(w, r) == IF r \in DOMAIN writer[w].wrote THEN writer[w].wrote[r] ELSE rows[r]

\* rows written, and existing rows read for update
Holds(w, r) ==
    \/ r \in DOMAIN writer[w].wrote
    \/ writer[w].at = "read" /\ writer[w].row = r /\ writer[w].old # NoRow

NotHeld(w, r) == \A v \in Writer \ {w} : ~Holds(v, r)

\* a caller that waits does so between transactions
Waited(w) == \A t \in tasks : t.from # w

ReadForUpdate(w, r, f, d) ==
    /\ saves < MaxSaves
    /\ \/ writer[w].at = "idle" /\ (w \in Patient => Waited(w))
       \/ writer[w].at = "open"
    /\ Visible(w, r) # NoRow => NotHeld(w, r)
    /\ saves' = saves + 1
    /\ writer' = [writer EXCEPT ![w] =
         [at |-> "read", row |-> r, old |-> Visible(w, r), fields |-> f, details |-> d,
          batch |-> IF @.at = "idle" THEN saves + 1 ELSE @.batch,
          number |-> saves + 1, wrote |-> @.wrote, pending |-> @.pending, raced |-> @.raced]]
    /\ UNCHANGED <<rows, tasks, messages, committed>>

Overlaid(wrote, r, content) == [x \in DOMAIN wrote \cup {r} |-> IF x = r THEN content ELSE wrote[x]]

\* a row nobody saw before the upsert may be another transaction's
WasCreated(t, current) == t.old = NoRow /\ current = NoRow

WasChanged_NotDetails(t, current, content) == t.old # NoRow /\ t.old.fields # content.fields      \* mutant
WasChanged(t, current, content) ==
    \/ t.old # NoRow /\ t.old.fields # content.fields
    \/ current # NoRow /\ current.details # content.details

Write(w) ==
    LET t == writer[w]
        r == t.row
        current == Visible(w, r)
        details == IF t.details = 0 /\ current # NoRow THEN current.details ELSE t.details
        content == [fields |-> t.fields, details |-> details]
        event == [from |-> w, batch |-> t.batch, number |-> t.number, row |-> r, content |-> content,
                  kind |-> IF WasCreated(t, current) THEN "JOB_CREATED" ELSE "JOB_UPDATED"]
    IN  /\ t.at = "read" /\ NotHeld(w, r)
        /\ t.old = NoRow /\ current # NoRow => w \in Bulk
        /\ writer' = [writer EXCEPT ![w] =
             [at |-> "open", batch |-> t.batch, wrote |-> Overlaid(t.wrote, r, content),
              pending |-> IF WasCreated(t, current) \/ WasChanged(t, current, content)
                            THEN Append(t.pending, event) ELSE t.pending,
              raced |-> IF t.old = NoRow /\ current # NoRow THEN t.raced \cup {r} ELSE t.raced]]
        /\ UNCHANGED <<rows, tasks, messages, saves, committed>>

-----------------------------------------------------------------------------
(* The end of a transaction, and what follows it.                            *)

Commit(w) ==
    LET t == writer[w] IN
    /\ t.at = "open"
    /\ rows' = [r \in BaseHash |-> Visible(w, r)]
    /\ committed' = committed \cup {t.batch}
    /\ tasks' = tasks \cup {t.pending[i] : i \in DOMAIN t.pending}
    /\ writer' = [writer EXCEPT ![w] = Closed]
    /\ UNCHANGED <<messages, saves>>

AfterRollback(w) == Closed

\* an error of the caller, a lost insert race or a deadlock
Rollback(w) ==
    /\ writer[w].at # "idle"
    /\ writer' = [writer EXCEPT ![w] = AfterRollback(w)]
    /\ UNCHANGED <<rows, tasks, messages, saves, committed>>

\* each publication is a task of its own, so they may overtake each other
RunTask(t) ==
    /\ tasks' = tasks \ {t}
    /\ messages' = Append(messages, t)
    /\ UNCHANGED <<rows, writer, saves, committed>>

\* Redis refuses it, or the publisher is closed: logged
PublishFails(t) ==
    /\ tasks' = tasks \ {t}
    /\ UNCHANGED <<rows, writer, messages, saves, committed>>

WriterStops(w) ==
    /\ writer' = [writer EXCEPT ![w] = Closed]
    /\ tasks' = {t \in tasks : t.from # w}
    /\ UNCHANGED <<rows, messages, saves, committed>>

PublicationNext ==
    \/ \E w \in Writer :
         \/ \E r \in BaseHash, f \in Field, d \in Detail : ReadForUpdate(w, r, f, d)
         \/ Write(w) \/ Commit(w) \/ Rollback(w) \/ WriterStops(w)
    \/ \E t \in tasks : RunTask(t) \/ PublishFails(t)

-----------------------------------------------------------------------------
(* Properties                                                                *)

Announced == tasks \cup {messages[i] : i \in DOMAIN messages}

(* A payload is captured before its transaction commits: no event tells of a *)
(* transaction that was rolled back, also where the session goes on to       *)
(* commit other work.                                                        *)
PublishedIsCommitted == \A t \in Announced : t.batch \in committed /\ rows[t.row] # NoRow

(* A posting is announced as created at most once, whoever races to insert   *)
(* it and however many saves of it one transaction joins.                    *)
CreatedOnce == \A t, u \in {e \in Announced : e.kind = "JOB_CREATED"} : t.row = u.row => t = u

(* Every commit that changes a posting hands over an event with the content  *)
(* it leaves there, unless the posting was inserted by another transaction   *)
(* between the read and the upsert: then a change of fields goes unannounced.*)
ChangesAnnounced ==
    [][\A w \in Writer : (writer[w].at = "open" /\ rows' # rows /\ writer'[w].at = "idle") =>
         \A r \in BaseHash : rows'[r] # rows[r] =>
            \/ r \in writer[w].raced
            \/ \E t \in tasks' \ tasks : t.row = r /\ t.from = w /\ t.content = rows'[r]]_publication

(* "Wait until post-commit publications scheduled by this repository finish":*)
(* the events of a writer that waits between transactions reach Redis in the *)
(* order of its commits; those it queued in one transaction may overtake     *)
(* each other, and so may those of a writer that does not wait.              *)
OldestFirst == \A i, j \in DOMAIN messages :
    (i < j /\ messages[i].from = messages[j].from /\ messages[i].from \in Patient
       /\ messages[i].number > messages[j].number) => messages[i].batch = messages[j].batch

(* Session hooks and publish tasks: every commit is told, nothing else is,   *)
(* and in the order that was waited for.                                     *)
EventsTellCommits ==
    /\ ChangesAnnounced
    /\ [](PublishedIsCommitted /\ CreatedOnce /\ OldestFirst)
=============================================================================
