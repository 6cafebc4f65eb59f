------------------------- MODULE ApplicationAttempts -------------------------
(***************************************************************************)
(* The durable checkpoint of each job application: the tool calls of the   *)
(* application agent (app/mcp/applications.py, app/applications/service.py)*)
(* and the commands of the operator (app/cli.py) over the repository's     *)
(* status matrix (app/db/repository.py).                                   *)
(*                                                                         *)
(* A call is one session and one transaction.  It reads the attempts it    *)
(* needs without a lock, decides on that reading, and commits an UPDATE of *)
(* the columns whose values changed: Begin and CommitCall are two actions, *)
(* and other calls may commit in between.  A new attempt is an INSERT under*)
(* uq_application_attempts_job_id.                                         *)
(*                                                                         *)
(* URLs, time stamps, verification types and messages are left out; code   *)
(* and question say whether failure_code and review_question are set.      *)
(***************************************************************************)
EXTENDS Integers, FiniteSets

CONSTANTS
    Posting,            \* postings, newer ones greater
    Session,        \* processes that call the repository
    ToolsOf,        \* [Session -> the calls that process makes]
    MaxStarts       \* bound: [Posting -> times an application is started]

\* SKIPPED, which no code writes, is left out
Statuses == {"absent", "queued", "in_progress", "needs_verification", "needs_review",
             "ready_to_submit", "submitted", "failed"}
Stages == {"none", "opened", "form", "verification", "review", "ready_to_submit",
           "submitted", "failed"}
Tools == {"next", "queue", "status", "answer", "start", "checkpoint", "verify",
          "resume", "review", "ready", "submit", "fail", "reset"}

ASSUME JobAssumption ==
    Posting \subseteq Nat /\ IsFiniteSet(Posting) /\ MaxStarts \in [Posting -> Nat]
ASSUME ToolAssumption == ToolsOf \in [Session -> SUBSET Tools]

VARIABLES
    open,       \* jobs not closed
    row,        \* [Posting -> row of application_attempts]
    call,       \* [Session -> the call under way]
    starts,     \* history: [Posting -> starts committed]
    raced       \* history: jobs a call changed whose row was no longer as it had read it

attempts == <<open, row, call, starts, raced>>

RowType == [status : Statuses, stage : Stages, count : Nat, submitted : BOOLEAN,
            code : BOOLEAN, question : BOOLEAN]
Absent == [status |-> "absent", stage |-> "none", count |-> 0, submitted |-> FALSE,
           code |-> FALSE, question |-> FALSE]
Queued == [Absent EXCEPT !.status = "queued"]
NoCall == LET none == [j \in Posting |-> Absent] IN [tool |-> "none", seen |-> none, new |-> none]

CallType == [tool : Tools, seen : [Posting -> RowType], new : [Posting -> RowType]]

(* Rows keep their columns; a call holds the table it read and the one it    *)
(* is about to write.                                                        *)
AttemptsTypeOK ==
    /\ open \subseteq Posting
    /\ row \in [Posting -> RowType]
    /\ call \in [Session -> CallType \cup {NoCall}]
    /\ starts \in [Posting -> Nat]
    /\ raced \subseteq Posting

AttemptsInit ==
    /\ open \in SUBSET Posting
    /\ row = [j \in Posting |-> Absent]
    /\ call = [s \in Session |-> NoCall]
    /\ starts = [j \in Posting |-> 0]
    /\ raced = {}

-----------------------------------------------------------------------------
(* What a call makes of one attempt: the set of rows it may write, empty     *)
(* when it raises.                                                           *)

Ensured(r, isOpen) == IF ~isOpen THEN {} ELSE IF r = Absent THEN {Queued} ELSE {r}

Allowed ==
    [s \in Statuses |->
        CASE s \in {"absent", "queued"} -> {"in_progress", "failed"}
          [] s = "in_progress" -> {"needs_verification", "needs_review", "ready_to_submit", "failed"}
          [] s = "needs_verification" -> {"in_progress", "failed"}
          [] s = "ready_to_submit" -> {"submitted", "failed"}
          [] s = "failed" -> {"in_progress"}
          [] s = "needs_review" -> {"failed"}
          [] s = "submitted" -> {}]

StageOf(r, to) ==
    CASE to = "in_progress" -> r.stage
      [] to = "needs_verification" -> "verification"
      [] to = "needs_review" -> "review"
      [] OTHER -> to

Restarts(r, to) == to = "in_progress" /\ r.status \in {"absent", "queued", "failed"}

Counted(r, to) == IF Restarts(r, to) THEN r.count + 1 ELSE r.count

\* only a review keeps a question, and only if one is given
Question(r, to, asked) ==
    CASE to = "needs_review" -> asked
      [] to \in {"in_progress", "failed"} -> FALSE
      [] OTHER -> r.question

Transition(r, isOpen, to) ==
    {[status |-> to, stage |-> StageOf(r, to), count |-> Counted(r, to),
      submitted |-> r.submitted \/ to = "submitted",
      code |-> to = "failed" \/ (r.code /\ ~Restarts(r, to)),
      question |-> Question(r, to, asked)] :
        asked \in {a \in BOOLEAN : to \in Allowed[r.status] /\ (isOpen \/ to = "failed")}}

StatusesOf(stage) ==
    CASE stage \in {"opened", "form"} -> {"in_progress"}
      [] stage = "verification" -> {"in_progress", "needs_verification"}
      [] stage = "review" -> {"in_progress", "needs_review"}
      [] stage = "ready_to_submit" -> {"in_progress", "ready_to_submit"}
      [] OTHER -> {stage}

Ongoing == {"in_progress", "needs_verification", "needs_review", "ready_to_submit"}

Checkpointed(r, stages) ==
    {[r EXCEPT !.stage = t] : t \in {u \in stages : /\ r.status \in Ongoing
                                                    /\ r.status \in StatusesOf(u)}}

Started(r, isOpen) ==
    UNION {Checkpointed(n, {"opened"}) : n \in IF isOpen THEN Transition(r, isOpen, "in_progress")
                                                         ELSE {}}

Reset_Submitted(r, isOpen) ==      \* mutant
    IF r = Absent THEN Ensured(r, isOpen)
    ELSE {[Queued EXCEPT !.count = r.count, !.submitted = r.submitted]}

Reset(r, isOpen) ==
    CASE r = Absent -> Ensured(r, isOpen)
      [] r.status = "submitted" -> {}
      [] OTHER -> {[Queued EXCEPT !.count = r.count, !.submitted = r.submitted]}

Viewed(r, isOpen) == IF r = Absent THEN Ensured(r, isOpen) ELSE {r}

ResultsOf(tool, r, isOpen) ==
    CASE tool = "status" -> Viewed(r, isOpen)
      [] tool = "answer" -> Ensured(r, isOpen)
      [] tool = "start" -> Started(r, isOpen)
      [] tool = "checkpoint" -> Checkpointed(r, Stages \ {"none"})
      [] tool = "verify" -> Transition(r, isOpen, "needs_verification")
      [] tool = "resume" -> Transition(r, isOpen, "in_progress")
      [] tool = "review" -> Transition(r, isOpen, "needs_review")
      [] tool = "ready" -> Transition(r, isOpen, "ready_to_submit")
      [] tool = "submit" -> Transition(r, isOpen, "submitted")
      [] tool = "fail" -> Transition(r, isOpen, "failed")
      [] tool = "reset" -> Reset(r, isOpen)
      [] OTHER -> {}

-----------------------------------------------------------------------------
(* Calls, as transactions.                                                   *)

Newest(jobs) == {j \in jobs : \A k \in jobs : k <= j}

Eligible == {j \in open : row[j].status \in {"absent", "queued"}}

\* the postings for which ensure_application_attempt is about to INSERT
Ensuring(tool) ==
    {j \in IF tool = "next" THEN Newest(Eligible) ELSE Eligible : row[j] = Absent}

\* the tables a call may write; a call that raises has none
Tables(tool) ==
    IF tool \in {"next", "queue"}
      THEN {[j \in Posting |-> IF j \in Ensuring(tool) THEN Queued ELSE row[j]]}
      ELSE UNION {{[row EXCEPT ![j] = r] : r \in ResultsOf(tool, row[j], j \in open)} : j \in Posting}

Starting(c, j) == Restarts(c.seen[j], c.new[j].status)

\* the reads and the decision; a call that writes nothing is left out
Begin(s, tool) ==
    /\ call[s] = NoCall /\ tool \in ToolsOf[s]
    /\ \E new \in Tables(tool) \ {row} :
          LET c == [tool |-> tool, seen |-> row, new |-> new]
          IN  /\ \A j \in Posting : Starting(c, j) => starts[j] < MaxStarts[j]
              /\ call' = [call EXCEPT ![s] = c]
    /\ UNCHANGED <<open, row, starts, raced>>

Inserts(c) == {j \in Posting : c.seen[j] = Absent /\ c.new[j] # Absent}

\* ensure_application_attempt reads again before its INSERT
ReadsAgain == {"next", "queue", "status", "answer", "reset"}

\* the columns the call changed, over whatever was committed meanwhile
Columns(seen, new, current) ==
    LET kept(n, o, c) == IF n # o THEN n ELSE c IN
    [status |-> kept(new.status, seen.status, current.status),
     stage |-> kept(new.stage, seen.stage, current.stage),
     count |-> kept(new.count, seen.count, current.count),
     submitted |-> kept(new.submitted, seen.submitted, current.submitted),
     code |-> kept(new.code, seen.code, current.code),
     question |-> kept(new.question, seen.question, current.question)]

MergedRow_Upsert(c, j) == Columns(c.seen[j], c.new[j], row[j])     \* mutant
MergedRow(c, j) == IF j \in Inserts(c) /\ row[j] # Absent THEN row[j]
                ELSE Columns(c.seen[j], c.new[j], row[j])

\* an INSERT finds nothing, or leaves what it finds
Overtaken(c) == {j \in Posting \ Inserts(c) : c.new[j] # c.seen[j] /\ row[j] # c.seen[j]}

CommitCall(s) ==
    LET c == call[s] IN
    /\ c # NoCall
    /\ c.tool \in ReadsAgain \/ \A j \in Inserts(c) : row[j] = Absent
    /\ row' = [j \in Posting |-> MergedRow(c, j)]
    /\ starts' = [j \in Posting |-> IF Starting(c, j) THEN starts[j] + 1 ELSE starts[j]]
    /\ raced' = raced \cup Overtaken(c)
    /\ call' = [call EXCEPT ![s] = NoCall]
    /\ UNCHANGED open

\* a conflicting INSERT, or a process that dies: the transaction rolls back
AbortCall(s) ==
    /\ call[s] # NoCall
    /\ call' = [call EXCEPT ![s] = NoCall]
    /\ UNCHANGED <<open, row, starts, raced>>

\* ingestion closes and reopens postings meanwhile
Listed(j) ==
    /\ open' \in {open \cup {j}, open \ {j}} \ {open}
    /\ UNCHANGED <<row, call, starts, raced>>

AttemptsNext ==
    \/ \E s \in Session : CommitCall(s) \/ AbortCall(s) \/ \E tool \in Tools : Begin(s, tool)
    \/ \E j \in Posting : Listed(j)

AttemptsSpec == AttemptsInit /\ [][AttemptsNext]_attempts

-----------------------------------------------------------------------------
(* Properties                                                                *)

(* The context stored with a checkpoint belongs to its status: a failure     *)
(* code to failed ones, a question for the user to reviews, and a pause or   *)
(* an end leaves the checkpoint at its own stage.                            *)
ContextFitsStatus(r) ==
    /\ r.code <=> r.status = "failed"
    /\ r.question => r.status = "needs_review"
    /\ r.status \notin {"absent", "queued", "in_progress"} => r.status \in StatusesOf(r.stage)

(* What a reset leaves that raced with the agent's calls: of an application  *)
(* that goes on, no failure and no question of an earlier try (the next      *)
(* start clears them), and a stage of its own or none.                       *)
ContextIsCurrent(r) == r.status \notin {"absent", "queued"} =>
    /\ r.code => r.status = "failed"
    /\ r.question => r.status = "needs_review"
    /\ r.status # "in_progress" /\ r.stage # "none" => r.status \in StatusesOf(r.stage)

(* attempt_count counts the times the application was started or started     *)
(* again: not resumed, and not forgotten by a reset.                         *)
CountsStarts == \A j \in Posting : row[j].count = starts[j]

(* What was once submitted stays submitted: never offered, failed or reset.  *)
SubmittedIsFinal(r) == r.submitted <=> r.status = "submitted"

(* reset_application(): "submitted applications cannot be reset".            *)
SubmittedCannotBeReset == \A j \in Posting : SubmittedIsFinal(row[j])

(* Only an explicit reset puts an application that was begun back in the     *)
(* queue: no concurrent listing or look-up that creates missing attempts.    *)
OnlyResetRequeues == [][\A j \in Posting :
    row[j].status \notin {"absent", "queued"} /\ row'[j].status = "queued"
        => \E s \in Session : call[s].tool = "reset" /\ call'[s] = NoCall]_attempts

(* What an attempt remembers agrees with what was done, whatever the         *)
(* operator lists, looks up and resets while the agent works: in full where  *)
(* no call wrote over a change it had not read, and where a reset did, each  *)
(* start is still counted, a submission leaves its mark and nothing of       *)
(* another try shows.                                                        *)
AttemptsConsistent ==
    /\ AttemptsTypeOK
    /\ \A j \in Posting \ raced : ContextFitsStatus(row[j]) /\ SubmittedIsFinal(row[j])
    /\ \A j \in Posting : ContextIsCurrent(row[j]) /\ (row[j].status = "submitted" => row[j].submitted)
    /\ CountsStarts
=============================================================================
