---------------------------- MODULE GitHubReads ----------------------------
(***************************************************************************)
(* Reads of a GitHub repository (app/scrapers/github_client.py) and their  *)
(* retries (app/utils/resilience.py).                                      *)
(*                                                                         *)
(* A read takes up to two requests, and the branch may be pushed to        *)
(* between them: a file too large for the contents endpoint is fetched     *)
(* again as a blob, and a commit asked for without a name is looked up     *)
(* first.  A revision stands for a commit, for the text of the file in it  *)
(* and for the identity of both; revision 0 is the empty repository.       *)
(***************************************************************************)
EXTENDS Integers, Sequences

CONSTANTS
    Reader,         \* concurrent readers of one client
    Revisions,      \* bound: commits pushed to the branch
    Large,          \* revisions whose file is not delivered inline
    Attempts,       \* attempts of a request
    MinDelay,       \* shortest and longest pause, largest jitter
    MaxDelay,
    Jitter,
    RetryAfter      \* delays GitHub may ask for

ASSUME GitHubReadsAssumption ==
    /\ Revisions \in Nat /\ Large \subseteq 1..Revisions /\ Attempts \in Nat \ {0}
    /\ MinDelay \in Nat /\ MaxDelay \in Nat /\ MinDelay <= MaxDelay /\ Jitter \in Nat
    /\ RetryAfter \subseteq Nat

VARIABLES
    branch,         \* the latest revision
    client,         \* "open" or "closed"
    read            \* what each reader is doing

reads == <<branch, client, read>>

GitHubReadsInit ==
    /\ branch \in 0..1
    /\ client = "open"
    /\ read = [r \in Reader |-> [at |-> "idle"]]

-----------------------------------------------------------------------------
\* What a request may meet.  "limited" is 403 or 429, with or without a
\* readable Retry-After; "missing" is 404, "refused" any other lasting failure.
Answers ==
    {[is |-> kind] : kind \in {"ok", "transient", "limited", "missing", "refused"}}
      \cup {[is |-> "limited", after |-> delay] : delay \in RetryAfter}

IsTransient(answer) == answer.is \in {"transient", "limited"}

Capped(delay) == IF delay <= MaxDelay THEN delay ELSE MaxDelay

\* the pauses that may follow the nth attempt
Pauses(answer, n) ==
    IF "after" \in DOMAIN answer
      THEN {Capped(answer.after)}
      ELSE {Capped(Capped(MinDelay * 2^(n - 1)) + j) : j \in 0..Jitter}

-----------------------------------------------------------------------------
\* The request a read makes next: the commits of the branch, the contents of
\* the file at a ref (0 is the branch), one commit, or one blob.
FirstRequest(op, ref) ==
    CASE op = "file" -> [get |-> "contents", of |-> ref]
      [] op = "commit" /\ ref = 0 -> [get |-> "commits", of |-> 0]
      [] op = "commit" /\ ref > 0 -> [get |-> "commit", of |-> ref]

BlobOf_Branch(revision) == [get |-> "contents", of |-> 0]      \* mutant
BlobOf(revision) == [get |-> "blob", of |-> revision]

StartRead(r, op, ref) ==
    /\ read[r].at \in {"idle", "done", "failed"}
    /\ read' = [read EXCEPT ![r] =
                  [at |-> "asks", op |-> op, ref |-> ref, request |-> FirstRequest(op, ref),
                   known |-> 0, tries |-> <<>>, began |-> branch]]
    /\ UNCHANGED <<branch, client>>

\* what a request that succeeds brings: a revision, and whether that is all
Delivered(request) ==
    LET revision == IF request.of = 0 THEN branch ELSE request.of
    IN  [revision |-> revision,
         whole |-> request.get \in {"commit", "blob"}
                     \/ (request.get = "contents" /\ revision \notin Large)]

\* a commit or a file that does not exist is not found
Exists(request) == request.of > 0 \/ branch > 0 \/ request.get = "commits"

ReadEnds(r, outcome) == read' = [read EXCEPT ![r] = outcome]

ReadFails(r, error) ==
    ReadEnds(r, [at |-> "failed", error |-> error, tries |-> read[r].tries])

Receive(r) ==
    LET request == read[r].request
        delivered == Delivered(request)
        identity == IF read[r].known > 0 THEN read[r].known ELSE delivered.revision
        next == IF request.get = "commits" THEN [get |-> "commit", of |-> delivered.revision]
                                           ELSE BlobOf(delivered.revision)
    IN  IF delivered.revision = 0      \* no commits
          THEN ReadFails(r, "missing")
          ELSE IF delivered.whole \/ read[r].known > 0
            THEN ReadEnds(r, [at |-> "done", ref |-> read[r].ref, sha |-> identity,
                            text |-> delivered.revision, began |-> read[r].began,
                            ended |-> branch])
            ELSE ReadEnds(r, [read[r] EXCEPT !.request = next, !.tries = <<>>,
                                           !.known = delivered.revision])

\* one attempt: an answer, or a client that is closed by now
Ask(r) ==
    /\ read[r].at = "asks"
    /\ UNCHANGED <<branch, client>>
    /\ \/ client = "closed" /\ ReadFails(r, "closed")
       \/ /\ client = "open"
          /\ \E answer \in Answers :
                /\ answer.is \in {"ok", "missing"} =>
                     (answer.is = "ok" <=> Exists(read[r].request))
                /\ LET n == Len(read[r].tries) + 1
                   IN  \/ answer.is = "ok" /\ Receive(r)
                       \/ /\ IsTransient(answer) /\ n < Attempts
                          /\ \E pause \in Pauses(answer, n) :
                               read' = [read EXCEPT ![r].at = "pauses", ![r].tries =
                                          Append(@, [answer |-> answer, pause |-> pause])]
                       \/ /\ answer.is # "ok" /\ ~(IsTransient(answer) /\ n < Attempts)
                          /\ read' = [read EXCEPT ![r] =
                                        [at |-> "failed", error |-> answer.is, tries |->
                                           Append(@.tries, [answer |-> answer, pause |-> 0])]]

Resume(r) ==
    /\ read[r].at = "pauses"
    /\ read' = [read EXCEPT ![r].at = "asks"]
    /\ UNCHANGED <<branch, client>>

CancelRead(r) ==
    /\ read[r].at \in {"asks", "pauses"}
    /\ ReadEnds(r, [at |-> "idle"])
    /\ UNCHANGED <<branch, client>>

CloseClient == client = "open" /\ client' = "closed" /\ UNCHANGED <<branch, read>>

Push == branch < Revisions /\ branch' = branch + 1 /\ UNCHANGED <<client, read>>

GitHubReadsNext ==
    \/ \E r \in Reader :
         \/ \E op \in {"file", "commit"}, ref \in 0..branch : StartRead(r, op, ref)
         \/ Ask(r) \/ Resume(r) \/ CancelRead(r)
    \/ CloseClient
    \/ Push

-----------------------------------------------------------------------------
(* Properties                                                                *)

(* "Use its immutable blob identity rather than [...] a second branch lookup *)
(* that could observe a different revision": a read that finishes returns    *)
(* the text of the revision it names, and that revision is the one asked for *)
(* or was the latest at some moment of the read, however often the branch    *)
(* was pushed to between its requests.                                       *)
ReadsOneRevision ==
    \A r \in Reader : read[r].at = "done" =>
        /\ read[r].text = read[r].sha
        /\ IF read[r].ref > 0 THEN read[r].sha = read[r].ref
                              ELSE read[r].sha \in read[r].began..read[r].ended

(* A request is repeated only after failures that may pass, never more often *)
(* than Attempts allows and never sooner than GitHub asked (up to MaxDelay), *)
(* and it is given up only when the attempts are spent or the last answer    *)
(* is final: a closed client excepted, no failure is reported early.         *)
RetriesAreDue ==
    \A r \in Reader : "tries" \in DOMAIN read[r] =>
        LET tries == read[r].tries
            again == IF read[r].at = "failed" /\ read[r].error # "closed"
                       THEN 1..Len(tries) - 1 ELSE DOMAIN tries
        IN  /\ Len(tries) <= Attempts
            /\ \A i \in again :
                 /\ tries[i].answer.is \in {"transient", "limited"}
                 /\ tries[i].pause <= MaxDelay
                 /\ "after" \in DOMAIN tries[i].answer =>
                      tries[i].pause >= Capped(tries[i].answer.after)
            /\ (read[r].at = "failed" /\ read[r].error # "closed") =>
                 \/ Len(tries) = Attempts
                 \/ read[r].error \in {"missing", "refused"}

(* Reads of several requests, each with its retries, return one revision or  *)
(* a failure that is due.                                                    *)
ReadsAreSound == ReadsOneRevision /\ RetriesAreDue
=============================================================================
