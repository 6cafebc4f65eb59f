------------------------------ MODULE Trackers ------------------------------
(***************************************************************************)
(* A local tracker and the commands that run it (app/trackers/service.py,  *)
(* store.py, cli.py): a document on disk, the lock file beside it, and     *)
(* processes that stop anywhere.                                           *)
(*                                                                         *)
(* A site answers with a chain of hops.  A job is what the model reports   *)
(* of one posting; its version stands for all facts that may change.       *)
(***************************************************************************)
EXTENDS Integers, Sequences, FiniteSets, SequencesExt

CONSTANTS
    Command,        \* processes: one command each, "create" or a run
    Watches,        \* commands with --watch
    Chain,          \* hops a site may answer with
    ModelReply,     \* what the model may answer
    KeptChecks,     \* 100: checks a document keeps
    MaxChecks       \* bound: checks of all commands

NoFile == <<>>

ASSUME TrackerAssumption ==
    /\ "none" \notin Command /\ Watches \subseteq Command /\ KeptChecks \in Nat \ {0} /\ MaxChecks \in Nat
    /\ \A c \in Chain : \A i \in DOMAIN c :
         IF i = Len(c) THEN c[i].kind \in {"page", "error"} ELSE c[i].kind = "redirect"
    /\ \A r \in ModelReply : r.state \in {"read", "partial", "cut", "invalid"}

VARIABLES
    document,       \* history of the tracker on disk, NoFile before it is created
    lockFile,       \* the command whose .lock exists, or "none"
    command,        \* what each command is doing
    checks          \* checks so far

trackers == <<document, lockFile, command, checks>>

Waiting == [at |-> "begin", history |-> NoFile, check |-> NoFile]

TrackersInit ==
    /\ document = NoFile /\ lockFile = "none" /\ checks = 0
    /\ command = [c \in Command |-> Waiting]

-----------------------------------------------------------------------------
(* check_tracker().                                                          *)

\* fetch_page(): at most six requests, each to a public address
Fetched(chain) ==
    \E i \in 1 .. 6 \cap DOMAIN chain :
        /\ chain[i].kind = "page"
        /\ \A j \in 1 .. i - 1 : chain[j].kind = "redirect"
        /\ \A j \in 1 .. i : chain[j].public

\* ask_model() and the checks of its answer; links are those of the last page
ReadAs(reply, links) ==
    /\ reply.state = "read"
    /\ {j.url : j \in reply.jobs} \subseteq links
    /\ \A j, k \in reply.jobs : j.url = k.url => j = k
    /\ \A j \in reply.jobs : j.stated

Snapshot(history) == IF history = NoFile THEN {} ELSE history[Len(history)].jobs

Change(url, before, after) ==
    [url |-> url, before |-> before, after |-> after,
     kind |-> IF before = {} THEN "added" ELSE IF after = {} THEN "missing" ELSE "updated"]

Previous(history) == Snapshot(history)

CheckOf(history, jobs) ==
    LET Of(set, url) == {j \in set : j.url = url}
        previous == Previous(history)
        urls == {j.url : j \in previous \cup jobs}
    IN  [baseline |-> history = NoFile, jobs |-> jobs,
         changes |-> IF history = NoFile THEN {}
                     ELSE {Change(u, Of(previous, u), Of(jobs, u)) :
                             u \in {v \in urls : Of(previous, v) # Of(jobs, v)}}]

-----------------------------------------------------------------------------
(* The commands.                                                             *)

Goes(c, at) == command' = [command EXCEPT ![c].at = at]

LinksOf(chain) == chain[Len(chain)].links

\* create: plan and baseline first, then the lock
Plan(c, chain, reply) ==
    /\ command[c].at = "begin" /\ document = NoFile /\ checks < MaxChecks
    /\ ~\E d \in Command : command[d].at # "begin"
    /\ checks' = checks + 1
    /\ IF Fetched(chain) /\ ReadAs(reply, LinksOf(chain))
         THEN command' = [command EXCEPT
                ![c] = [at |-> "lock", history |-> NoFile, check |-> CheckOf(NoFile, reply.jobs)]]
         ELSE Goes(c, "failed")
    /\ UNCHANGED <<document, lockFile>>

\* O_EXCL: a busy tracker ends the command, in watch mode too
Free_Always(c) == TRUE      \* mutant
Free(c) == lockFile = "none"

Lock(c) ==
    /\ \/ command[c].at = "lock"
       \/ command[c].at = "begin" /\ document # NoFile /\ checks < MaxChecks
    /\ IF Free(c)
         THEN lockFile' = c /\ Goes(c, IF command[c].at = "lock" THEN "save" ELSE "load")
         ELSE Goes(c, "failed") /\ UNCHANGED lockFile
    /\ UNCHANGED <<document, checks>>

Load(c) ==
    /\ command[c].at = "load"
    /\ command' = [command EXCEPT ![c].at = "check", ![c].history = document]
    /\ UNCHANGED <<document, lockFile, checks>>

CheckTracker(c, chain, reply) ==
    /\ command[c].at = "check" /\ checks < MaxChecks
    /\ checks' = checks + 1
    /\ IF Fetched(chain) /\ ReadAs(reply, LinksOf(chain))
         THEN command' = [command EXCEPT
                ![c].at = "save", ![c].check = CheckOf(command[c].history, reply.jobs)]
         ELSE Goes(c, IF c \in Watches THEN "unlock" ELSE "fail")
    /\ UNCHANGED <<document, lockFile>>

LastOf(history) == SubSeq(history, IF Len(history) > KeptChecks THEN Len(history) - KeptChecks + 1 ELSE 1,
                          Len(history))

\* a temporary file that replaces the document in one step
Save(c) ==
    /\ command[c].at = "save"
    /\ document' = LastOf(Append(command[c].history, command[c].check))
    /\ Goes(c, "unlock")
    /\ UNCHANGED <<lockFile, checks>>

Unlock(c) ==
    /\ command[c].at \in {"unlock", "fail"}
    /\ lockFile' = "none"
    /\ command' = [command EXCEPT ![c] =
         [Waiting EXCEPT !.at = IF command[c].at = "fail" THEN "failed"
                                ELSE IF c \in Watches THEN "begin" ELSE "ended"]]
    /\ UNCHANGED <<document, checks>>

\* Ctrl+C: the lock and a temporary file are removed on the way out
Interrupt(c) ==
    /\ command[c].at \in {"load", "check", "save"}
    /\ Goes(c, "fail")
    /\ UNCHANGED <<document, lockFile, checks>>

\* the process is killed: no finally clause removes the lock
Kill(c) ==
    /\ command[c].at \in {"load", "check", "save", "unlock", "fail"}
    /\ Goes(c, "killed")
    /\ UNCHANGED <<document, lockFile, checks>>

Busy == {c \in Command : command[c].at \in {"load", "check", "save", "unlock", "fail"}}

\* "Remove a stale lock only after verifying no check for that tracker is running"
RemoveStaleLock ==
    /\ lockFile # "none" /\ Busy = {}
    /\ lockFile' = "none"
    /\ UNCHANGED <<document, command, checks>>

TrackersNext ==
    \/ \E c \in Command, chain \in Chain, reply \in ModelReply :
         Plan(c, chain, reply) \/ CheckTracker(c, chain, reply)
    \/ \E c \in Command : Lock(c) \/ Load(c) \/ Save(c) \/ Unlock(c) \/ Interrupt(c) \/ Kill(c)
    \/ RemoveStaleLock

-----------------------------------------------------------------------------
(* Properties                                                                *)

(* "Exclusive per-tracker operations": one command at a time is between lock *)
(* and unlock, and a save extends the history that is on disk, so that no    *)
(* check another command saved is lost.                                      *)
SavesExtend ==
    /\ Cardinality(Busy) <= 1
    /\ \A c \in Command : command[c].at \in {"check", "save"} => command[c].history = document

(* Each check of the document tells exactly how its jobs differ from those   *)
(* of the check before it, through failed checks, lost processes and checks  *)
(* dropped at the limit; only the first one ever is a baseline.              *)
HistoryExplains ==
    /\ \A i \in 1 .. Len(document) - 1 :
         LET before == document[i].jobs
             check == document[i + 1]
             gone == UNION {x.before : x \in check.changes}
             come == UNION {x.after : x \in check.changes}
         IN  /\ ~check.baseline /\ check.jobs = (before \ gone) \cup come
             /\ \A x \in check.changes : x.before # x.after /\ x.before \subseteq before
    /\ document # NoFile /\ Len(document) < KeptChecks => document[1].baseline

(* A tracker's document is one chain of checks, whoever runs commands and    *)
(* wherever they stop.                                                       *)
HistoryIsSound == SavesExtend /\ HistoryExplains
=============================================================================
