------------------------------- MODULE Polling -------------------------------
(***************************************************************************)
(* The worker that polls sources: the lock that keeps it alone and its     *)
(* restarts (app/production_worker.py), its schedule and the drain that    *)
(* ends it (app/scheduler.py), and what a poll of a GitHub repository      *)
(* reads (_scheduler_targets and _process_commits of app/cli.py).          *)
(*                                                                         *)
(* A poll lists the newest commit of its repository and ingests that one,  *)
(* in one transaction.  Targets are numbered in the order of registration, *)
(* which is the order the drain visits their locks in.                     *)
(***************************************************************************)
EXTENDS Integers, FiniteSets

CONSTANTS
    Worker,         \* containers that may run the scheduler
    Targets,        \* number of repositories
    MaxCommits,     \* bound: commits of a repository
    MaxEnds         \* bound: stops and crashes of workers

ASSUME PollingAssumption ==
    /\ Targets \in Nat \ {0} /\ MaxCommits \in Nat /\ MaxEnds \in Nat
    /\ "nobody" \notin Worker

Repo == 1 .. Targets

VARIABLES
    holder,     \* the worker with the flock, or "nobody"
    phase,      \* of the holder: "polling", "draining"
    place,      \* the lock the drain waits for
    created,    \* targets whose poll is a task that has not begun
    polls,      \* [Repo -> commits being ingested]
    head,       \* [Repo -> its newest commit]
    ingested,   \* [Repo -> commits ingested, in order]
    ends,       \* stops and crashes so far
    owed,       \* history: <<repo, commit>> in flight when the signal came
    cut         \* history: those of them the shutdown cancelled

work == <<holder, phase, place, created, polls, ends, owed, cut>>
polling == <<work, head, ingested>>

NoPolls == [r \in Repo |-> {}]
InFlight == {x \in Repo \X (1 .. MaxCommits) : x[2] \in polls[x[1]]}

PollingInit ==
    /\ holder = "nobody" /\ phase = "polling" /\ place = 0
    /\ created = {} /\ polls = NoPolls
    /\ head = [r \in Repo |-> 1]
    /\ ingested = [r \in Repo |-> 0]
    /\ ends = 0 /\ owed = {} /\ cut = {}

Push(r) ==
    /\ head[r] < MaxCommits
    /\ head' = [head EXCEPT ![r] = @ + 1]
    /\ UNCHANGED <<work, ingested>>

\* flock(LOCK_EX | LOCK_NB): another worker exits at once.  Targets are due at once
Begin(w) ==
    /\ holder = "nobody"
    /\ holder' = w /\ created' = Repo
    /\ UNCHANGED <<phase, place, polls, head, ingested, ends, owed, cut>>

\* max_instances = 1: an interval that ends during a poll is skipped
Idle_Once(r) == polls[r] = {} /\ r \notin created /\ ingested[r] = 0      \* mutant
Idle(r) == polls[r] = {} /\ r \notin created

Due(r) ==
    /\ holder # "nobody" /\ phase = "polling" /\ Idle(r)
    /\ created' = created \cup {r}
    /\ UNCHANGED <<holder, phase, place, polls, head, ingested, ends, owed, cut>>

\* the task takes the target's lock and lists the newest commit
List(r) ==
    /\ r \in created
    /\ created' = created \ {r}
    /\ polls' = [polls EXCEPT ![r] = @ \cup {head[r]}]
    /\ UNCHANGED <<holder, phase, place, head, ingested, ends, owed, cut>>

\* execute() logs any exception and gives the lock back
EndPoll(r) == \E commit \in polls[r] :
    /\ ingested' \in {ingested, [ingested EXCEPT ![r] = commit]}
    /\ polls' = [polls EXCEPT ![r] = @ \ {commit}]
    /\ owed' = owed \ {<<r, commit>>}
    /\ UNCHANGED <<holder, phase, place, created, head, ends, cut>>

Ingested(r) == EndPoll(r) /\ ingested'[r] = head[r]

\* a free lock is passed without a pause, a held one is waited for
NextHeld(n) ==
    LET held == {r \in Repo : r >= n /\ polls[r] # {}}
    IN  IF held = {} THEN 0 ELSE CHOOSE r \in held : \A q \in held : r <= q

\* what still runs is cancelled
Gone ==
    /\ holder' = "nobody" /\ phase' = "polling" /\ place' = 0
    /\ created' = {} /\ polls' = NoPolls /\ owed' = {}
    /\ UNCHANGED <<head, ingested>>

\* SIGTERM: no new polls, then one lock after the other
Stop ==
    /\ holder # "nobody" /\ phase = "polling" /\ ends < MaxEnds
    /\ ends' = ends + 1
    /\ IF NextHeld(1) = 0 THEN Gone /\ cut' = InFlight
       ELSE /\ phase' = "draining" /\ place' = NextHeld(1) /\ owed' = InFlight
            /\ UNCHANGED <<holder, created, polls, head, ingested, cut>>

Visit ==
    /\ phase = "draining" /\ polls[place] = {}
    /\ IF NextHeld(place) = 0 THEN Gone /\ cut' = owed
       ELSE place' = NextHeld(place) /\ UNCHANGED <<holder, phase, created, polls, head, ingested, owed, cut>>
    /\ UNCHANGED ends

\* 150 s
Expire == phase = "draining" /\ Gone /\ UNCHANGED <<ends, cut>>

Crash ==
    /\ holder # "nobody" /\ ends < MaxEnds
    /\ ends' = ends + 1
    /\ Gone /\ UNCHANGED cut

PollingNext ==
    \/ Stop \/ Visit \/ Expire \/ Crash
    \/ \E w \in Worker : Begin(w)
    \/ \E r \in Repo : Push(r) \/ Due(r) \/ List(r) \/ EndPoll(r)

\* workers are restarted, intervals pass, and polls do not fail for ever
PollingFairness ==
    /\ WF_polling(\E w \in Worker : Begin(w))
    /\ WF_polling(Visit \/ Expire)
    /\ \A r \in Repo : WF_polling(Due(r)) /\ WF_polling(List(r)) /\ WF_polling(EndPoll(r))
                       /\ SF_polling(Ingested(r))

-----------------------------------------------------------------------------
(* Properties                                                                *)

(* Neither a slow poll nor a restart lets an older commit of a repository be *)
(* ingested after a newer one.                                               *)
IngestedInOrder == [][\A r \in Repo : ingested'[r] >= ingested[r]]_ingested

(* "Allow in-flight ingestion/sends to finish before shutdown": a poll that  *)
(* ran when the signal came is cut only by the deadline of the drain.        *)
InFlightFinishes == cut = {}

(* The last commit of a repository is ingested in the end, across failed     *)
(* polls, drains and crashes.                                                *)
NewestIngested == \A r \in Repo : head[r] = MaxCommits ~> ingested[r] = MaxCommits

(* The scheduler ingests in order, gets to the newest commit, and cuts no    *)
(* poll that a drain found at work.                                          *)
PollsCatchUp == IngestedInOrder /\ NewestIngested /\ []InFlightFinishes
=============================================================================
