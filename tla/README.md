# JobPing in TLA+

TLA+ models of JobPing: e-mail notifications, the lifecycle of job postings and
the pipelines that feed it, evidence checks, application attempts, live events
and request limits, scheduling and scraping, trackers, one migration and the
blue-green deployment; TLC instances that model-check them, and TLAPS proofs
about all of them: what the prover cannot reach is listed under *Only
model-checked*. Paths and line numbers refer to the repository's `app/`,
`alembic/`, `deploy/`, `docs/` and `tests/`.

1. [The system](#the-system)
2. [Modules](#modules)
3. [How the models correspond to the code](#how-the-models-correspond-to-the-code)
4. [Runs](#runs)
5. [Fairness](#fairness)
6. [Theorems](#theorems)
7. [Disagreements between code and text](#disagreements-between-code-and-text)
8. [What is not modelled](#what-is-not-modelled)
9. [Plan](#plan)

## The system

JobPing ingests job postings from ATS boards (Greenhouse, Lever, Workday,
ApplyGuy) and from the Simplify tables on GitHub, keeps them in PostgreSQL with
a Redis key per posting for deduplication, serves them over HTTP, Server-Sent
Events and WebSocket, mails alerts and daily recaps to subscribers, and keeps
checkpoints for an agent that fills in applications.

| Component | State | Operations | Talks to | What must hold |
|---|---|---|---|---|
| E-mail delivery (`notifications/worker.py`, `api.py`, `security.py`) | subscribers, deliveries with lease and idempotency key, account pauses, webhook ids | settings, connections, test, unsubscribe, claim, send, record, webhook | PostgreSQL under one `FOR UPDATE` lock (`core.lock`), Firebase, Resend | a delivery is mailed at most once, with one payload; one holder per lease; limits, places and suppressions respected; outcomes final |
| Discovery matching and recaps (`worker.py: prepare`) | discovery events, matches, alert and recap deliveries, each user's window | match, close a recap window, change preferences | ingestion (writes events), delivery (sends) | every discovery matched under the preferences at its commit; each listed in one recap; windows close and lose nothing |
| Job lifecycle (`services/repost_classifier.py`, `db/repository.py`, `pipelines/`) | posting, occurrences, source observations, status log, Redis hash | discover, update, close, reopen, repost | PostgreSQL row locks, Redis, notifications (events) | one discovery; closed history immutable; reopening needs an identity; flag, occurrence, log and cache agree |
| Ingestion pipelines (`pipelines/`, `cli.py`) | Redis hashes, candidates of a run | classify rows, choose, decide, persist, report | scrapers, repository, Redis | what is written does not depend on the cache; the report tells what was written |
| Job publication (`db/repository.py`, `events/publisher.py`) | events queued in a session, publish tasks | save, commit, roll back, publish | SQLAlchemy hooks, Redis | nothing is published that rolls back; every change is told |
| Application attempts (`applications/service.py`, `db/repository.py`, `mcp/`, `cli.py`) | one attempt row per posting | start, checkpoint, verification, review, ready, submit, fail, reset, list | PostgreSQL without locks, MCP tool calls, the operator's CLI | only a reset requeues; context, count and submission fit the status unless a reset raced with another call |
| Evidence queue (`evidence/store.py`, `worker.py`, `api.py`) | leased checks with tokens and targets | enqueue, claim, collect, finish, invalidate, backfill | PostgreSQL, ingestion, users | stale results never land; every check is settled; verified details stand |
| Evidence collection (`evidence/collect.py`, `extract.py`, `fetch.py`, `screening.py`) | documents of a check, domain locks and pauses | request, follow, render, extract, reconcile, evaluate | HTTP, browser, SQL filters | only the role's text counts; both screenings agree; domains are left in peace |
| Request limits (`request_limits/`) | Redis token buckets, stream leases | admit, acquire, renew, release | Redis scripts, HTTP middleware | rates and places hold through lost calls; shadow mode is harmless |
| Live events (`events/`, `api/v1/sse.py`, `websocket_manager.py`) | registered sockets, subscriptions | fan out, evict | Redis, browsers | no gaps; a slow client does not stop others |
| Scheduler, workers (`scheduler.py`, `production_worker.py`) | locks of targets, process lock | poll, drain, stop, restart | pipelines | commits in order; the newest one is read; a drain waits |
| Scraper rates, retries, GitHub reads (`utils/`, `scrapers/github_client.py`) | bucket per host, requests of a read | acquire, evict, back off, read | GitHub | the rate holds across eviction and cancellation; a read returns one revision |
| README tables (`scrapers/markdown_parser.py`, `git_patch_parser.py`) | rows of a file or patch | parse | pipelines | every row, with its company, and no others |
| Locations, advertised facts, employer history (`services/`) | what a posting or company shows | merge, replace | pipelines, imports | the best source's newest word |
| Trackers (`trackers/`) | a document and a lock file | create, check, save, watch | sites, a language model | the history is one chain |
| Migration 0006, deployment (`alembic/`, `deploy/scripts/`) | tables and sequences; colours, journal, proxy | up, down; deploy, roll back, recover | Docker, nginx | pending mail survives; what serves stays |
| Candidate answers, applicant automation, ATS payloads, posting dates, read API | none that changes | functions, queries | | |

**What is hard.** E-mail is sent outside the lock, so a crash, a time-out or a
late arrival falls between the claim and the record of a delivery; webhooks and
settings step in between as well. Recap windows are closed by wall-clock time
while ingestion, which does not take the lock, commits discoveries carrying an
earlier observation time. Ingestion passes decide on rows they read before the
row lock and write Redis before they know the SQL outcome. Evidence checks
collect pages for up to a minute while their posting closes, moves or is
reposted. Application calls read without a lock and write the columns they
changed. Streams depend on leases in a Redis that may not answer, a deployment
on a journal that a killed script leaves behind. The hazards, each at its line
and with the properties that would catch it, are listed under `hazards` in
`PROJECT.json`.

## Modules

| Module | Models | Checked in |
|---|---|---|
| `Mailbox` | what delivery promises of a letter (abstract) | through `EmailMailbox` |
| `EmailDelivery` | settings, connections, places, claim/POST/record, webhooks, the provider and the network | `MCEmailDelivery`: EmailQueue, EmailRecaps, EmailAccounts |
| `EmailMailbox` | the refinement mapping from `EmailDelivery` to `Mailbox` | `MCEmailDelivery`: EmailQueue |
| `EmailDeliveryProofs` | ten theorems about `EmailDelivery`, and that it implements `Mailbox` | (TLAPS) |
| `DiscoveryMatching` | `match_events`, `make_recaps`, `put_settings` around them | `MCDiscoveryMatching`: RecapWindows |
| `DiscoveryMatchingProofs` | two theorems about `DiscoveryMatching` | (TLAPS) |
| `JobLifecycle` | one base hash under concurrent passes | `MCRecords`: Records |
| `JobLifecycleProofs` | four theorems about `JobLifecycle` | (TLAPS) |
| `ApplicationAttempts` | the attempt table under concurrent calls | `MCRecords`: Records; `MCApplicationAttempts`: LateReset |
| `EvidenceQueue` | checks, leases, tokens, backfill, ingestion and users around them | `MCRecords`: Records; `MCEvidence`: EvidenceProgress, EvidenceStaleClose |
| `EvidenceQueueProofs` | four theorems about `EvidenceQueue`, one each about `EvidenceCollection` and `Retrieval` | (TLAPS) |
| `Ingestion` | runs of the README pipeline over several files | `MCIngestion`: RefusedEvidence; `MCParts` |
| `ReadmeTables` | rows of tables in files and patches | `MCParts`: Parts |
| `GitHubReads`, `Throttle` | reads of two requests with retries; buckets per host | `MCParts` |
| `JobPublication` | events of commits | `MCParts` |
| `JobPublicationProofs` | a theorem each about `JobPublication` and `LiveEvents` | (TLAPS) |
| `LocationReconciliation` | the location and its source, over runs and refused readings | `MCParts` |
| `AdvertisedFacts`, `EmployerHistory` | merging of sources and datasets | `MCParts` |
| `EvidenceCollection` | one collection | `MCParts` |
| `Screening` | statements, verdicts and buckets | `MCScreening`: ImplicitMatch; `MCParts` |
| `Admission` | token buckets and HTTP places | `MCParts` |
| `PartProofs` | a theorem about each of `Admission`, `Streams`, `Trackers`, `GitHubReads` and `Deployment`, four about `ApplicationAttempts` | (TLAPS) |
| `Trackers`, `OccurrenceMigration`, `Deployment` | a tracker's document; migration 0006; the controller script | `MCParts` |
| `Retrieval`, `Polling`, `Streams`, `LiveEvents` | gets per domain; scheduled polls; stream leases; fan-out | `MCNetwork`: Network |
| `RecordProofs` | theorems about `LocationReconciliation`, `AdvertisedFacts`, `EmployerHistory`, `OccurrenceMigration`, `Polling`, `Screening` and `Throttle` | (TLAPS) |
| `ReadmeProofs` | a theorem each about `Ingestion` and `ReadmeTables` | (TLAPS) |

`EmailDelivery` and `DiscoveryMatching` are two views of one worker:
`DiscoveryMatching` decides *which* deliveries exist and abstracts what happens
to them to "attempted" or "gone"; `EmailDelivery` takes any deliveries of a
user and decides *how* they are sent, with matching and recaps as actions that
may create, fold or extend rows at any time. `JobLifecycle` and `Ingestion` are
two views of ingestion: several passes over one posting, interleaved down to
their locks, and whole runs over files with several rows, one after another.
`JobLifecycle` produces the discoveries and the closing of postings that the
notification modules take as environment actions (`Discover`, `Close`,
`ListingChanges`), and the observations, closures and reposts of
`EvidenceQueue` (`Observe`, `Close`, `Repost`). `Screening` takes up the
documents `EvidenceCollection` hands over, whose requests are those of
`Retrieval`. `ReadmeTables` yields the rows `Ingestion` starts from; `Polling`
says which commit they are of, `GitHubReads` how it is read.

**Parts.** Fourteen components share no variable with the others and promise
only what never happens. `MCParts` composes them as a disjoint sum: `part` says
which one a behaviour is about, the others keep one fixed initial state, and
each invariant of another part holds there at once. So one run explores the sum,
not the product, of their states. `MCNetwork` does the same for the four
components with liveness, where the fairness of polling, the only part that
begins by itself, is assumed for its own part. `MCRecords` composes `JobLifecycle`,
`ApplicationAttempts` and `EvidenceQueue` in the same way; the progress of checks has a run of its
own.

**Promises.** In each of these modules the properties are stated one by one,
each with the behaviour it is about; the last definition of the module joins
them to what the component promises as a whole (`StreamsAreCounted`,
`ReleasesSurvive`, ...), and that is what the run checks.

An operator marked `\* mutant` is a plausible mistake in the definition that
follows it (a dropped guard, an off-by-one). It is used by no specification;
`PROJECT.json` pairs it with the property that TLC finds violated when the
mistake is made.

## How the models correspond to the code

`PROJECT.json` maps each definition to its lines. The decisions behind it:

**EmailDelivery.**
- Every API handler and each worker transaction takes `core.lock`
  (`SELECT ... FOR UPDATE` of one row), so each is one action. `send_one()` is
  three: `Claim` (one transaction that walks the due rows, settles those that
  must not be sent and leases the first that may), the request's fate at the
  provider (`Arrive`, `Timeout`, `StrayArrives`, `Crash`) and `Record`.
- Every handler first runs `subscriber()`, which may move the row to a new
  address, cancel mail and bump the version: `Refreshed` and `RefreshedMail`
  are part of every handler's action.
- A payload is the recipient, the connection version it is sent with and what
  the posting looked like when it was rendered. That is what a retry could get
  wrong; wording and layout are left out.
- The provider (`Remembers`, `Conflicts`, `Accepting`) is external: it
  remembers an idempotency key per account for `Window`, answers a reused key
  with another payload by a conflict, and reports outcomes by webhook, at least
  once and in any order.
- Two timing assumptions, both guards of `Tick`: a request arrives at most
  `PostDelay` after its claim, and a worker that holds an answer records it
  within `HoldTime` (the HTTP client gives up after 20 seconds without progress,
  worker.py:485; the lease is 2 minutes, worker.py:363). A worker that stalls
  longer is outside the model; theorems that need the bounds say so.
- `prov[d].sends` counts messages that went out; the e-mail id is that count.
- `barred`, like `wanted`, `late`, `starts` and `behind` below, is a history
  variable: no guard reads it.

**Mailbox.** A letter is written, tried, mailed and confirmed, or dropped while
nobody tried it; from the first try its text is fixed, and at most one copy
with that text leaves. `EmailMailbox` maps a row to a stage by its status and
`first_attempt_at`, its text to the frozen payload, and the copies to what the
provider did. Leases, retries, keys and the give-up time are inside a stage.

**DiscoveryMatching.**
- `prepare()` calls `match_events` and then `make_recaps` in one transaction.
  They are two actions: `make_recaps` does nothing while an event is
  unprocessed, and `match_events` nothing otherwise, so their order inside the
  transaction does not matter.
- Ingestion is not under `core.lock`: `Discover` commits an event whose `at` is
  up to `Lags` in the past.
- `NextCutoff` is the recap hour of the user's zone over days of constant
  length; daylight-saving shifts are not modelled.

**JobLifecycle.**
- One logical posting (one `base_hash`). A pass is one transaction in six
  steps: unlocked read and projection (`Look`), Redis (`Classify`), the company
  upsert and the row lock (`Lock`), the upsert and everything derived from it
  (`Upsert`), the second Redis write (`Refresh`), `Commit`. READ COMMITTED: a
  draft is invisible until the commit.
- `SELECT ... FOR UPDATE` locks nothing while the row is absent; the `companies`
  upsert is the lock that is left, and passes that spell the company differently do not
  share it. That is what `CompanyName` is for.
- The identity map of a session does not refresh an instance it loaded before:
  `EvidenceClosed` keeps the `closed_at` of the first read if the occurrence is
  the same one.
- Deadlocks, failed statements and crashes are `Abort`: SQL rolls back, Redis
  does not.
- URLs are model links with an identity and a preference rank
  (`stable_posting_identity`, `_url_preference`). Titles, locations, details,
  evidence and the publication of events are left out.

- `Table` of `MCJobLifecycle` lists open and closed Simplify rows. An open row whose
  link has no identity is taken for the link the posting has already
  (`_candidate_identity`), which is why `ReopenedByIdentity` speaks of
  `CandidateIdentity`, and `RepostsAreNew` of dates and links where identities are missing.

**ApplicationAttempts.**
- A call (an MCP tool, a CLI command) is one session and one transaction.
  Nothing locks the row it reads, and the ORM updates the columns whose values
  changed: `Begin` reads and decides, `CommitCall` writes those columns over
  whatever is there by then. A missing attempt is inserted under
  `uq_application_attempts_job_id`; `ensure_application_attempt` reads again
  immediately before it, so its loser usually finds the row.
- A call that raises, or writes nothing, changes nothing and is left out.
- The agent has every tool of `mcp/server.py`, none of which resets; the
  operator's process has the commands of `cli.py`, `applications reset` among them, and
  any call of one may fall between the reading and the commit of the other.
- `raced` is a history variable: the applications a call wrote over whose row was
  no longer the one it had read.
- Of the stages, `form` stands for the four from the application form to the
  custom questions, which have the same rule.

**EvidenceQueue.**
- A transaction is one action, except where it waits between an unlocked
  reading and its lock: the backfill (`BackfillRead`, then one posting at a time)
  and `process()`, which loads the posting (`Load`) before `finish()` locks it.
  The identity map keeps the loaded attributes of the posting; only the check
  is read again (store.py:230-240).
- A target is the URL, location, title and company together; the facts of a
  page are a number, and the page may change while it is read.
- A closed observation moves the target and merges details whether the posting was
  open or closed before (`Close`).
- `retold` is a history variable: the postings that a closed observation named under
  another target than theirs or their check's since `finish()` last wrote their
  details (see *Evidence* under Disagreements).

**EvidenceCollection, Screening, AdvertisedFacts.** What regular expressions
recognise is the input: statements with a topic, a value and the wordings that
change their meaning (hedge, question, future). From there on the code is
followed: which documents are role documents, what a truncated page makes of
them, how statements of several documents are reconciled, how sources are
ranked, and how Python and SQL put a posting into a bucket.

**Ingestion, ReadmeTables.** A role is a base hash; a content hash is the place
a row states and whether it is closed. `ClassifyAll` runs over the rows in
the order of the files and carries Redis along; `Persisted` and `Reported` are
what SQL and the report make of the choice. In `ReadmeTables` a row is a
company cell, a shape (Markdown, HTML on one line, on several, never closed)
and its link; a patch marks each as kept, added, removed or edited.

**Streams, Admission, Throttle.** Lua scripts are atomic actions at Redis; a
call of one is executed at any moment before its deadline, and its reply may be
late or lost. Time is what remains of a lease, a sleep or a call. Tokens are
integers in units of one request.

**LiveEvents, JobPublication.** A listener handles one event at a time: a
snapshot of the sockets, all sends at once, then the eviction of those that
failed. A save queues its events in the session; the after-commit hook turns
them into tasks, the rollback hook forgets them.

**Polling, GitHubReads, Retrieval.** A poll is a transaction that lists the
newest commit and ingests it; the drain takes the locks of all targets in the
order of registration. A get holds the lock of its domain over its request and
its retries, and gives it back before it follows a redirect.

**OccurrenceMigration, Trackers, EmployerHistory, LocationReconciliation.** The
migration runs between releases that insert events, matches and deliveries of
their own; what a release observes is dated past every discovery recorded
before it (`Moment`). A run updates, closes or reopens a posting and reconciles its
location (`Hear`); a row refused as an ambiguous reopen is first given the location
of the posting (`Refuse`), also where the README pipeline had reconciled it once
already (`Offered`). `heard` is a history variable: the observations as they were weighed,
a refused row with the location it was given. A tracker's command may stop between any two steps, and an operator
may remove its lock file; files of a directory are read in order, imports come
in any order and repeatedly.

**Deployment.** `deploy.sh` step by step: every command that changes Docker,
nginx or a file of the state directory is a step that may fail (then the
`ERR` trap, `failure()`, runs in its place), be killed, or lose the machine.
After a reboot Docker restarts the containers that were not stopped.
`misled` is a history variable: it holds after a recovery has failed at the workers
(see below) and the handler took the journal away.

## Runs

Durations are scaled to a few ticks; what is kept is their order, which is what
the properties depend on.

| Run | Instance and bounds | Shows |
|---|---|---|
| `EmailQueue` | one alert, two workers, clock to 7, lease 2, give-up 4, provider memory 5, post 1 | `AtMostOnce`, `SamePayload`, `OneHolder`, `OutcomeKept` through crashes, time-outs, late and lost answers, edited postings and webhooks (also duplicated); `ImplementsMailbox` |
| `EmailRecaps` | two subscribers on the shared account, a recap and two alerts, one worker, clock to 3, 2 mails a day, 3 a month | `ChargedWithinLimits` with the reserve for recaps and quota pauses; `SentIsNotWrittenOff` while recaps fold alerts |
| `EmailAccounts` | two subscribers, three addresses, one shared place, one test delivery, connection versions to 3 | `SharedPlacesBound`, `ReadyIsTested`, `SuppressionIsDeserved` over every order of settings, connections, moves, tests and complaints |
| `RecapWindows` | one subscriber, two discoveries of two topics, two zones, batch size 1, clock to 3 with days of 2 | `RecapsAreApart`, `NothingMissed` over late commits, skipped cutoffs, merged recaps, zone and topic changes; under fairness `BacklogDrains` |
| `Records` | *lifecycle:* two passes that spell the company differently, over boards, feeds and closures, three in all; empty, legacy and backfilled databases | `RecordsAgree`, `HistoryIsFinal`, `ReopenedByIdentity`, `CacheFollowsSql` |
| | *attempts:* one posting that may be started three times, an agent with every tool, an operator who lists, looks up and resets | `AttemptsConsistent`, `OnlyResetRequeues` |
| | *evidence:* one posting, two workers, two targets, two events from outside, clock to 3 with lease 2 | `VerifiedStands`, `LandsOnCurrent` |
| `EvidenceProgress` | two postings, one worker, a backfill of one at a time, partial results, two events (closures, reposts, requests, new pages, crashes), clock to 2 with lease 2 | under fairness `ChecksProgress` |
| `Parts` | see `Parts.cfg`: pages of two statements, three observations, files of three rows, two requests at the buckets, four deployment commands, three editions of the README files, ... | fourteen promises (`LimitsAreKept` to `ReleasesSurvive`) |
| `Network` | two gets over two domains, two targets and two workers, two streams at the last place, two sockets or a feed | `GetsAreServed`, `PollsCatchUp`, `StreamsAreCounted`, `EventsReachClients` |
| `EvidenceStaleClose` | one posting, one worker | `LandsOnOpen`, refuted (see below) |
| `RefusedEvidence` | one file that lists one role once | `ClosureStands`, refuted (see below) |
| `LateReset` | one posting, one start | `SubmittedCannotBeReset`, refuted (see below) |
| `ImplicitMatch` | pages of two statements, the profiles and postings of `Parts` | `SupportIsExplicit`, refuted (see below) |

**Why the bounds are enough to be interesting.** The clock of `EmailQueue` runs
past the give-up time and the provider's memory of the first request, so a
retry that is too late can happen; two workers suffice for `OneHolder`, and the
theorems cover more. In `EmailRecaps` three deliveries compete for two daily
places. In `RecapWindows` two days and a zone whose cutoff lies half a day later
allow a window to be missed, merged and re-keyed. In `Records` three passes are a
discovery, a closure and a reopening or repost, two of them overlapping at every
step. A lease runs out before the horizon and a target returns to where it was; an
application is started over twice, so that a reset can meet each try. In
`EvidenceProgress` a lease lost in a crash runs out at the horizon, the backfill passes
the newer posting to reach the older, and two events let a posting close and be
reposted. In `Parts`, four commands are enough for a first
deployment, a second colour, a third release over the first one, and a
rollback or recovery after any of them failed; three rows are a company, its
continuation and a row between them; three observations a better, a newer and
an older one; a row of each kind of link and place lets a role move, close and
come back over three editions. In `Network` the stream lease is long enough for
two failed renewals and a third of it, and three commits leave one that a
restart could skip.

At its last value a clock stands still instead of stopping the system.
`Records`, `Parts` and `Network` set `CHECK_DEADLOCK FALSE`: their passes, inputs or
moments are numbered, and after the last one there is nothing to do.

Symmetry is used for the two workers of `Records`, which are told apart only by what
they hold, and nowhere else.

In `Records` the operator's reset may begin before and commit after
any call of the agent, a submission among them. `AttemptsConsistent` asks
everything of the applications no call has written over unread changes, and of the others what
the code still keeps: the count of starts, the mark of a submission, and a context
without traces of an earlier try. That a submission is never reset is refuted by
`LateReset`.

`VerdictsAreFounded` states the support a match has in the code: filings, and
sponsorship without timing, count where nothing else is said
(`FutureIsSupported`); `ImplicitMatch` holds that against the documented rules.
`PlaceIsBest` counts a refused reading as a statement of the location already
shown, which is how the code weighs it; what that does to the stored source is told
below.

## Fairness

`LiveSpec` of `DiscoveryMatching` assumes weak fairness of `MatchEvents` and of
`MakeRecaps`. The worker's tick is scheduled every 15 seconds (worker.py:491) and an
exception in one does not stop the next (scheduler.py:62), and both take what is due without choosing, so a batch that
stays due is eventually taken. Nothing is assumed of ingestion, of the users or
of the clock. `WindowsClose` holds although every new discovery postpones the
recaps, because the discoveries are finitely many in an instance; under an
endless stream of them the code could postpone a recap for ever.

`LiveSpec` of `EvidenceQueue` assumes that time goes on and that the loop of
each process does (`Work(p)`: claim, load, collect, finish, backfill); a crash
interrupts it and the service manager starts it again. Nothing is assumed of
ingestion and users.

In `MCNetwork`:
- a get in the event loop takes its next step (`RetrievalStep`): locks of asyncio are
  first come, first served, and every request has a timeout;
- a socket that neither takes nor refuses an event fails after five seconds
  (`SendFails`), and the listener goes on (`Broadcast`, `EndBroadcast`);
- the step of a stream that is enabled is taken, and time passes: `Tick` is
  strongly fair because it waits for steps that are due at once;
- a worker is started again, a due poll begins, lists and ends, the drain ends.
  That a poll is ingested is strongly fair: it is cut or fails again and again
  only if restarts and failures never stop, and these are bounded
  (`MaxEnds`), or if the source refuses for ever.

`EmailDelivery` claims nothing about progress: whether a mail is ever sent
depends on the provider.

## Theorems

`EmailDeliveryProofs` proves, for every set of users, workers, deliveries and
addresses, every limit and every schedule, with the assumptions of
`EmailDelivery` (`DurationAssumption`, `OwnerAssumption`, ...; TLC evaluates
them in each run):

| Theorem | Property | Further hypothesis |
|---|---|---|
| `TypeCorrect` | `TypeOK` (not checked by a run of its own) | |
| `RetriesRepeatPayload` | `SamePayload` | |
| `SentStaysOnRecord` | `SentIsNotWrittenOff` | |
| `OnlyBarredSuppressed` | `SuppressionIsDeserved` | |
| `NeverTwice` | `AtMostOnce` | `GiveUp + PostDelay <= Window` |
| `LeaseExcludes` | `OneHolder` | `PostDelay < LeaseTime`, `HoldTime < LeaseTime` |
| `OutcomesAreFinal` | `OutcomeKept` | as `LeaseExcludes` |
| `PlacesSuffice` | `SharedPlacesBound` | |
| `BudgetHolds` | `ChargedWithinLimits` | |
| `ConnectionsAreTested` | `ReadyIsTested` | |

The hypotheses are the code's own numbers: it gives up 23 hours after the first
attempt, the provider remembers a key for 24, a post takes seconds, a lease
lasts two minutes. `EmailQueue`, the run that checks these three properties and
the refinement, satisfies them.

**The argument.** None of the properties is inductive. `RetryInv` is: a row
that was ever attempted has a payload, has the account of its connection version,
and is never absent, expired or folded (`RowOK`); whatever the provider did under its key, it did with them,
no earlier than the first attempt (`SentOK`); and every request under way
carries them, left less than `GiveUp` after the first attempt and is at most
`PostDelay` old (`RequestOK`, `JobOK`). It yields the first three theorems at
once. For `NeverTwice`, a request that arrives does so less than
`GiveUp + PostDelay` after the first attempt, hence within `Window` of the
first message, with the same account: the provider remembers it. `HolderInv`
adds that the lease of a worker's row outlives the worker's claim (`LeaseOK`);
so a row that is claimable is held by no one. `OutcomeInv` relates
row, provider and webhook: only a recorded acceptance gives a row its e-mail
id, a row with an id is accepted or has an outcome, which no claim and no
cancellation touches, and by `HolderInv` no worker still holds it.

The proof of a step goes handler by handler: `ClaimEffect` says once what a
scan of `claim()` does (one row leased at most, the others settled), the
`...Type` and `...Kept` lemmas what each group of handlers preserves.

The other three need no timing. `PlacesSuffice`: only `put_settings()` gives a
place on the shared account, and only while `HasPlace`; every other step is `Mild`,
the users with a place stay a subset. `BudgetHolds`: a charge is a first attempt,
which `claim()` makes while the rolling day and month have room; later claims
leave `first` alone, and the account a row is charged to is that of its
connection version, which `RowOK` fixes. `ConnectionsAreTested`: the text of a
test row was rendered for the connection version of the row (`TextOK`) and an
acceptance a worker heard is one the provider sent (`AnswerOK`), so a record that makes a
connection ready names a test accepted at its version.

`EmailDeliveryProofs` also proves `DeliveryIsAMailbox`: `Spec => ImplementsMailbox`
under the three hypotheses together. A letter's variables are functions of its
row and the provider's record (`LetterView`); every step of a handler,
a worker, the network or the provider is, for each letter, one of `Keep`, `Write`,
`Drop`, `FirstTry`, `Post` and `Confirm`. That the copy has the fixed text is
`RetryInv`, that there is one is `NeverTwice`, that a confirmed letter has one
and is not dropped afterwards is `OutcomeInv`.

`DiscoveryMatchingProofs`, for every set of users, discoveries, topics, zones and
cutoffs, and any lags, batch size and day length:

| Theorem | Property |
|---|---|
| `ListedOnce` | `RecapsAreApart` |
| `NoneMissed` | `NothingMissed` |

`WindowEnds` says of the cutoffs that a window which is due always has an end,
no later than now and after its start. Hence a user's windows follow each other
(`WindowOK`), the recaps there are have keys up to the start of the open
window, and what is listed in them or folded was matched before it (`RowsOK`):
a new recap takes a later key and only matches from the start on. `CommitInv`
keeps, of each unprocessed event, that it is admitted only where the user wanted its topic at
its commit, and that it is older than the open window only where it is marked
`late` (`EventOK`); because `make_recaps()` waits until no event is unprocessed, a
window that closes has all its matches. A user who enrols starts a window at
that moment.

`JobLifecycleProofs`, for every set of links, identities and observations and any
number of overlapping passes:

| Theorem | Property |
|---|---|
| `OneStoryPerRole` | `RecordsAgree` |
| `HistoryStands` | `HistoryIsFinal` |
| `ClosuresStand` | `ReopenedByIdentity` |
| `CacheAgrees` | `CacheFollowsSql` |

All follow from `LifecycleInv`. The rows tell one story (`Story`), and so does each
draft (`PassOK`), which also extends the rows in the database as a transaction
may (`Grows`) and reopens by an identity only (`Founded`). What makes this
inductive is that a draft is always built on the rows that are still there when it commits: a pass that
has read a posting under the lock is its owner, and one that found none inserts or
merges under the unique index, after which it is the owner too. `CacheOK` says who may still
write to Redis before the hash is said to agree: a pass between its two writes,
or a refreshed one whose draft the hash already is.

`JobPublicationProofs`, about the component by itself (`PublicationSpec`; a run
explores it as one part of a sum): `CommitsAreTold` is `EventsTellCommits`, for any
sessions, postings and contents. `PublicationInv` says that transaction numbers are unique,
that sessions hold disjoint rows (`SessionsApart`), that a locked row has not
changed since it was read (`ReadStands`), that each row written was raced, is
unchanged or is told by a queued event (`WriteIsTold`), that what is announced was
committed and creations differ (`AnnouncedOK`), and that a session that waits for
its publications has them in order (`PatienceOK`).

`ClientsGetNoGaps`, there too (`LiveSpec`, for any sockets and feeds that are different
clients), is `NoGaps`, the safety part of `EventsReachClients`. What a client
has received is a run of consecutive events of the bus (`UpTo`): for a feed,
together with its own subscription, the last ones; for a socket the
last the listener has taken, without the present one while its send
is awaited (`SocketsCurrent`). A socket whose send failed is evicted before the next
event (`SocketsCounted`), and a listener that died does not come back, so no
later event is added to a run that ended.

`EvidenceQueueProofs`, for every set of postings, targets, pages and processes,
any lease that covers a collection (`TimeAssumption`), any width and limits:

| Theorem | Property | Further hypothesis |
|---|---|---|
| `QueueTyped` | `TypeOK` | |
| `FreshIsCurrent` | `ServedIsCurrent`, part of `VerifiedStands` | |
| `VerificationStands` | `VerifiedStands` | `PagesApart` |
| `CompletionsAreCurrent` | `LandsOnCurrent` | |

A claim draws its token from the number of attempts, so no two tasks have the
same one (`TasksDistinct`); while a task's token is the check's, the lease is the
one it was given (`TaskOK`), and a requeue clears the token. An ingestion that
leaves a token in place names the target of the check, so a result that would still land
(`Held`) belongs to the target of an open posting (`LoadedTarget`) and meets the
details it was loaded with (`LoadedDetails`), unless a closed observation named
another target (`retold`).

`PagesApart` says that no page states what a feed stated. Details carry quotes and
sources, so this takes a feed that quotes the page word for word, or found nothing
as the page did. Without it the property fails for a reason: `finish()` compares
the pages with the details loaded before its lock (store.py:337) and, if they are
equal, writes nothing, so what a feed merged in between stands as verified. The instances
satisfy it.

`EvidenceQueueProofs` also proves, about the components by themselves
(`CollectionSpec`, `RetrievalSpec`), for any pages, links, callers, domains, waits and limits:

| Theorem | Property | From the assumptions |
|---|---|---|
| `CollectionIsSound` | `CheckIsSound` | `PageAssumption`: pages embed postings and link documents of the kinds the code tells apart |
| `RetrievalIsPolite` | `Polite`, the safety part of `GetsAreServed` | `RetrievalAssumption` |

`CollectionInv` follows a collection from stage to stage: before the page is judged
there is the posting of the board's API or nothing (`BeforePage`), a page that
is judged was reached at an address of the role (`PageIsReviewed`), and the
documents are, in this order, that posting, the page and policies linked from it
(`InOrder`). `RetrievalInv` says that the sender to a domain is the one holder of its lock, and that
the domain's cooldown was over when it began (`SenderAlone`); a cooldown only
begins with an answer, so only after the one request there is.

`PartProofs`, about `Admission`, `Streams`, `Trackers` and `GitHubReads`, each by
itself (`AdmissionSpec` and so on), for any requests, clients, policies, streams,
addresses, commands, sites, readers and delays:

| Theorem | Property | From the assumptions |
|---|---|---|
| `GatesKeepLimits` | `LimitsAreKept` | costs, rates, bursts and capacity are positive |
| `StreamsKeepLimits` | `OpenWithinLimits` and `ShadowServes`, the safety part of `StreamsAreCounted` | `LeaseAssumption`: two intervals and three deadlines are less than a lease |
| `TrackersStaySound` | `HistoryIsSound` | at least one check is kept; "none" names no command |
| `ReadsStaySound` | `ReadsAreSound` | `GitHubReadsAssumption` |

For the buckets the invariant is that what has passed lately and the tokens left make
at most the burst (`LevelOK`). A moment takes the rate from the one and brings at most as much to the
other; a key that expires would have been full at that moment (`MomentFills`), so forgetting it is no
gain. Requests inside are a finite set whose size is `active` (`CountOK`). For the streams, `Held`
is the budget of a lease: after an acceptance it is short by at most a deadline, after a failed
renewal by an interval and a deadline more (`Behind`), and time takes as much
from a sleep or a deadline as from the lease. So an open stream always has a lease
(`OpenIsLeased`), and leases are counted when they are given out.

For trackers, whoever works holds the lock and, once it has loaded it, the document as
it is; a command that plans a baseline is alone with no document (`CommandOK`). A
check explains its jobs by those of the last check it was given (`CheckFollows`),
and a save only drops the oldest check, and only at the limit (`SaveExtends`), so the
chain goes on. An operator who removes a stale lock is safe because it is
removed only when no command is at work. For GitHub, the first answer to a
read settles its revision: what is asked next is asked of that one, whatever is
pushed (`AskingOK`), and the attempts so far are fewer than allowed and were each
followed by a pause that was due (`Due`, `PausesAreDue`).

`PartProofs` also proves of `ApplicationAttempts`, for every set of postings and sessions and
every assignment of tools to sessions (`JobAssumption`, `ToolAssumption`):

| Theorem | Property | Further hypothesis |
|---|---|---|
| `AttemptsTyped` | `AttemptsTypeOK` | |
| `RequeuedByReset` | `OnlyResetRequeues` | |
| `SerialAttemptsAgree` | what `AttemptsConsistent` says of applications that are not `raced` | |
| `AttemptsAgree` | `AttemptsConsistent` | `OneAgent` |

`OnlyResetRequeues` is about a commit, but what a commit writes was decided at
the call's reading, so the invariant `CallInv` keeps of each call under way that
its decision makes a row queued only if the row it read was queued, was absent,
or the call is a reset (`CallRequeues`, from `ResultRows` and `TableRows`). A
commit that makes a begun attempt queued changed the status itself; a call that
read an absent row keeps what has appeared since, which leaves the reset. This
holds with resets concurrent with the agent, too.

`SerialAttemptsAgree` takes any calls of any number of processes. `SerialInv` says
of an application not in `raced` that its row fits together and counts its
starts, and that every call under way decided on a row that fitted
(`Decided`). A commit either finds the row it read, and then writes what it decided
(`ColumnsOfSeen`), or writes nothing to it, or puts the application in `raced`.

`AttemptsAgree` is about all applications, those written over as well. `OneAgent`
says that one process at most takes applications further; the others list, look up,
answer and reset, at any moment. It is needed: two agents that start
one application at once count one start. Between the agent's reading and its
commit a row can only have been made, or gone back to the queue by a reset
(`Near`), and a reset can meet a row anywhere the agent has taken it; whichever
commits its columns last, no failure or question of another try shows,
and the count stands (`Sane`, `AgentInv`).

`PartProofs` proves of `Deployment` by itself (`DeploymentSpec`), for any numbers
of commands and releases and any outages: `ReleasesAlwaysSurvive` is `ReleasesSurvive`.
`DeploymentInv` says, for every line of the script at which a command can stand, fail,
be killed or be met by a reboot, what it has done and that the journal tells of it (`RunInv`),
which colour is active on disk (`ActiveInv`), that it and the one a
journal would return to are up with the release of their environment file (`ApiInv`), where nginx points and what it
serves (`ProxyInv`), that the standby runs or the journal knows how to bring it back
(`StandbyInv`), and whose workers run (`CrewInv`). The last two hold from step to
step because of what the handler and the recovery do in the right order:
other workers are stopped before any are started, and the journal goes last. After a recovery that
failed at the workers (`misled`, see below) the parts about
the proxy and the standby are given up, and only those.

`RecordProofs` and, for the last two, `ReadmeProofs` are about components of records by
themselves (`LocationsSpec` and so on), for any sources, places, payloads, companies, files,
years, postings, subscribers, workers, statements, profiles, hosts, rates, roles and rows:

| Theorem | Property | From the assumptions |
|---|---|---|
| `PlacesAreBest` | `PlaceIsBest` | each source has a tier |
| `ShownFactsAreBest` | `ShownIsBest` | `FeedAssumption`: observations have a source, a date and a finite list of lines; no source is both direct and a list |
| `FilingsAlwaysTrue` | `FilingsAreTrue` | `HistoryAssumption`: finitely many companies; cases are H-1B or not, certified or denied; a finite list of years |
| `MailSurvivesMigrations` | `MigrationKeeps` | `MigrationAssumption`: finitely many postings and subscribers at first; deliveries list postings |
| `InFlightPollsFinish` | `InFlightFinishes`, part of `PollsCatchUp` | `PollingAssumption` |
| `PollsIngestInOrder` | `IngestedInOrder`, part of `PollsCatchUp` | the same |
| `VerdictsAlwaysFounded` | `VerdictsAreFounded` | `ProfileAssumption`, `PayAssumption`, `PostingAssumption`, `KindAssumption`, `StatementAssumption`: the values the schemas allow |
| `RatesAlwaysHold` | `RateHolds` | `ThrottleAssumption`: whole, positive rates, capacities and limits |
| `RunsAlwaysFollowSql` | `RunsFollowSql` | `IngestionAssumption`: rows are of the roles, with a number for an identity; a run has a file |
| `TablesAlwaysRead` | `TablesAreRead` | `ReadmeAssumption`: rows have a company cell, a shape and a link or none, and a commit keeps, adds, removes or edits them |

Most are about loops, which the models write as folds. A fold over
a sequence is here a function on sets of indices (`FoldExists`); its
value over `1 .. k` is followed from `k` to `k + 1` by `SetInduction`, which rests on
the least element of a set of naturals (`LeastNatural`, from the library's
theorem that they are well-founded). With it:

- *Locations.* A batch comes to what its observations come to one by one (`RunSums`), and
  `LocationsInv` says the place shown `Sums` what was heard: the last word of the best source
  that told one, under its own hash; a refused row speaks for the place shown and
  leaves the rest of the sum (`RefuseKeeps`). Merging two that sum their parts sums the
  whole (`SumsBoth`), since `Better` is a total order (`BetterOrder`).
- *Facts.* Per topic, what is shown rests on sources of one rank, the best that
  spoke (`BestShown`), is the newest word while one source alone has spoken
  (`NewestShown`), and pay is the newest of a direct source (`PayShown`). All three
  are about the set of what was seen, so neither order nor repetition matters.
- *Filings.* `FlattenHolds` and `CountsAll` say what a concatenation of files and a count per year
  come to, `TallyCounts` that each case counts once; `MergedNewest` that merging a
  dataset leaves the newest filings. `EmployerInv` says that every import was sound when it
  was made and the filings shown are the newest of all imports (`FilingsNewest`).
- *Migration.* `MigrationInv` joins the keys of the schema the rows are in (`EventKeys`,
  `MatchKeys`, `OccurrenceKeys`, `Listings`), that in the older one nothing has an
  occurrence (`OlderRows`), and two facts a downgrade needs to choose
  the row it keeps: a posting has one discovery (`OneFirst`), dated
  before everything reposted since (`FirstsAreOlder`). The downgrade keeps the earliest
  match of a posting, and these make it the one there was before the upgrade.
- *Polling.* A repository has one poll at a time, whose commit is between the one ingested last
  and the head (`OnePoll`), so whatever ends late brings nothing older; what a
  drain still owes is at work behind the lock it waits for (`OwedIsAhead`).
- *Verdicts.* Facts folded document by document are what all their statements say
  together (`MergedAgreed`, `TogetherIsAgreed`), so neither the order of documents nor
  their number matters. Each requirement has the verdict in Python that its SQL
  expression has as truth value (`RestrictionsAgree`, `FutureAgrees`, `PayAgrees`, then
  `VerdictsAgree` and `BucketsAgree`); a match has nothing stated against it
  (`NothingAgainst`) and support for each requirement (`EachSupported`), and an
  exclusion has something stated (`SomethingSaid`).
- *Token buckets.* What a bucket gave since one of its grants, with what it has left, is at most
  its capacity and what the time since has earned (`Balanced`); a refill, which counts from the moment of the last
  one, keeps that (`RefillKeeps`). `Recency` says that the buckets kept are those of
  the hosts asked for last, in that order, each once: a host found moves to
  the end (`FoundKeeps`), one that is new pushes out the oldest (`MadeKeeps`).
- *Runs.* Whatever Redis holds, a run has an item for each role the
  files list, made of a row listed there (`RowTells`, `FileKeeps`, `AllKeeps`: a fold over rows
  within one over files), and goes by one of them (`ChosenIsListed`). What is written depends on the row and
  the posting only (`CacheDecidesNothing`), what is told is what was made
  (`ToldIsMade`), and a posting a run went by fits its row (`StoredFits`, `RolesFit`),
  which the next run leaves as it is (`FittingIsQuiet`).
- *Tables.* `TablesAreRead` follows from the types of the rows (`TypedIsRead`), but through four
  folds: git's diff, joining, parsing, choosing. Where no lines wait, a row is joined to one text
  of its own lines (`RowJoins`), and where lines were left open before it, it waits with them
  (`RowWaits`) and is parsed line by line (`LooseRead`). Of a full sync, `SyncedTo` says down to
  row k which rows were read, with which company, and the company that is inherited next.
  A commit is read as two sequences of lines, those written and those added since the last kept
  row: both leave nothing added waiting (`Keeps`, also removed rows that are never closed), the
  added ones carry the company from its row down to the row it names (`Carries`), and one of the
  two yields that row (`Yields`), which nothing read later takes back (`HasStaysJoined`). `Going`
  says all this down to row k, `CommitRow` is its step. `OnlyListed` is a matter of types: with S
  for the rows added or edited, every line, text and job that is added is of a row in S.

`FirstsAreOlder` failed in the model as it first was, where moments were counted by the
events in the table: a downgrade deletes events, so a repost could be
dated before a discovery and be taken for it by the next downgrade. The code's clock does not
go back with the rows; `Moment` is now past every discovery recorded in events
or matches.

The assumptions a proof needs of the constants are named in the modules. Those about
records (a source, a date, a kind from a fixed list) are the columns' types and the checks
of the readers; that postings, subscribers and companies are finite is that they are rows of tables; that `"nobody"` is no worker
and feeds are not sockets only keeps names of the models apart.

No run repeats `TypeOK` of `EmailDelivery`, which is proved; `AttemptsConsistent` and
`VerifiedStands` include that of their modules.

**Only model-checked.** Liveness (`BacklogDrains`, `ChecksProgress`, `PollsCatchUp`,
`GetsAreServed`, `EventsReachClients`, the liveness in `StreamsAreCounted`), which
is out of the prover's reach; the safety parts of the last four are proved. Every safety
invariant of the passing runs is stated by a theorem.

## Disagreements between code and text

Four are runs that TLC refutes; `findings` in `PROJECT.json` quotes the text.

- **EvidenceStaleClose.** `process()` loads the posting before `finish()` selects
  it `FOR UPDATE` without `populate_existing`, so a closure committed in between
  is locked but not seen, and the check completes on a closed posting.
- **RefusedEvidence.** An open row that is refused as ambiguous still has its
  identity recorded with the closed occurrence (repository.py:1085); the same
  file, read once more, is accepted by it and reopens the posting.
- **LateReset.** A reset that read the attempt before it was submitted commits over
  the submission (repository.py:785): the status is queued with `submitted_at` set,
  and the agent is offered the application again.
- **ImplicitMatch.** A profile that needs future sponsorship matches a posting whose
  pages promise none: recent filings of the employer are enough where the pages are
  silent (screening.py:129-140), and so is a page that offers sponsorship and
  says nothing of the future (screening.py:123-126).

Met while modelling, not stated by a run:

*Notifications.*
- `api.py:358`: `webhook()` asks the provider to retry a webhook it cannot place
  while a delivery is *sending*. After a lost response the row is *pending*
  again without an e-mail id, and a bounce that arrives before the retry is
  acknowledged and forgotten.
- `worker.py:114`: a discovery is dated by its observation (repository.py:1288).
  If its ingestion commits after the recap of that window, no recap lists it;
  `NothingMissed` allows exactly those.
- `worker.py:358`: a configuration error replaces `needs_test`, after which
  the untested connection is no longer held back (docs/notifications.md:180).
- `api.py:95`: suppression is cleared when the address changes, so an account
  that moves away and back mails a bounced address again
  (docs/notifications.md:222 leaves lifting it to an operator).
- `worker.py:240`: limits count first attempts; a retry on a later day is
  outside that day's count.

*Lifecycle, ingestion, publication.*
- `simplify_pipeline.py:196-206`: for a row whose link is a redirect, the stored
  posting's better link replaces it before the repost decision, so the row
  reopens a confirmed closure by the identity of the very posting
  (docs/notifications.md:130).
- `repository.py:968`: of two concurrent first inserts the second, possibly
  open and weaker, overwrites the closed flag of the first.
- `cli.py:249, 346, 391`: `SimplifyPipeline.persist_results` is called without
  a deduplicator, so Redis keeps the state projected before the SQL decision
  (docs/notifications.md:132-134 says it is refreshed); `_persist_results`
  (cli.py:255), which would pass one, has no caller.
- `cli.py:238-239`: `run-simplify --limit` above 1 processes commits newest first
  and later results override, so the oldest commit's row wins; the scheduler
  uses 1.
- Where the files list a role twice, the chosen row depends on what Redis took
  each for, so an open and a closed row of one role take turns; `RunsFollowSql`
  is about files that list a role once. Only a closed role that moved is
  reported as closed again.
- A bulk upsert that loses an insert race changes fields without an event
  (repository.py:1100), and only the evidence worker constructs a repository with a
  publisher (evidence/worker.py:56): postings the pipelines create are
  not announced live.
- A row whose link became a lock or "Closed" is rejected by the table parser, so
  the closure of a commit is seen only if the row keeps its link; a continuation
  after a kept line of a patch inherits the company of another row
  (markdown_parser.py:130).

- `repository.py:923`: a row refused as an ambiguous reopen is given the location of the
  closed posting and keeps its own source (repost_classifier.py:88-100). If that source is the stronger
  one, the posting stores it beside a location it never stated, and the source
  that did state it can no longer correct it (README.md:314).

*Applications.*
- `mark_verification_complete` on a failed attempt restarts it with stage
  `failed`, a pair that `update_application_checkpoint` calls inconsistent
  (repository.py:590); `start` also accepts an attempt paused for verification.
- Two concurrent calls that start one application both succeed and are counted
  once (`attempt_count += 1` on an unlocked reading, repository.py:687).
- `mark_failed` on a closed posting without an attempt creates one; the comment
  at repository.py:618 says it does not.
- AGENT_APPLICATION.md:64 tells the agent to call
  `application_mark_verification_required` again while the status is
  NEEDS_VERIFICATION; the matrix refuses it.

*Evidence.*
- `store.py:324`: a failed check is available again after an hour, but backfill
  (store.py:152-157) never looks at failed checks of postings that do not
  change, so only a request or a change makes it run
  (docs/pre-application-evidence.md:77).
- The backfill reads postings without a lock and may overwrite a newer target
  (the next tick repairs it).
- A closed observation that names another target merges its details over verified
  ones, also when the posting is closed already.
  After a reopening at the verified target they stay, and so they do when a
  check completes meanwhile: `finish()` compares the pages with the details
  loaded *before* the closure (store.py:337) and, finding them equal, writes
  nothing. `VerifiedStands` excepts such postings until their details are
  written again.
- The same comparison (store.py:337) lets a feed's details stand as verified that were
  merged after the load, if those before it were equal to what the pages state;
  `VerificationStands` assumes that they never are (`PagesApart`).
- `job_details.py:379-384`: a later statement of one source ends a conflict
  (docs/international-students-and-pay.md:25); markers of a README row are known by
  the names `simplify` and `github_markdown` (job_details.py:205, 212) while the
  pipeline emits `simplify_github` (simplify_pipeline.py:113, 233).
- `serve()` has no handler around `tick()`; the documents collected so far are
  lost when the renderer fails; and its pages have a `Fetcher` of their own, so one
  request per domain holds per process.

*Network, tools, deployment.*
- Settings admit timeouts up to 5 s with leases of 6 s and more, for which a
  stream may outlive its lease (leases.py:61); the deployed 0.25 s and 60 s do not.
  After a loss of Redis data, streams are uncounted until their next renewal.
- A listener that dies on a Redis error is not started again; a dropped socket
  whose close times out stays open, unregistered.
- A poll that was created but has not taken its lock when the drain passes it is cut
  (scheduler.py:104).
- A sleeping caller of an evicted bucket keeps it while a newcomer gets a full one
  when more than `max_domains` hosts are in use, and may be overtaken for ever; a
  Retry-After above five seconds is cut to five.
- A busy lock ends a tracker's `--watch`. A downgrade of 0006 drops pending
  repost events whose posting had a discovery.
- `deploy.sh:155`: a recovery whose workers or standby do not start enters
  `failure()` with the traffic restored, restores the workers a second time and
  removes the journal, while `active` still names the failed colour; the next
  deployment then replaces the container that serves
  (docs/blue-green-deployment.md:141 says the journal is kept). `ReleasesSurvive`
  excepts what follows.
- A kill between deploy.sh:256 and 257, then a recovery, leaves `previous` equal to
  `active`, which a rollback refuses; a kill between 230 and 231 at a colour's
  first use makes the recovery fail; a first deployment that fails after the
  switch leaves a journal without a previous colour, which the recovery refuses.

## What is not modelled

`components` in `PROJECT.json` lists every part with its reason. In short:

- formats and wordings: ATS payloads, cells of tables, the patterns that
  recognise a statement, pages and their DNS checks, posting dates, the layout
  of messages, the adapters of the providers, candidate answers;
- wiring and read-only queries: FastAPI routes, analytics, MCP listings, CLI
  output, authentication, the other migrations;
- the cache of public responses, the diagnostics of the limits, the parallel
  runner of one-off targets, browser portals (library code nothing uses);
- in the modelled parts: account erasure (`delete_account`), dry-run mode, the
  single-row save path for other SQL dialects, stored application answers,
  lock order between rows (PostgreSQL aborts one of two transactions, and the
  pass or tick is repeated), images, compatibility checks and downloads of a
  deployment.

## Plan

Done: the modules above, with proofs of what they keep safe. Next:

1. A posting as a sequence of open and closed occurrences, implemented by
   `JobLifecycle`; the composition of its discoveries with `DiscoveryMatching`.
2. Account erasure, the public cache, and the listener's Redis errors.
