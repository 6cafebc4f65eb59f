------------------------ MODULE EvidenceQueueProofs -------------------------
(***************************************************************************)
(* Theorems about EvidenceQueue, for any postings, targets, workers,       *)
(* durations and bounds.  A result that lands was claimed under the token  *)
(* the check still has; the invariant says what that excludes between the  *)
(* claim, the reading of the posting and the landing.                      *)
(***************************************************************************)
EXTENDS EvidenceQueue, EvidenceCollection, Retrieval, TLAPS

-----------------------------------------------------------------------------
(* The inductive invariant.                                                  *)

Typed ==
    /\ TypeOK
    /\ tasks \in [Process -> SUBSET TaskType]
    /\ scan \in [Process -> SUBSET (Job \X PostingType)]

\* a completed check was read for its target while it was leased
CheckOK(c) ==
    /\ c.token <= c.attempts
    /\ c.status = "complete" => /\ c.facts.target = c.target
                                /\ c.verified # Never
                                /\ c.verified < c.facts.at + LeaseTime

ChecksOK == \A k \in Key : CheckOK(check[k])

\* what a task knows, and the lease it has if its token is the check's
TaskOK(t) ==
    /\ t.since <= clock
    /\ t.token <= check[t.key].attempts
    /\ check[t.key].token = t.token => check[t.key].lease = t.since + LeaseTime
    /\ t.stage # "collecting" =>
         /\ t.result \in Results
         /\ t.result = "complete" => /\ t.facts.target = t.target
                                     /\ t.since <= t.facts.at
                                     /\ t.facts.facts \in Facts

TasksOK == \A p \in Process : \A t \in tasks[p] : TaskOK(t)

\* no two tasks drew one token
TasksDistinct == \A p, q \in Process : \A t \in tasks[p], u \in tasks[q] :
    t.key = u.key /\ t.token = u.token => p = q /\ t = u

\* occurrences that are still to come have no check
FutureUnchecked == \A k \in Key : k[2] > posting[k[1]].occ => check[k] = NoCheck

\* before its first verification a posting has details of feeds
UnverifiedFromFeeds == \A j \in Job :
    check[Latest(j)].verified = Never => posting[j].details \in Feed \cup {NoDetails}

\* a result that would land
Held(t) ==
    /\ t.stage = "loaded" /\ check[t.key].token = t.token
    /\ SameTarget(t)

\* while a result would land, its posting is open only for its target
LoadedTarget == \A p \in Process : \A t \in tasks[p] :
    Held(t) /\ ~posting[t.key[1]].closed => posting[t.key[1]].target = t.target

\* ... and keeps the details of pages it was loaded with
LoadedDetails == \A p \in Process : \A t \in tasks[p] :
    LET j == t.key[1] IN
    Held(t) /\ j \notin retold /\ t.seen.details \in Facts =>
        posting[j].target = t.target /\ posting[j].details = t.seen.details

DetailsFromFacts == \A j \in Job \ retold :
    check[Latest(j)].status = "complete" =>
        /\ posting[j].details = check[Latest(j)].facts.facts
        /\ ~posting[j].closed => posting[j].target = check[Latest(j)].target

QueueInv ==
    /\ Typed
    /\ ChecksOK
    /\ TasksOK
    /\ TasksDistinct
    /\ FutureUnchecked
    /\ LoadedTarget

DetailsInv ==
    /\ UnverifiedFromFeeds
    /\ LoadedDetails
    /\ DetailsFromFacts

\* what a page states no feed does
PagesApart == Facts \cap (Feed \cup {NoDetails}) = {}

-----------------------------------------------------------------------------
(* What the helpers return.                                                  *)

LEMMA Constants ==
    /\ Never \in Times /\ 0 \in Times /\ Never < 0
    /\ NoFacts \in FactsType /\ NoCheck \in CheckType
    /\ Fresh(1, FirstTarget, NoDetails) \in PostingType
    /\ \A n \in 0 .. Horizon : {n, n + LeaseTime, n + Hour} \subseteq Times
  BY QueueAssumption, TimeAssumption
     DEF Never, Times, NoFacts, NoCheck, FactsType, CheckType, DetailsType, NoDetails, NoToken,
         Fresh, PostingType

LEMMA RequeuedRow ==
    ASSUME Typed, NEW c \in CheckType, NEW aim \in Target, NEW print \in DetailsType
    PROVE  LET d == Requeued(c, aim, print) IN
           /\ d \in CheckType
           /\ d.status = "queued" /\ d.token = NoToken /\ d.target = aim
           /\ d.verified = c.verified /\ d.attempts = c.attempts
  <1>1. clock \in Times /\ Never \in Times
    BY Constants DEF Typed, TypeOK
  <1> QED BY <1>1 DEF Requeued, CheckType, NoToken

LEMMA EnqueuedRow ==
    ASSUME Typed, NEW k \in Key, NEW seen \in PostingType, NEW print \in DetailsType,
           NEW refresh
    PROVE  LET d == Enqueued(k, seen, print, refresh) IN
           \/ d = check[k] /\ check[k].target = seen.target /\ check[k].status # "none"
           \/ d = Requeued(check[k], seen.target, print)
  BY DEF Enqueued, Wanted

\* a check is put back in the queue or left alone
Untaken(k) ==
    \/ check'[k] = check[k]
    \/ \E aim \in Target, print \in DetailsType :
         check'[k] = Requeued(check[k], aim, print)

LEMMA UntakenRow ==
    ASSUME Typed, NEW k \in Key, Untaken(k)
    PROVE  /\ check'[k] \in CheckType
           /\ check'[k].verified = check[k].verified /\ check'[k].attempts = check[k].attempts
           /\ \/ check'[k] = check[k]
              \/ check'[k].status = "queued" /\ check'[k].token = NoToken
  <1>1. check[k] \in CheckType
    BY DEF Typed, TypeOK
  <1> QED BY <1>1, RequeuedRow DEF Untaken

\* what such a step leaves true
LEMMA UntakenKept ==
    ASSUME QueueInv, \A k \in Key : Untaken(k), tasks' = tasks,
           clock' \in Int, clock <= clock'
    PROVE  ChecksOK' /\ TasksOK' /\ TasksDistinct'
  <1> USE DEF QueueInv
  <1>1. ChecksOK'
    <2> SUFFICES ASSUME NEW k \in Key PROVE CheckOK(check'[k])
      BY DEF ChecksOK, CheckOK
    <2>1. CheckOK(check[k])
      BY DEF ChecksOK
    <2>2. check[k].attempts \in Nat
      BY DEF Typed, TypeOK, CheckType
    <2> QED BY <2>1, <2>2, UntakenRow DEF CheckOK, NoToken
  <1>2. TasksOK'
    <2> SUFFICES ASSUME NEW p \in Process, NEW t \in tasks[p] PROVE TaskOK(t)'
      BY DEF TasksOK
    <2>1. TaskOK(t) /\ t \in TaskType
      BY DEF TasksOK, Typed
    <2>2. t.key \in Key /\ t.token # NoToken
      BY <2>1 DEF TaskType
    <2>3. clock \in Int /\ t.since \in Int
      BY <2>1, TimeAssumption DEF Typed, TypeOK, TaskType, Times, Never
    <2> QED BY <2>1, <2>2, <2>3, UntakenRow DEF TaskOK
  <1>3. TasksDistinct'
    BY DEF TasksDistinct
  <1> QED BY <1>1, <1>2, <1>3

\* a token that is still a task's shows that nobody touched the check
LEMMA TokenKept ==
    ASSUME Typed, NEW t \in TaskType, Untaken(t.key), check'[t.key].token = t.token
    PROVE  check'[t.key] = check[t.key]
  BY UntakenRow DEF TaskType

LEMMA Rows ==
    ASSUME Typed
    PROVE  /\ \A j \in Job : Latest(j) \in Key /\ posting[j] \in PostingType
           /\ \A k \in Key : check[k] \in CheckType /\ k[1] \in Job /\ k = <<k[1], k[2]>>
           /\ \A p \in Process : \A t \in tasks[p] : t \in TaskType /\ t.key \in Key
           /\ clock \in 0 .. Horizon
  <1>1. \A j \in Job : posting[j] \in PostingType
    BY DEF Typed, TypeOK
  <1>2. \A j \in Job : Latest(j) \in Key
    BY <1>1 DEF Latest, Key, PostingType
  <1>3. \A k \in Key : check[k] \in CheckType /\ k[1] \in Job /\ k = <<k[1], k[2]>>
    BY DEF Typed, TypeOK, Key
  <1>4. \A p \in Process : \A t \in tasks[p] : t \in TaskType /\ t.key \in Key
    BY DEF Typed, TaskType
  <1> QED BY <1>1, <1>2, <1>3, <1>4 DEF Typed, TypeOK

-----------------------------------------------------------------------------
(* Ingestion, users and the pages: one lemma per action.                     *)

LEMMA InitHolds == Init => QueueInv /\ DetailsInv
  <1> SUFFICES ASSUME Init PROVE QueueInv /\ DetailsInv
    OBVIOUS
  <1> USE DEF Init
  <1>1. Typed
    <2>1. clock \in 0 .. Horizon /\ observed \in 0 .. MaxObserved /\ turn \in [Process -> 0 .. Width]
      BY QueueAssumption
    <2>2. posting \in [Job -> PostingType]
      BY Constants
    <2>3. check \in [Key -> CheckType] /\ \A k \in Key : check[k].status = "running" <=> check[k].token # NoToken
      BY Constants DEF NoCheck
    <2>4. page \in [Job -> Facts]
      OBVIOUS
    <2> QED BY <2>1, <2>2, <2>3, <2>4 DEF Typed, TypeOK
  <1>2. \A k \in Key : check[k] = NoCheck
    OBVIOUS
  <1>3. ChecksOK
    BY <1>2 DEF ChecksOK, CheckOK, NoCheck, NoToken
  <1>4. \A p \in Process : tasks[p] = {}
    OBVIOUS
  <1>5. TasksOK /\ TasksDistinct /\ LoadedTarget /\ LoadedDetails /\ FutureUnchecked
    BY <1>2, <1>4 DEF TasksOK, TasksDistinct, LoadedTarget, LoadedDetails, FutureUnchecked
  <1>6. \A j \in Job : Latest(j) \in Key
    BY <1>1, Rows
  <1>7. UnverifiedFromFeeds
    BY DEF UnverifiedFromFeeds, Fresh
  <1>8. DetailsFromFacts
    BY <1>2, <1>6 DEF DetailsFromFacts, NoCheck
  <1> QED BY <1>1, <1>3, <1>5, <1>7, <1>8 DEF QueueInv, DetailsInv

\* what an observation does to the check of the latest occurrence
LEMMA ObservedRow ==
    ASSUME QueueInv, NEW j \in Job, NEW aim \in Target, NEW feed \in Feed,
           NEW details \in Merged(j, Latest(j), aim, feed),
           check' = [check EXCEPT ![Latest(j)] =
                Enqueued(Latest(j), [posting[j] EXCEPT !.target = aim, !.closed = FALSE,
                                                       !.details = details], feed, FALSE)]
    PROVE  /\ details \in DetailsType
           /\ \A k \in Key : Untaken(k)
           /\ \A k \in Key : k # Latest(j) => check'[k] = check[k]
           /\ check'[Latest(j)].target = aim
  <1>1. posting[j] \in PostingType /\ Latest(j) \in Key /\ check[Latest(j)] \in CheckType
    BY Rows DEF QueueInv
  <1>2. details \in DetailsType /\ feed \in DetailsType
    BY <1>1 DEF Merged, PostingType, DetailsType
  <1> DEFINE row == [posting[j] EXCEPT !.target = aim, !.closed = FALSE, !.details = details]
  <1>3. row \in PostingType /\ row.target = aim
    BY <1>1, <1>2 DEF PostingType
  <1>4. check'[Latest(j)] = Enqueued(Latest(j), row, feed, FALSE)
    BY <1>1 DEF QueueInv, Typed, TypeOK
  <1>5. \A k \in Key : k # Latest(j) => check'[k] = check[k]
    BY <1>1 DEF QueueInv, Typed, TypeOK
  <1> HIDE DEF row
  <1>6. \/ check'[Latest(j)] = check[Latest(j)] /\ check[Latest(j)].target = aim
        \/ check'[Latest(j)] = Requeued(check[Latest(j)], aim, feed)
    BY <1>1, <1>2, <1>3, <1>4, EnqueuedRow DEF QueueInv
  <1>7. Untaken(Latest(j))
    BY <1>2, <1>6 DEF Untaken
  <1>8. check'[Latest(j)].target = aim
    <2>1. Requeued(check[Latest(j)], aim, feed).target = aim
      BY <1>1, <1>2, RequeuedRow DEF QueueInv
    <2> QED BY <1>6, <2>1
  <1> QED BY <1>2, <1>5, <1>7, <1>8 DEF Untaken

\* types after such a step
LEMMA UntakenTyped ==
    ASSUME Typed, \A k \in Key : Untaken(k), check' \in [Key -> CheckType],
           posting' \in [Job -> PostingType], page' \in [Job -> Facts],
           turn' \in [Process -> 0 .. Width], scan' \in [Process -> SUBSET (Job \X PostingType)],
           retold' \subseteq Job, observed' \in 0 .. MaxObserved, clock' = clock, tasks' = tasks
    PROVE  Typed'
  <1>1. \A k \in Key : check'[k].status = "running" <=> check'[k].token # NoToken
    BY UntakenRow DEF Typed, TypeOK
  <1> QED BY <1>1 DEF Typed, TypeOK

LEMMA ObserveKeeps ==
    ASSUME QueueInv, NEW j \in Job, NEW aim \in Target, NEW feed \in Feed,
           Observe(j, aim, feed)
    PROVE  QueueInv' /\ (DetailsInv /\ PagesApart => DetailsInv')
  <1>1. PICK details \in Merged(j, Latest(j), aim, feed) :
           LET row == [posting[j] EXCEPT !.target = aim, !.closed = FALSE, !.details = details]
           IN  /\ External
               /\ posting' = [posting EXCEPT ![j] = row]
               /\ check' = [check EXCEPT ![Latest(j)] = Enqueued(Latest(j), row, feed, FALSE)]
               /\ UNCHANGED <<page, retold>>
    BY DEF Observe
  <1>2. /\ details \in DetailsType
        /\ \A k \in Key : Untaken(k)
        /\ \A k \in Key : k # Latest(j) => check'[k] = check[k]
        /\ check'[Latest(j)].target = aim
    BY <1>1, ObservedRow
  <1>3. Typed
    BY DEF QueueInv
  <1>4. /\ posting[j] \in PostingType /\ posting \in [Job -> PostingType]
        /\ check \in [Key -> CheckType]
    BY <1>3 DEF Typed, TypeOK
  <1>5. /\ posting' \in [Job -> PostingType]
        /\ \A i \in Job : posting'[i].occ = posting[i].occ /\ (i # j => posting'[i] = posting[i])
        /\ posting'[j].target = aim /\ posting'[j].details = details
        /\ retold' = retold /\ clock' = clock /\ tasks' = tasks
    BY <1>1, <1>2, <1>4 DEF PostingType, External
  <1>6. \A i \in Job : Latest(i)' = Latest(i)
    BY <1>5 DEF Latest
  <1>7. check' \in [Key -> CheckType]
    BY <1>1, <1>2, <1>3, <1>4, UntakenRow
  <1>8. Typed'
    <2>1. /\ page' \in [Job -> Facts] /\ turn' \in [Process -> 0 .. Width]
          /\ scan' \in [Process -> SUBSET (Job \X PostingType)]
          /\ retold' \subseteq Job
      BY <1>1, <1>3 DEF External, Typed, TypeOK
    <2>2. observed' \in 0 .. MaxObserved
      BY <1>1, <1>3, QueueAssumption DEF External, Typed, TypeOK
    <2> QED BY <1>2, <1>3, <1>5, <1>7, <2>1, <2>2, UntakenTyped
  <1>9. ChecksOK' /\ TasksOK' /\ TasksDistinct'
    <2>1. clock' \in Int /\ clock <= clock'
      BY <1>3, <1>5 DEF Typed, TypeOK
    <2> QED BY <1>2, <1>5, <2>1, UntakenKept
  <1>10. FutureUnchecked'
    <2> SUFFICES ASSUME NEW k \in Key, k[2] > posting'[k[1]].occ PROVE check'[k] = NoCheck
      BY DEF FutureUnchecked
    <2>1. k[1] \in Job /\ k[2] > posting[k[1]].occ
      BY <1>5 DEF Key
    <2>2. k # Latest(j)
      BY <2>1, <1>4 DEF Latest, PostingType
    <2> QED BY <1>2, <2>1, <2>2 DEF QueueInv, FutureUnchecked
  <1>11. ASSUME NEW p \in Process, NEW t \in tasks[p], Held(t)'
         PROVE  /\ t \in TaskType /\ t.key \in Key /\ t.key[1] \in Job
                /\ Held(t) /\ check'[t.key] = check[t.key]
                /\ t.key[1] = j => t.key = Latest(j) /\ check[Latest(j)].target = aim
                                   /\ t.target = aim
    <2>1. t \in TaskType /\ t.key \in Key /\ t.key[1] \in Job
      BY <1>3, Rows
    <2>2. check'[t.key] = check[t.key]
      BY <1>2, <1>3, <1>11, <2>1, TokenKept DEF Held
    <2>3. Held(t)
      BY <1>5, <1>11, <2>1, <2>2 DEF Held, SameTarget
    <2>4. t.key[1] = j => t.key = Latest(j)
      <3>1. t.key = <<t.key[1], t.key[2]>>
        BY <1>3, <2>1, Rows
      <3>2. t.key[2] = posting[t.key[1]].occ
        BY <2>3 DEF Held, SameTarget
      <3> QED BY <3>1, <3>2 DEF Latest
    <2> QED BY <1>2, <2>1, <2>2, <2>3, <2>4 DEF Held, SameTarget
  <1>12. LoadedTarget'
    <2> SUFFICES ASSUME NEW p \in Process, NEW t \in tasks[p], Held(t)',
                        ~posting'[t.key[1]].closed
                 PROVE  posting'[t.key[1]].target = t.target
      BY <1>5 DEF LoadedTarget
    <2>1. CASE t.key[1] = j
      BY <1>5, <1>11, <2>1
    <2>2. CASE t.key[1] # j
      BY <1>5, <1>11, <2>2 DEF QueueInv, LoadedTarget
    <2> QED BY <2>1, <2>2
  <1>13. QueueInv'
    BY <1>8, <1>9, <1>10, <1>12 DEF QueueInv
  <1>14. ASSUME DetailsInv, PagesApart PROVE DetailsInv'
    <2>1. UnverifiedFromFeeds'
      <3> SUFFICES ASSUME NEW i \in Job, check'[Latest(i)].verified = Never
                   PROVE  posting'[i].details \in Feed \cup {NoDetails}
        BY <1>6 DEF UnverifiedFromFeeds
      <3>1. check[Latest(i)].verified = Never
        BY <1>2, <1>3, UntakenRow, Rows
      <3>2. posting[i].details \in Feed \cup {NoDetails}
        BY <1>14, <3>1 DEF DetailsInv, UnverifiedFromFeeds
      <3> QED BY <1>1, <1>5, <3>2 DEF Merged
    <2>2. LoadedDetails'
      <3> SUFFICES ASSUME NEW p \in Process, NEW t \in tasks[p], Held(t)',
                          t.key[1] \notin retold, t.seen.details \in Facts
                   PROVE  /\ posting'[t.key[1]].target = t.target
                          /\ posting'[t.key[1]].details = t.seen.details
        BY <1>5 DEF LoadedDetails
      <3>1. posting[t.key[1]].target = t.target /\ posting[t.key[1]].details = t.seen.details
        BY <1>11, <1>14 DEF DetailsInv, LoadedDetails
      <3>2. CASE t.key[1] = j
        <4>1. check[Latest(j)].verified # Never
          BY <1>14, <3>1, <3>2 DEF PagesApart, DetailsInv, UnverifiedFromFeeds
        <4>2. Verified(check[Latest(j)], aim)
          BY <1>11, <3>2, <4>1 DEF Verified
        <4> QED BY <1>5, <1>11, <3>1, <3>2, <4>2 DEF Merged
      <3>3. CASE t.key[1] # j
        BY <1>5, <1>11, <3>1, <3>3
      <3> QED BY <3>2, <3>3
    <2>3. DetailsFromFacts'
      <3> SUFFICES ASSUME NEW i \in Job \ retold, check'[Latest(i)].status = "complete"
                   PROVE  /\ posting'[i].details = check'[Latest(i)].facts.facts
                          /\ ~posting'[i].closed => posting'[i].target = check'[Latest(i)].target
        BY <1>5, <1>6 DEF DetailsFromFacts
      <3>1. Latest(i) \in Key
        BY <1>3, Rows
      <3>2. check'[Latest(i)] = check[Latest(i)]
        BY <1>2, <1>3, <3>1, UntakenRow
      <3>3. /\ posting[i].details = check[Latest(i)].facts.facts
            /\ ~posting[i].closed => posting[i].target = check[Latest(i)].target
        BY <1>14, <3>2 DEF DetailsInv, DetailsFromFacts
      <3>4. CASE i = j
        <4>1. check[Latest(j)].verified # Never
          BY <3>1, <3>2, <3>4 DEF QueueInv, ChecksOK, CheckOK
        <4>2. Verified(check[Latest(j)], aim)
          BY <1>2, <3>2, <3>4, <4>1 DEF Verified
        <4> QED BY <1>2, <1>5, <3>2, <3>3, <3>4, <4>2 DEF Merged
      <3>5. CASE i # j
        BY <1>5, <3>2, <3>3, <3>5
      <3> QED BY <3>4, <3>5
    <2> QED BY <2>1, <2>2, <2>3 DEF DetailsInv
  <1> QED BY <1>13, <1>14

LEMMA EnqueuedUntaken ==
    ASSUME Typed, NEW k \in Key, NEW seen \in PostingType, NEW print \in DetailsType,
           NEW refresh, check'[k] = Enqueued(k, seen, print, refresh)
    PROVE  Untaken(k)
  <1>1. seen.target \in Target
    BY DEF PostingType
  <1> QED BY <1>1, EnqueuedRow DEF Untaken

\* steps that leave postings and tasks alone
LEMMA PostingsKept ==
    ASSUME QueueInv, \A k \in Key : Untaken(k), tasks' = tasks, posting' = posting,
           retold' = retold, clock' \in Int, clock <= clock', Typed',
           \A k \in Key : k[2] > posting[k[1]].occ => check'[k] = check[k]
    PROVE  QueueInv' /\ (DetailsInv => DetailsInv')
  <1>1. Typed
    BY DEF QueueInv
  <1>2. ChecksOK' /\ TasksOK' /\ TasksDistinct'
    BY UntakenKept
  <1>3. FutureUnchecked'
    BY DEF FutureUnchecked, QueueInv
  <1>4. \A j \in Job : Latest(j) \in Key /\ Latest(j)' = Latest(j)
    BY <1>1, Rows DEF Latest
  <1>5. ASSUME NEW p \in Process, NEW t \in tasks[p], Held(t)' PROVE Held(t)
    <2>1. t \in TaskType /\ t.key \in Key
      BY <1>1, Rows
    <2>2. check'[t.key] = check[t.key]
      BY <1>1, <1>5, <2>1, TokenKept DEF Held
    <2> QED BY <1>5, <2>2 DEF Held, SameTarget
  <1>6. LoadedTarget'
    BY <1>5 DEF LoadedTarget, QueueInv
  <1>7. ASSUME DetailsInv PROVE DetailsInv'
    <2>1. UnverifiedFromFeeds'
      BY <1>1, <1>4, <1>7, UntakenRow DEF DetailsInv, UnverifiedFromFeeds
    <2>2. LoadedDetails'
      BY <1>5, <1>7 DEF DetailsInv, LoadedDetails
    <2>3. DetailsFromFacts'
      BY <1>1, <1>4, <1>7, UntakenRow DEF DetailsInv, DetailsFromFacts
    <2> QED BY <2>1, <2>2, <2>3 DEF DetailsInv
  <1> QED BY <1>2, <1>3, <1>6, <1>7 DEF QueueInv

LEMMA CloseKeeps ==
    ASSUME QueueInv, NEW j \in Job, NEW aim \in Target, NEW feed \in Feed,
           Close(j, aim, feed)
    PROVE  QueueInv' /\ (DetailsInv /\ PagesApart => DetailsInv')
  <1>1. PICK details \in Merged(j, Latest(j), aim, feed) :
           /\ External
           /\ posting' = [posting EXCEPT ![j].closed = TRUE, ![j].target = aim,
                                         ![j].details = details]
           /\ retold' = IF aim = posting[j].target /\ aim = check[Latest(j)].target
                         THEN retold ELSE retold \cup {j}
           /\ UNCHANGED <<check, page>>
    BY DEF Close
  <1>2. Typed
    BY DEF QueueInv
  <1>3. posting[j] \in PostingType /\ posting \in [Job -> PostingType] /\ Latest(j) \in Key
    BY <1>2, Rows DEF Typed, TypeOK
  <1>4. details \in DetailsType
    BY <1>1, <1>3 DEF Merged, PostingType, DetailsType
  <1>5. /\ posting' \in [Job -> PostingType]
        /\ \A i \in Job : posting'[i].occ = posting[i].occ /\ (i # j => posting'[i] = posting[i])
        /\ posting'[j].target = aim /\ posting'[j].details = details /\ posting'[j].closed
        /\ check' = check /\ clock' = clock /\ tasks' = tasks
    BY <1>1, <1>3, <1>4 DEF PostingType, External
  <1>6. \A i \in Job : Latest(i)' = Latest(i)
    BY <1>5 DEF Latest
  <1>7. /\ retold' \subseteq Job /\ retold \subseteq retold'
        /\ j \notin retold' => aim = posting[j].target /\ aim = check[Latest(j)].target
    BY <1>1, <1>2 DEF Typed, TypeOK
  <1>8. Typed'
    <2>1. /\ page' \in [Job -> Facts] /\ turn' \in [Process -> 0 .. Width]
          /\ scan' \in [Process -> SUBSET (Job \X PostingType)]
          /\ check' \in [Key -> CheckType]
      BY <1>1, <1>2, <1>5 DEF External, Typed, TypeOK
    <2>2. observed' \in 0 .. MaxObserved
      BY <1>1, <1>2, QueueAssumption DEF External, Typed, TypeOK
    <2> QED BY <1>2, <1>5, <1>7, <2>1, <2>2, UntakenTyped DEF Untaken
  <1>9. ChecksOK' /\ TasksOK' /\ TasksDistinct'
    BY <1>5 DEF QueueInv, ChecksOK, TasksOK, TaskOK, TasksDistinct
  <1>10. FutureUnchecked'
    BY <1>2, <1>5, Rows DEF QueueInv, FutureUnchecked
  <1>11. ASSUME NEW p \in Process, NEW t \in tasks[p], Held(t)'
         PROVE  /\ Held(t) /\ t.key[1] \in Job
                /\ t.key[1] = j => t.key = Latest(j) /\ check[Latest(j)].target = t.target
    <2>1. t.key[1] \in Job /\ t.key = <<t.key[1], t.key[2]>>
      BY <1>2, Rows
    <2>2. Held(t)
      BY <1>5, <1>11, <2>1 DEF Held, SameTarget
    <2>3. t.key[2] = posting[t.key[1]].occ /\ t.target = check[t.key].target
      BY <2>2 DEF Held, SameTarget
    <2> QED BY <2>1, <2>2, <2>3 DEF Latest
  <1>12. LoadedTarget'
    <2> SUFFICES ASSUME NEW p \in Process, NEW t \in tasks[p], Held(t)',
                        ~posting'[t.key[1]].closed
                 PROVE  posting'[t.key[1]].target = t.target
      BY <1>5 DEF LoadedTarget
    <2> QED BY <1>5, <1>11 DEF QueueInv, LoadedTarget
  <1>13. ASSUME DetailsInv, PagesApart PROVE DetailsInv'
    <2>1. UnverifiedFromFeeds'
      BY <1>1, <1>5, <1>6, <1>13 DEF Merged, DetailsInv, UnverifiedFromFeeds
    <2>2. LoadedDetails'
      <3> SUFFICES ASSUME NEW p \in Process, NEW t \in tasks[p], Held(t)',
                          t.key[1] \notin retold', t.seen.details \in Facts
                   PROVE  /\ posting'[t.key[1]].target = t.target
                          /\ posting'[t.key[1]].details = t.seen.details
        BY <1>5 DEF LoadedDetails
      <3>1. posting[t.key[1]].target = t.target /\ posting[t.key[1]].details = t.seen.details
        BY <1>7, <1>11, <1>13 DEF DetailsInv, LoadedDetails
      <3>2. CASE t.key[1] = j
        <4>1. check[Latest(j)].verified # Never
          BY <1>13, <3>1, <3>2 DEF PagesApart, DetailsInv, UnverifiedFromFeeds
        <4>2. aim = t.target
          BY <1>7, <3>1, <3>2
        <4>3. Verified(check[Latest(j)], aim)
          BY <1>11, <3>2, <4>1, <4>2 DEF Verified
        <4> QED BY <1>1, <1>5, <3>1, <3>2, <4>2, <4>3 DEF Merged
      <3>3. CASE t.key[1] # j
        BY <1>5, <1>11, <3>1, <3>3
      <3> QED BY <3>2, <3>3
    <2>3. DetailsFromFacts'
      <3> SUFFICES ASSUME NEW i \in Job \ retold', check[Latest(i)].status = "complete"
                   PROVE  /\ posting'[i].details = check[Latest(i)].facts.facts
                          /\ ~posting'[i].closed => posting'[i].target = check[Latest(i)].target
        BY <1>5, <1>6 DEF DetailsFromFacts
      <3>1. Latest(i) \in Key
        BY <1>2, Rows
      <3>2. /\ posting[i].details = check[Latest(i)].facts.facts
            /\ ~posting[i].closed => posting[i].target = check[Latest(i)].target
        BY <1>7, <1>13 DEF DetailsInv, DetailsFromFacts
      <3>3. CASE i = j
        <4>1. check[Latest(j)].verified # Never
          BY <3>1, <3>3 DEF QueueInv, ChecksOK, CheckOK
        <4>2. Verified(check[Latest(j)], aim)
          BY <1>1, <1>7, <3>2, <3>3, <4>1 DEF Verified
        <4> QED BY <1>1, <1>5, <3>2, <3>3, <4>2 DEF Merged
      <3>4. CASE i # j
        BY <1>5, <3>2, <3>4
      <3> QED BY <3>3, <3>4
    <2> QED BY <2>1, <2>2, <2>3 DEF DetailsInv
  <1> QED BY <1>8, <1>9, <1>10, <1>12, <1>13 DEF QueueInv

LEMMA RepostKeeps ==
    ASSUME QueueInv, NEW j \in Job, NEW aim \in Target, NEW feed \in Feed,
           Repost(j, aim, feed)
    PROVE  QueueInv' /\ (DetailsInv => DetailsInv')
  <1> DEFINE k == <<j, posting[j].occ + 1>>
             row == Fresh(posting[j].occ + 1, aim, feed)
  <1>1. Typed
    BY DEF QueueInv
  <1>2. posting[j] \in PostingType /\ posting \in [Job -> PostingType] /\ check \in [Key -> CheckType]
    BY <1>1 DEF Typed, TypeOK
  <1>3. k \in Key /\ row \in PostingType /\ feed \in DetailsType /\ row.target = aim
    BY <1>2, QueueAssumption DEF Repost, Fresh, PostingType, Key, DetailsType
  <1>4. /\ posting' = [posting EXCEPT ![j] = row]
        /\ check' = [check EXCEPT ![k] = Enqueued(k, row, feed, FALSE)]
        /\ External /\ UNCHANGED <<page, retold>>
    BY DEF Repost, Fresh
  <1>5. /\ posting' \in [Job -> PostingType]
        /\ \A i \in Job : i # j => posting'[i] = posting[i]
        /\ posting'[j].occ = k[2] /\ posting'[j].target = aim /\ posting'[j].details = feed
        /\ retold' = retold /\ clock' = clock /\ tasks' = tasks
    BY <1>2, <1>3, <1>4 DEF Fresh, External
  <1>6. check[k] = NoCheck
    BY <1>2, <1>3 DEF QueueInv, FutureUnchecked, PostingType
  <1>7. check'[k] = Requeued(NoCheck, aim, feed) /\ \A l \in Key : l # k => check'[l] = check[l]
    BY <1>2, <1>3, <1>4, <1>6 DEF Enqueued, NoCheck
  <1>8. \A l \in Key : Untaken(l)
    BY <1>3, <1>6, <1>7 DEF Untaken
  <1> HIDE DEF k, row
  <1>9. check'[k].status = "queued" /\ check' \in [Key -> CheckType]
    <2>1. check'[k].status = "queued"
      BY <1>1, <1>3, <1>7, Constants, RequeuedRow
    <2>2. \A l \in Key : check'[l] \in CheckType
      BY <1>1, <1>8, UntakenRow
    <2> QED BY <1>2, <1>4, <2>1, <2>2
  <1>10. Typed'
    <2>1. /\ page' \in [Job -> Facts] /\ turn' \in [Process -> 0 .. Width]
          /\ scan' \in [Process -> SUBSET (Job \X PostingType)]
          /\ retold' \subseteq Job
      BY <1>1, <1>4 DEF External, Typed, TypeOK
    <2>2. observed' \in 0 .. MaxObserved
      BY <1>1, <1>4, QueueAssumption DEF External, Typed, TypeOK
    <2> QED BY <1>1, <1>5, <1>8, <1>9, <2>1, <2>2, UntakenTyped
  <1>11. ChecksOK' /\ TasksOK' /\ TasksDistinct'
    <2>1. clock' \in Int /\ clock <= clock'
      BY <1>1, <1>5 DEF Typed, TypeOK
    <2> QED BY <1>5, <1>8, <2>1, UntakenKept
  <1>12. Latest(j)' = k /\ \A i \in Job : i # j => Latest(i)' = Latest(i)
    BY <1>5 DEF Latest, k
  <1>13. FutureUnchecked'
    <2> SUFFICES ASSUME NEW l \in Key, l[2] > posting'[l[1]].occ PROVE check'[l] = NoCheck
      BY DEF FutureUnchecked
    <2>1. l[1] \in Job /\ l[2] \in Int
      BY QueueAssumption DEF Key
    <2>2. l[2] > posting[l[1]].occ /\ l # k
      BY <1>2, <1>5, <2>1 DEF PostingType, k
    <2> QED BY <1>7, <2>2 DEF QueueInv, FutureUnchecked
  <1>14. ASSUME NEW p \in Process, NEW t \in tasks[p], Held(t)'
         PROVE  Held(t) /\ t.key[1] \in Job /\ t.key[1] # j
    <2>1. t \in TaskType /\ t.key \in Key /\ t.key = <<t.key[1], t.key[2]>> /\ t.key[1] \in Job
      BY <1>1, Rows
    <2>2. t.key # k
      <3>1. t.token \in Nat \ {0} /\ t.token <= check[t.key].attempts
        BY <2>1 DEF QueueInv, TasksOK, TaskOK, TaskType, NoToken
      <3> QED BY <1>6, <3>1 DEF NoCheck
    <2>3. t.key[2] = posting'[t.key[1]].occ
      BY <1>14 DEF Held, SameTarget
    <2>4. t.key[1] # j
      BY <1>3, <1>5, <2>1, <2>2, <2>3 DEF k
    <2> QED BY <1>5, <1>7, <1>14, <2>1, <2>2, <2>4 DEF Held, SameTarget
  <1>15. LoadedTarget'
    BY <1>5, <1>14 DEF QueueInv, LoadedTarget
  <1>16. ASSUME DetailsInv PROVE DetailsInv'
    <2>1. UnverifiedFromFeeds'
      BY <1>1, <1>5, <1>8, <1>12, <1>16, Rows, UntakenRow DEF DetailsInv, UnverifiedFromFeeds
    <2>2. LoadedDetails'
      BY <1>5, <1>14, <1>16 DEF DetailsInv, LoadedDetails
    <2>3. DetailsFromFacts'
      <3> SUFFICES ASSUME NEW i \in Job \ retold, check'[Latest(i)'].status = "complete"
                   PROVE  /\ posting'[i].details = check'[Latest(i)'].facts.facts
                          /\ ~posting'[i].closed => posting'[i].target = check'[Latest(i)'].target
        BY <1>5 DEF DetailsFromFacts
      <3>1. i # j /\ Latest(i)' = Latest(i) /\ posting'[i] = posting[i]
        BY <1>5, <1>9, <1>12
      <3>2. Latest(i) \in Key /\ check'[Latest(i)] = check[Latest(i)]
        BY <1>1, <1>8, <3>1, Rows, UntakenRow
      <3> QED BY <1>16, <3>1, <3>2 DEF DetailsInv, DetailsFromFacts
    <2> QED BY <2>1, <2>2, <2>3 DEF DetailsInv
  <1> QED BY <1>10, <1>11, <1>13, <1>15, <1>16 DEF QueueInv

LEMMA RequestKeeps ==
    ASSUME QueueInv, NEW j \in Job, RequestCheck(j)
    PROVE  QueueInv' /\ (DetailsInv => DetailsInv')
  <1>1. Typed
    BY DEF QueueInv
  <1>2. Latest(j) \in Key /\ posting[j] \in PostingType /\ check[Latest(j)].print \in DetailsType
    BY <1>1, Rows DEF CheckType
  <1>3. /\ check' = [check EXCEPT ![Latest(j)] = Enqueued(Latest(j), posting[j], check[Latest(j)].print, TRUE)]
        /\ External /\ UNCHANGED <<posting, page, retold>>
    BY DEF RequestCheck
  <1>4. \A k \in Key : Untaken(k)
    BY <1>1, <1>2, <1>3, EnqueuedUntaken DEF Typed, TypeOK, Untaken
  <1>5. \A k \in Key : k[2] > posting[k[1]].occ => check'[k] = check[k]
    <2> SUFFICES ASSUME NEW k \in Key, k[2] > posting[k[1]].occ PROVE k # Latest(j)
      BY <1>1, <1>2, <1>3 DEF Typed, TypeOK
    <2> QED BY <1>2 DEF Latest, PostingType
  <1>6. check' \in [Key -> CheckType] /\ observed' \in 0 .. MaxObserved
    <2>1. \A k \in Key : check'[k] \in CheckType
      BY <1>1, <1>4, UntakenRow
    <2>2. observed' \in 0 .. MaxObserved
      BY <1>1, <1>3, QueueAssumption DEF External, Typed, TypeOK
    <2> QED BY <1>1, <1>3, <2>1, <2>2 DEF Typed, TypeOK
  <1>7. Typed'
    BY <1>1, <1>3, <1>4, <1>6, UntakenTyped DEF External, Typed, TypeOK
  <1>8. /\ tasks' = tasks /\ posting' = posting /\ retold' = retold
        /\ clock' \in Int /\ clock <= clock'
    BY <1>1, <1>3 DEF External, Typed, TypeOK
  <1> QED BY <1>4, <1>5, <1>7, <1>8, PostingsKept

LEMMA PageKeeps ==
    ASSUME QueueInv, NEW j \in Job, PageChanges(j)
    PROVE  QueueInv' /\ (DetailsInv => DetailsInv')
  <1>1. Typed
    BY DEF QueueInv
  <1>2. \A k \in Key : Untaken(k) /\ check'[k] = check[k]
    BY DEF PageChanges, Untaken
  <1>3. observed' \in 0 .. MaxObserved
    BY <1>1, QueueAssumption DEF PageChanges, External, Typed, TypeOK
  <1>4. Typed'
    BY <1>1, <1>2, <1>3, UntakenTyped DEF PageChanges, External, Typed, TypeOK
  <1> QED BY <1>1, <1>2, <1>4, PostingsKept DEF PageChanges, External, Typed, TypeOK

-----------------------------------------------------------------------------
(* The worker and the clock.                                                 *)

LEMMA BackfillKeeps ==
    ASSUME QueueInv, NEW p \in Process, BackfillWrite(p)
    PROVE  QueueInv' /\ (DetailsInv => DetailsInv')
  <1>1. Typed
    BY DEF QueueInv
  <1> DEFINE due(k) == \E s \in scan[p] : k = Latest(s[1]) /\ ~posting[s[1]].closed
             read(k) == CHOOSE s \in scan[p] : k = Latest(s[1])
  <1>2. \A k \in Key : check'[k] = IF due(k) THEN Enqueued(k, read(k)[2], check[k].print, FALSE)
                                             ELSE check[k]
    BY DEF BackfillWrite
  <1>3. ASSUME NEW k \in Key, due(k)
        PROVE  /\ read(k) \in Job \X PostingType /\ k = Latest(read(k)[1])
               /\ k[2] = posting[k[1]].occ
    <2>1. read(k) \in scan[p] /\ k = Latest(read(k)[1])
      BY <1>3
    <2>2. read(k) \in Job \X PostingType
      BY <1>1, <2>1 DEF Typed
    <2> HIDE DEF read
    <2> QED BY <2>1, <2>2 DEF Latest
  <1>4. \A k \in Key : Untaken(k)
    <2> SUFFICES ASSUME NEW k \in Key, due(k) PROVE Untaken(k)
      BY <1>2 DEF Untaken
    <2>1. read(k)[2] \in PostingType /\ check[k].print \in DetailsType
      BY <1>1, <1>3, Rows DEF CheckType
    <2>2. check'[k] = Enqueued(k, read(k)[2], check[k].print, FALSE)
      BY <1>2
    <2> HIDE DEF read, due
    <2> QED BY <1>1, <2>1, <2>2, EnqueuedUntaken
  <1>5. \A k \in Key : k[2] > posting[k[1]].occ => check'[k] = check[k]
    <2> SUFFICES ASSUME NEW k \in Key, k[2] > posting[k[1]].occ PROVE ~due(k)
      BY <1>2
    <2>1. k[1] \in Job /\ posting[k[1]] \in PostingType
      BY <1>1, Rows
    <2> HIDE DEF due
    <2> QED BY <1>3, <2>1 DEF PostingType
  <1>6. check' \in [Key -> CheckType] /\ turn' \in [Process -> 0 .. Width]
        /\ scan' \in [Process -> SUBSET (Job \X PostingType)]
    <2>1. \A k \in Key : check'[k] \in CheckType
      BY <1>1, <1>4, UntakenRow
    <2>2. check' = [k \in Key |-> check'[k]]
      BY DEF BackfillWrite
    <2>3. turn' \in [Process -> 0 .. Width]
      BY <1>1, QueueAssumption DEF BackfillWrite, Typed, TypeOK
    <2>4. scan' \in [Process -> SUBSET (Job \X PostingType)]
      BY <1>1 DEF BackfillWrite, Typed
    <2> QED BY <2>1, <2>2, <2>3, <2>4
  <1>7. Typed'
    BY <1>1, <1>4, <1>6, UntakenTyped DEF BackfillWrite, Typed, TypeOK
  <1>8. /\ tasks' = tasks /\ posting' = posting /\ retold' = retold
        /\ clock' \in Int /\ clock <= clock'
    BY <1>1 DEF BackfillWrite, Typed, TypeOK
  <1> HIDE DEF due, read
  <1> QED BY <1>4, <1>5, <1>7, <1>8, PostingsKept

\* steps that touch no check
LEMMA QuietKeeps ==
    ASSUME QueueInv, NEW p \in Process,
           BackfillRead(p) \/ BackfillNothing(p) \/ ClaimNothing(p) \/ Tick
    PROVE  QueueInv' /\ (DetailsInv => DetailsInv')
  <1>1. Typed
    BY DEF QueueInv
  <1>2. \A k \in Key : Untaken(k) /\ check'[k] = check[k]
    BY DEF BackfillRead, BackfillNothing, ClaimNothing, Tick, Untaken
  <1>3. tasks' = tasks /\ posting' = posting /\ retold' = retold /\ check' = check /\ page' = page
        /\ observed' = observed
    BY DEF BackfillRead, BackfillNothing, ClaimNothing, Tick
  <1>4. clock' \in 0 .. Horizon /\ clock' \in Int /\ clock <= clock'
    BY <1>1, QueueAssumption DEF BackfillRead, BackfillNothing, ClaimNothing, Tick, Typed, TypeOK
  <1>5. turn' \in [Process -> 0 .. Width]
    BY <1>1, QueueAssumption DEF BackfillRead, BackfillNothing, ClaimNothing, Tick, Typed, TypeOK
  <1>6. scan' \in [Process -> SUBSET (Job \X PostingType)]
    <2>1. CASE BackfillRead(p)
      <3>1. {<<j, posting[j]>> : j \in Selected} \in SUBSET (Job \X PostingType)
        <4> SUFFICES ASSUME NEW j \in Selected PROVE <<j, posting[j]>> \in Job \X PostingType
          OBVIOUS
        <4>1. j \in Job
          BY DEF Selected
        <4> QED BY <1>1, <4>1, Rows
      <3> QED BY <1>1, <2>1, <3>1 DEF BackfillRead, Typed
    <2>2. CASE ~BackfillRead(p)
      BY <1>1, <2>2 DEF BackfillNothing, ClaimNothing, Tick, Typed
    <2> QED BY <2>1, <2>2
  <1>7. Typed'
    BY <1>1, <1>3, <1>4, <1>5, <1>6 DEF Typed, TypeOK
  <1> QED BY <1>2, <1>3, <1>4, <1>7, PostingsKept

LEMMA CrashKeeps ==
    ASSUME QueueInv, NEW p \in Process, Crash(p)
    PROVE  QueueInv' /\ (DetailsInv => DetailsInv')
  <1>1. Typed
    BY DEF QueueInv
  <1>2. /\ check' = check /\ posting' = posting /\ retold' = retold /\ clock' = clock
        /\ tasks' \in [Process -> SUBSET TaskType]
        /\ \A q \in Process : tasks'[q] \subseteq tasks[q]
    BY <1>1 DEF Crash, Typed
  <1>3. observed' \in 0 .. MaxObserved /\ turn' \in [Process -> 0 .. Width]
        /\ scan' \in [Process -> SUBSET (Job \X PostingType)] /\ page' = page
    BY <1>1, QueueAssumption DEF Crash, Typed, TypeOK
  <1>4. Typed'
    BY <1>1, <1>2, <1>3 DEF Typed, TypeOK
  <1>5. \A j \in Job : Latest(j)' = Latest(j)
    BY <1>2 DEF Latest
  <1>6. ChecksOK' /\ TasksOK' /\ TasksDistinct' /\ FutureUnchecked'
    BY <1>2 DEF QueueInv, ChecksOK, TasksOK, TaskOK, TasksDistinct, FutureUnchecked
  <1>7. \A t : Held(t)' = Held(t)
    BY <1>2 DEF Held, SameTarget
  <1>8. LoadedTarget'
    BY <1>2, <1>7 DEF QueueInv, LoadedTarget
  <1>9. ASSUME DetailsInv PROVE DetailsInv'
    BY <1>2, <1>5, <1>7, <1>9
       DEF DetailsInv, UnverifiedFromFeeds, LoadedDetails, DetailsFromFacts
  <1> QED BY <1>4, <1>6, <1>8, <1>9 DEF QueueInv

LEMMA ClaimKeeps ==
    ASSUME QueueInv, NEW p \in Process, Claim(p)
    PROVE  QueueInv' /\ (DetailsInv => DetailsInv')
  <1>1. Typed
    BY DEF QueueInv
  <1> DEFINE token(k) == check[k].attempts + 1
             task(k) == [key |-> k, token |-> token(k), target |-> check[k].target, since |-> clock,
                         stage |-> "collecting", result |-> "none", facts |-> NoFacts,
                         seen |-> Fresh(1, FirstTarget, NoDetails)]
             row(k) == [check[k] EXCEPT !.status = "running", !.token = token(k),
                                        !.lease = clock + LeaseTime, !.attempts = token(k)]
  <1>2. PICK k \in Key :
           /\ check' = [check EXCEPT ![k] = row(k)] /\ check[k].status # "none"
           /\ tasks' = [tasks EXCEPT ![p] = @ \cup {task(k)}]
           /\ turn[p] > 0 /\ turn' = [turn EXCEPT ![p] = @ - 1]
           /\ UNCHANGED <<clock, posting, page, scan, retold, observed>>
    <2>1. PICK k \in {l \in Key : Claimable(check[l])} :
             /\ turn[p] > 0
             /\ check' = [check EXCEPT ![k].status = "running", ![k].token = token(k),
                                       ![k].lease = clock + LeaseTime, ![k].attempts = token(k)]
             /\ tasks' = [tasks EXCEPT ![p] = @ \cup {task(k)}]
             /\ turn' = [turn EXCEPT ![p] = @ - 1]
             /\ UNCHANGED <<clock, posting, page, scan, retold, observed>>
      BY DEF Claim
    <2>2. check' = [check EXCEPT ![k] = row(k)]
      BY <1>1, <2>1 DEF Typed, TypeOK
    <2>3. check[k].status # "none"
      BY DEF Claimable
    <2> QED BY <2>1, <2>2, <2>3
  <1>3. check[k] \in CheckType /\ check \in [Key -> CheckType]
    BY <1>1 DEF Typed, TypeOK
  <1>4. token(k) \in Nat \ {0} /\ clock \in Times /\ clock + LeaseTime \in Times /\ clock \in Int
    BY <1>1, <1>3, Constants DEF CheckType, Times, Typed, TypeOK
  <1>5. task(k) \in TaskType
    BY <1>3, <1>4, Constants DEF TaskType, CheckType, NoToken
  <1>6. row(k) \in CheckType /\ row(k).status = "running" /\ row(k).token = token(k)
        /\ row(k).attempts = token(k) /\ row(k).verified = check[k].verified
        /\ row(k).lease = clock + LeaseTime
    BY <1>3, <1>4 DEF CheckType
  <1>7. /\ task(k).key = k /\ task(k).token = token(k) /\ task(k).since = clock
        /\ task(k).stage = "collecting"
    OBVIOUS
  <1> HIDE DEF row, task, token
  <1>8. check'[k] = row(k) /\ \A l \in Key : l # k => check'[l] = check[l]
    BY <1>2, <1>3
  <1>9. /\ tasks'[p] = tasks[p] \cup {task(k)}
        /\ \A q \in Process : q # p => tasks'[q] = tasks[q]
        /\ \A q \in Process : \A t \in tasks'[q] : t \in tasks[q] \/ (q = p /\ t = task(k))
    BY <1>1, <1>2 DEF Typed
  <1>10. Typed'
    <2>1. check' \in [Key -> CheckType]
      BY <1>2, <1>3, <1>6
    <2>2. \A l \in Key : check'[l].status = "running" <=> check'[l].token # NoToken
      BY <1>1, <1>4, <1>6, <1>8 DEF Typed, TypeOK, NoToken
    <2>3. turn' \in [Process -> 0 .. Width]
      BY <1>1, <1>2, QueueAssumption DEF Typed, TypeOK
    <2>4. tasks' \in [Process -> SUBSET TaskType]
      BY <1>1, <1>2, <1>5, <1>9 DEF Typed
    <2> QED BY <1>1, <1>2, <2>1, <2>2, <2>3, <2>4 DEF Typed, TypeOK
  <1>11. ChecksOK'
    <2> SUFFICES ASSUME NEW l \in Key PROVE CheckOK(check'[l])
      BY DEF ChecksOK, CheckOK
    <2>1. CASE l = k
      BY <1>4, <1>6, <1>8, <2>1 DEF CheckOK
    <2>2. CASE l # k
      BY <1>8, <2>2 DEF QueueInv, ChecksOK
    <2> QED BY <2>1, <2>2
  \* what the other tasks hold is not this token
  <1>12. ASSUME NEW q \in Process, NEW t \in tasks[q]
         PROVE  /\ TaskOK(t) /\ t \in TaskType /\ t.key \in Key
                /\ t.key = k => t.token < token(k)
    <2>1. TaskOK(t) /\ t \in TaskType /\ t.key \in Key
      BY <1>1, Rows DEF QueueInv, TasksOK
    <2>2. t.key = k => t.token <= check[k].attempts /\ t.token \in Nat
      BY <2>1 DEF TaskOK, TaskType
    <2> QED BY <1>3, <2>1, <2>2 DEF CheckType, token
  <1>13. TasksOK'
    <2> SUFFICES ASSUME NEW q \in Process, NEW t \in tasks'[q] PROVE TaskOK(t)'
      BY DEF TasksOK
    <2>1. CASE t \in tasks[q]
      <3>1. CASE t.key = k
        <4>1. t.token < token(k) /\ t.token \in Nat
          BY <1>12, <2>1, <3>1 DEF TaskType
        <4> QED BY <1>2, <1>4, <1>6, <1>8, <1>12, <2>1, <3>1, <4>1 DEF TaskOK
      <3>2. CASE t.key # k
        BY <1>2, <1>8, <1>12, <2>1, <3>2 DEF TaskOK
      <3> QED BY <3>1, <3>2
    <2>2. CASE t = task(k)
      BY <1>2, <1>4, <1>6, <1>7, <1>8, <2>2 DEF TaskOK
    <2> QED BY <1>9, <2>1, <2>2
  <1>14. TasksDistinct'
    <2> SUFFICES ASSUME NEW q \in Process, NEW r \in Process, NEW t \in tasks'[q],
                        NEW u \in tasks'[r], t.key = u.key, t.token = u.token
                 PROVE  q = r /\ t = u
      BY DEF TasksDistinct
    <2>1. CASE t \in tasks[q] /\ u \in tasks[r]
      BY <2>1 DEF QueueInv, TasksDistinct
    <2>2. \A v \in {t, u} : \A o \in {q, r} : v \in tasks[o] /\ v.key = k => v.token # token(k)
      BY <1>4, <1>12 DEF TaskType
    <2> QED BY <1>7, <1>9, <2>1, <2>2
  <1>15. FutureUnchecked'
    <2> SUFFICES ASSUME NEW l \in Key, l[2] > posting[l[1]].occ PROVE check'[l] = NoCheck
      BY <1>2 DEF FutureUnchecked
    <2>1. check[l] = NoCheck
      BY DEF QueueInv, FutureUnchecked
    <2> QED BY <1>2, <1>8, <2>1 DEF NoCheck
  <1>16. ASSUME NEW q \in Process, NEW t \in tasks'[q], Held(t)' PROVE t \in tasks[q] /\ Held(t)
    <2>1. t \in tasks[q]
      BY <1>7, <1>9, <1>16 DEF Held
    <2>2. t.key # k
      BY <1>4, <1>6, <1>8, <1>12, <1>16, <2>1 DEF Held, TaskType
    <2> QED BY <1>2, <1>8, <1>12, <1>16, <2>1, <2>2 DEF Held, SameTarget
  <1>17. LoadedTarget'
    BY <1>2, <1>16 DEF QueueInv, LoadedTarget
  <1>18. \A j \in Job : Latest(j)' = Latest(j) /\ Latest(j) \in Key
    BY <1>1, <1>2, Rows DEF Latest
  <1>19. ASSUME DetailsInv PROVE DetailsInv'
    <2>1. UnverifiedFromFeeds'
      BY <1>2, <1>6, <1>8, <1>18, <1>19 DEF DetailsInv, UnverifiedFromFeeds
    <2>2. LoadedDetails'
      BY <1>2, <1>16, <1>19 DEF DetailsInv, LoadedDetails
    <2>3. DetailsFromFacts'
      BY <1>2, <1>6, <1>8, <1>18, <1>19 DEF DetailsInv, DetailsFromFacts
    <2> QED BY <2>1, <2>2, <2>3 DEF DetailsInv
  <1> QED BY <1>10, <1>11, <1>13, <1>14, <1>15, <1>17, <1>19 DEF QueueInv

\* a task moves on without touching the check
LEMMA MovedKeeps ==
    ASSUME QueueInv, NEW p \in Process, NEW t \in tasks[p], NEW u \in TaskType,
           Moved(p, t, u), u.key = t.key, u.token = t.token, TaskOK(u),
           Held(u) => /\ posting[u.key[1]].target = u.target
                      /\ posting[u.key[1]].details = u.seen.details,
           UNCHANGED <<clock, posting, page, check, turn, scan, retold, observed>>
    PROVE  QueueInv' /\ (DetailsInv => DetailsInv')
  <1>1. Typed
    BY DEF QueueInv
  <1>2. /\ tasks' \in [Process -> SUBSET TaskType]
        /\ \A q \in Process : \A v \in tasks'[q] : v \in tasks[q] \/ (q = p /\ v = u)
        /\ \A q \in Process : q # p => tasks'[q] = tasks[q]
        /\ tasks'[p] = (tasks[p] \ {t}) \cup {u}
    BY <1>1 DEF Moved, Typed
  <1>3. Typed'
    BY <1>1, <1>2 DEF Typed, TypeOK
  <1>4. ChecksOK' /\ FutureUnchecked'
    BY DEF QueueInv, ChecksOK, FutureUnchecked
  <1>5. TasksOK'
    BY <1>2 DEF QueueInv, TasksOK, TaskOK
  <1>6. TasksDistinct'
    <2> SUFFICES ASSUME NEW q \in Process, NEW r \in Process, NEW v \in tasks'[q],
                        NEW w \in tasks'[r], v.key = w.key, v.token = w.token
                 PROVE  q = r /\ v = w
      BY DEF TasksDistinct
    <2>1. CASE v \in tasks[q] /\ w \in tasks[r]
      BY <2>1 DEF QueueInv, TasksDistinct
    <2>2. CASE v \notin tasks[q] /\ w \notin tasks[r]
      BY <1>2, <2>2
    <2>3. CASE v \notin tasks[q] /\ w \in tasks[r]
      <3>1. q = p /\ v = u
        BY <1>2, <2>3
      <3>2. r = p /\ w = t
        BY <2>3, <3>1 DEF QueueInv, TasksDistinct
      <3> QED BY <1>2, <3>1, <3>2
    <2>4. CASE v \in tasks[q] /\ w \notin tasks[r]
      <3>1. r = p /\ w = u
        BY <1>2, <2>4
      <3>2. q = p /\ v = t
        BY <2>4, <3>1 DEF QueueInv, TasksDistinct
      <3> QED BY <1>2, <3>1, <3>2
    <2> QED BY <2>1, <2>2, <2>3, <2>4
  <1>7. \A v : Held(v)' = Held(v)
    BY DEF Held, SameTarget
  <1>8. LoadedTarget'
    BY <1>2, <1>7 DEF QueueInv, LoadedTarget
  <1>9. \A j \in Job : Latest(j)' = Latest(j)
    BY DEF Latest
  <1>10. ASSUME DetailsInv PROVE DetailsInv'
    <2>1. UnverifiedFromFeeds' /\ DetailsFromFacts'
      BY <1>9, <1>10 DEF DetailsInv, UnverifiedFromFeeds, DetailsFromFacts
    <2>2. LoadedDetails'
      BY <1>2, <1>7, <1>10 DEF DetailsInv, LoadedDetails
    <2> QED BY <2>1, <2>2 DEF DetailsInv
  <1> QED BY <1>3, <1>4, <1>5, <1>6, <1>8, <1>10 DEF QueueInv

LEMMA CollectKeeps ==
    ASSUME QueueInv, NEW p \in Process, NEW t \in tasks[p], Collect(p, t)
    PROVE  QueueInv' /\ (DetailsInv => DetailsInv')
  <1>1. Typed
    BY DEF QueueInv
  <1>2. t \in TaskType /\ t.key \in Key /\ t.key[1] \in Job /\ TaskOK(t)
    BY <1>1, Rows DEF QueueInv, TasksOK
  <1> DEFINE found(result) ==
               IF result \in {"complete", "partial"}
                 THEN [target |-> t.target, facts |-> page[t.key[1]], at |-> clock] ELSE NoFacts
             next(result) == [t EXCEPT !.stage = "collected", !.result = result,
                                       !.facts = found(result)]
  <1>3. PICK result \in Results : Moved(p, t, next(result))
    BY DEF Collect
  <1>4. page[t.key[1]] \in Facts /\ clock \in Times /\ clock \in Int
    BY <1>1, <1>2, Constants DEF Typed, TypeOK
  <1>5. found(result) \in FactsType
    BY <1>2, <1>4, Constants DEF FactsType, TaskType
  <1>6. result = "complete" => /\ found(result).target = t.target /\ found(result).at = clock
                               /\ found(result).facts \in Facts
    BY <1>4
  <1> HIDE DEF found
  <1>7. /\ next(result) \in TaskType
        /\ next(result).stage = "collected" /\ next(result).result = result
        /\ next(result).facts = found(result) /\ next(result).key = t.key
        /\ next(result).token = t.token /\ next(result).target = t.target
        /\ next(result).since = t.since
    BY <1>2, <1>5 DEF TaskType
  <1> HIDE DEF next
  <1>8. TaskOK(next(result))
    BY <1>2, <1>6, <1>7 DEF TaskOK
  <1>9. ~Held(next(result))
    BY <1>7 DEF Held
  <1> QED BY <1>3, <1>7, <1>8, <1>9, MovedKeeps DEF Collect

LEMMA LoadKeeps ==
    ASSUME QueueInv, NEW p \in Process, NEW t \in tasks[p], Load(p, t)
    PROVE  QueueInv' /\ (DetailsInv => DetailsInv')
  <1>1. t \in TaskType /\ t.key[1] \in Job /\ TaskOK(t) /\ posting[t.key[1]] \in PostingType
    BY Rows DEF QueueInv, TasksOK
  <1> DEFINE next == [t EXCEPT !.stage = "loaded", !.seen = posting[t.key[1]]]
  <1>2. /\ next \in TaskType /\ next.seen = posting[t.key[1]]
        /\ next.key = t.key /\ next.token = t.token /\ next.target = t.target
        /\ next.since = t.since /\ next.result = t.result /\ next.facts = t.facts
    BY <1>1 DEF TaskType
  <1>3. Moved(p, t, next) /\ t.stage = "collected"
    BY DEF Load
  <1> HIDE DEF next
  <1>4. TaskOK(next)
    BY <1>1, <1>2, <1>3 DEF TaskOK
  <1>5. Held(next) => /\ posting[next.key[1]].target = next.target
                      /\ posting[next.key[1]].details = next.seen.details
    BY <1>2 DEF Held, SameTarget
  <1> QED BY <1>2, <1>3, <1>4, <1>5, MovedKeeps DEF Load

\* the row of a check on which a task's result has landed
LEMMA LandedRow ==
    ASSUME QueueInv, NEW p \in Process, NEW t \in tasks[p], t.stage = "loaded", Fenced(t)
    PROVE  LET d == Landed(check[t.key], t) IN
           /\ d \in CheckType /\ d.token = NoToken /\ d.attempts = check[t.key].attempts
           /\ d.status \in Results \cup {"blocked"} /\ d.target = check[t.key].target
           /\ Proves(t) => /\ d.status = "complete" /\ d.facts = t.facts /\ d.verified = clock
                           /\ t.target = check[t.key].target
           /\ ~Proves(t) => d.status # "complete" /\ d.verified = check[t.key].verified
           /\ CheckOK(d)
  <1> DEFINE c == check[t.key]
             d == Landed(c, t)
  <1>1. Typed
    BY DEF QueueInv
  <1>2. t \in TaskType /\ t.key \in Key /\ TaskOK(t) /\ c \in CheckType /\ CheckOK(c)
    BY <1>1, Rows DEF QueueInv, TasksOK, ChecksOK
  <1>3. t.result \in Results /\ t.facts \in FactsType
    BY <1>2 DEF TaskOK, TaskType
  <1>4. clock \in Times /\ clock + Hour \in Times /\ Never \in Times /\ clock \in Int /\ clock # Never
    BY <1>1, Constants DEF Typed, TypeOK
  <1>5. d \in {[Released(c) EXCEPT !.status = "blocked", !.available = clock + Hour],
               Incomplete(c, t), Complete(c, t)}
    BY DEF Landed
  <1>6. Proves(t) => d = Complete(c, t) /\ t.target = c.target
    BY DEF Proves, Landed, SameTarget
  <1>7. ~Proves(t) => \/ d = [Released(c) EXCEPT !.status = "blocked", !.available = clock + Hour]
                      \/ d = Incomplete(c, t) /\ t.result # "complete"
    BY DEF Proves, Landed
  <1> HIDE DEF d, c
  <1>8. LET e == Complete(c, t) IN
        /\ e \in CheckType /\ e.token = NoToken /\ e.attempts = c.attempts /\ e.target = c.target
        /\ e.status = "complete" /\ e.facts = t.facts /\ e.verified = clock
    BY <1>2, <1>3, <1>4 DEF Complete, Released, CheckType, NoToken
  <1>9. LET e == Incomplete(c, t) IN
        /\ e \in CheckType /\ e.token = NoToken /\ e.attempts = c.attempts /\ e.target = c.target
        /\ e.status = t.result /\ e.verified = c.verified
    <2>1. t.result \in {"complete", "partial", "blocked", "failed"}
      BY <1>3, ResultAssumption
    <2> QED BY <1>2, <1>3, <1>4, <2>1 DEF Incomplete, Released, CheckType, NoToken
  <1>10. LET e == [Released(c) EXCEPT !.status = "blocked", !.available = clock + Hour] IN
        /\ e \in CheckType /\ e.token = NoToken /\ e.attempts = c.attempts /\ e.target = c.target
        /\ e.status = "blocked" /\ e.verified = c.verified
    BY <1>2, <1>4 DEF Released, CheckType, NoToken
  <1>11. d \in CheckType /\ d.token = NoToken /\ d.attempts = c.attempts /\ d.target = c.target
    BY <1>5, <1>8, <1>9, <1>10
  <1>12. ~Proves(t) => d.status \in (Results \cup {"blocked"}) \ {"complete"} /\ d.verified = c.verified
    BY <1>3, <1>7, <1>9, <1>10
  <1>13. Proves(t) => /\ d.status = "complete" /\ d.facts = t.facts /\ d.verified = clock
                      /\ t.target = c.target /\ t.result = "complete"
    BY <1>6, <1>8 DEF Proves
  <1>14. d.token <= d.attempts
    BY <1>2, <1>11 DEF CheckType, NoToken
  <1>15. CheckOK(d)
    <2>1. CASE Proves(t)
      <3>1. c.lease > clock /\ c.token = t.token
        BY DEF Fenced, c
      <3>2. c.lease = t.since + LeaseTime
        BY <1>2, <3>1 DEF TaskOK, c
      <3>3. t.since <= t.facts.at /\ t.facts.target = t.target
        BY <1>2, <1>13, <2>1 DEF TaskOK
      <3>4. t.since \in Int /\ t.facts.at \in Int
        BY <1>2, TimeAssumption DEF TaskType, FactsType, Times, Never
      <3>5. clock < t.facts.at + LeaseTime
        BY <1>4, <3>1, <3>2, <3>3, <3>4, TimeAssumption
      <3> QED BY <1>4, <1>11, <1>13, <1>14, <2>1, <3>3, <3>5 DEF CheckOK
    <2>2. CASE ~Proves(t)
      BY <1>12, <1>14, <2>2 DEF CheckOK
    <2> QED BY <2>1, <2>2
  <1>16. d.status \in Results \cup {"blocked"}
    BY <1>3, <1>12, <1>13
  <1> QED BY <1>11, <1>12, <1>13, <1>15, <1>16 DEF c, d

LEMMA FinishKeeps ==
    ASSUME QueueInv, NEW p \in Process, NEW t \in tasks[p], Finish(p, t)
    PROVE  QueueInv' /\ (DetailsInv /\ PagesApart => DetailsInv')
  <1> DEFINE k == t.key
             j == t.key[1]
  <1>1. Typed
    BY DEF QueueInv
  <1>2. t \in TaskType /\ k \in Key /\ j \in Job /\ TaskOK(t)
    BY <1>1, Rows DEF QueueInv, TasksOK
  <1>3. posting \in [Job -> PostingType] /\ check \in [Key -> CheckType]
    BY <1>1 DEF Typed, TypeOK
  <1>4. /\ \A l \in Key : l # k => check'[l] = check[l]
        /\ check'[k] = IF Fenced(t) THEN Landed(check[k], t) ELSE check[k]
    BY <1>2, <1>3 DEF Finish
  <1>5. /\ t.stage = "loaded"
        /\ Fenced(t) =>
             /\ check'[k] \in CheckType /\ check'[k].token = NoToken
             /\ check'[k].attempts = check[k].attempts
             /\ check'[k].status \in Results \cup {"blocked"} /\ check'[k].target = check[k].target
             /\ Proves(t) => /\ check'[k].status = "complete" /\ check'[k].facts = t.facts
                             /\ check'[k].verified = clock /\ t.target = check[k].target
             /\ ~Proves(t) => check'[k].status # "complete" /\ check'[k].verified = check[k].verified
             /\ CheckOK(check'[k])
        /\ ~Fenced(t) => check'[k] = check[k]
    BY <1>4, LandedRow DEF Finish
  <1>6. Proves(t) => /\ Fenced(t) /\ k = Latest(j) /\ t.facts.facts \in Facts
                     /\ Held(t) /\ ~t.seen.closed
    <2>1. Proves(t) => Fenced(t) /\ Held(t) /\ ~t.seen.closed /\ k[2] = posting[j].occ
      BY <1>5 DEF Proves, Held, Fenced, SameTarget
    <2>2. Proves(t) => t.facts.facts \in Facts
      BY <1>2, <1>5 DEF Proves, TaskOK
    <2>3. k = <<k[1], k[2]>>
      BY <1>1, <1>2, Rows
    <2> QED BY <2>1, <2>2, <2>3 DEF Latest
  <1>7. /\ posting' = [posting EXCEPT ![j].details = IF Rewrites(t) THEN t.facts.facts ELSE @]
        /\ retold' = IF Rewrites(t) THEN retold \ {j} ELSE retold
        /\ clock' = clock /\ page' = page /\ turn' = turn /\ scan' = scan /\ observed' = observed
    BY DEF Finish
  <1>8. /\ tasks' \in [Process -> SUBSET TaskType]
        /\ \A q \in Process : tasks'[q] \subseteq tasks[q]
        /\ t \notin tasks'[p]
    BY <1>1 DEF Finish, Typed
  <1> HIDE DEF k, j
  <1>9. /\ \A i \in Job : /\ posting'[i].occ = posting[i].occ
                          /\ posting'[i].closed = posting[i].closed
                          /\ posting'[i].target = posting[i].target
                          /\ i # j \/ ~Rewrites(t) => posting'[i] = posting[i]
        /\ Rewrites(t) => posting'[j].details = t.facts.facts
        /\ posting' \in [Job -> PostingType]
    <2>1. Rewrites(t) => t.facts.facts \in DetailsType
      BY <1>6 DEF Rewrites, DetailsType
    <2> QED BY <1>2, <1>3, <1>7, <2>1 DEF PostingType
  <1>10. \A i \in Job : Latest(i)' = Latest(i) /\ Latest(i) \in Key
    BY <1>1, <1>9, Rows DEF Latest
  <1>11. Typed'
    <2>1. check' \in [Key -> CheckType]
      BY <1>2, <1>3, <1>4, <1>5 DEF Finish
    <2>2. \A l \in Key : check'[l].status = "running" <=> check'[l].token # NoToken
      BY <1>1, <1>4, <1>5, ResultAssumption DEF Typed, TypeOK
    <2>3. retold' \subseteq Job
      BY <1>1, <1>7 DEF Typed, TypeOK
    <2> QED BY <1>1, <1>7, <1>8, <1>9, <2>1, <2>2, <2>3 DEF Typed, TypeOK
  <1>12. ChecksOK'
    <2> SUFFICES ASSUME NEW l \in Key PROVE CheckOK(check'[l])
      BY DEF ChecksOK, CheckOK
    <2> QED BY <1>4, <1>5 DEF QueueInv, ChecksOK
  <1>13. TasksOK'
    <2> SUFFICES ASSUME NEW q \in Process, NEW u \in tasks'[q] PROVE TaskOK(u)'
      BY DEF TasksOK
    <2>1. TaskOK(u) /\ u.key \in Key /\ u.token # NoToken
      BY <1>1, <1>8, Rows DEF QueueInv, TasksOK, TaskType
    <2> QED BY <1>4, <1>5, <1>7, <2>1 DEF TaskOK
  <1>14. TasksDistinct'
    BY <1>8 DEF QueueInv, TasksDistinct
  <1>15. FutureUnchecked'
    <2> SUFFICES ASSUME NEW l \in Key, l[2] > posting[l[1]].occ PROVE check'[l] = NoCheck
      BY <1>1, <1>9, Rows DEF FutureUnchecked
    <2>1. check[l] = NoCheck
      BY DEF QueueInv, FutureUnchecked
    <2>2. Fenced(t) => check[k].status = "running"
      BY DEF Fenced, k
    <2> QED BY <1>4, <1>5, <2>1, <2>2 DEF NoCheck
  <1>16. ASSUME NEW q \in Process, NEW u \in tasks'[q], Held(u)'
         PROVE  /\ u \in tasks[q] /\ Held(u) /\ u.key[1] \in Job
                /\ u.key[1] = j => ~Proves(t)
    <2>1. u \in tasks[q] /\ u.key \in Key /\ u.key[1] \in Job /\ u.token # NoToken
          /\ u.key = <<u.key[1], u.key[2]>>
      BY <1>1, <1>8, Rows DEF TaskType
    <2>2. check'[u.key] = check[u.key] /\ (u.key = k => ~Fenced(t))
      BY <1>4, <1>5, <1>16, <2>1 DEF Held
    <2>3. Held(u)
      BY <1>9, <1>16, <2>1, <2>2 DEF Held, SameTarget
    <2>4. u.key[1] = j => u.key = Latest(j)
      BY <2>1, <2>3 DEF Held, SameTarget, Latest
    <2> QED BY <1>6, <2>1, <2>2, <2>3, <2>4
  <1>17. LoadedTarget'
    <2> SUFFICES ASSUME NEW q \in Process, NEW u \in tasks'[q], Held(u)',
                        ~posting'[u.key[1]].closed
                 PROVE  posting'[u.key[1]].target = u.target
      BY DEF LoadedTarget
    <2> QED BY <1>9, <1>16 DEF QueueInv, LoadedTarget
  <1>18. ASSUME DetailsInv, PagesApart PROVE DetailsInv'
    <2>1. UnverifiedFromFeeds'
      <3> SUFFICES ASSUME NEW i \in Job, check'[Latest(i)].verified = Never
                   PROVE  posting'[i].details \in Feed \cup {NoDetails}
        BY <1>10 DEF UnverifiedFromFeeds
      <3>1. ~Proves(t) \/ i # j
        BY <1>1, <1>5, <1>6, Constants DEF Typed, TypeOK
      <3>2. check[Latest(i)].verified = Never
        <4>1. CASE Latest(i) = k
          <5>1. i = j
            BY <4>1 DEF Latest, j, k
          <5> QED BY <1>5, <3>1, <4>1, <5>1
        <4>2. CASE Latest(i) # k
          BY <1>4, <1>10, <4>2
        <4> QED BY <4>1, <4>2
      <3> QED BY <1>9, <1>18, <3>1, <3>2 DEF Rewrites, DetailsInv, UnverifiedFromFeeds
    <2>2. LoadedDetails'
      <3> SUFFICES ASSUME NEW q \in Process, NEW u \in tasks'[q], Held(u)',
                          u.key[1] \notin retold', u.seen.details \in Facts
                   PROVE  /\ posting'[u.key[1]].target = u.target
                          /\ posting'[u.key[1]].details = u.seen.details
        BY DEF LoadedDetails
      <3>1. u \in tasks[q] /\ Held(u) /\ u.key[1] \in Job /\ posting'[u.key[1]] = posting[u.key[1]]
        BY <1>9, <1>16 DEF Rewrites
      <3>2. u.key[1] \notin retold
        BY <1>7, <1>16 DEF Rewrites
      <3> QED BY <1>18, <3>1, <3>2 DEF DetailsInv, LoadedDetails
    <2>3. DetailsFromFacts'
      <3> SUFFICES ASSUME NEW i \in Job, i \notin retold', check'[Latest(i)].status = "complete"
                   PROVE  /\ posting'[i].details = check'[Latest(i)].facts.facts
                          /\ ~posting'[i].closed => posting'[i].target = check'[Latest(i)].target
        BY <1>10 DEF DetailsFromFacts
      <3>1. CASE i = j /\ Proves(t)
        <4>1. check'[Latest(i)].facts = t.facts /\ check'[Latest(i)].target = t.target
          BY <1>5, <1>6, <3>1
        <4>2. ~posting[j].closed => posting[j].target = t.target
          BY <1>6, <3>1 DEF QueueInv, LoadedTarget, j
        <4>3. posting'[j].details = t.facts.facts
          <5>1. CASE Rewrites(t)
            BY <1>9, <5>1
          <5>2. CASE ~Rewrites(t)
            <6>1. t.seen.details = t.facts.facts /\ t.seen.details \in Facts /\ j \notin retold
              BY <1>6, <1>7, <3>1, <5>2 DEF Rewrites
            <6>2. posting[j].details = t.seen.details
              BY <1>6, <1>18, <3>1, <6>1 DEF DetailsInv, LoadedDetails, j
            <6> QED BY <1>2, <1>9, <5>2, <6>1, <6>2 DEF j
          <5> QED BY <5>1, <5>2
        <4> QED BY <1>9, <3>1, <4>1, <4>2, <4>3
      <3>2. CASE i # j \/ ~Proves(t)
        <4>1. i \notin retold /\ posting'[i] = posting[i]
          BY <1>7, <1>9, <3>2 DEF Rewrites
        <4>2. check'[Latest(i)] = check[Latest(i)]
          <5>1. CASE Latest(i) = k
            <6>1. i = j
              BY <5>1 DEF Latest, j, k
            <6> QED BY <1>5, <3>2, <5>1, <6>1
          <5>2. CASE Latest(i) # k
            BY <1>4, <1>10, <5>2
          <5> QED BY <5>1, <5>2
        <4> QED BY <1>18, <4>1, <4>2 DEF DetailsInv, DetailsFromFacts
      <3> QED BY <3>1, <3>2
    <2> QED BY <2>1, <2>2, <2>3 DEF DetailsInv
  <1> QED BY <1>11, <1>12, <1>13, <1>14, <1>15, <1>17, <1>18 DEF QueueInv

-----------------------------------------------------------------------------
(* The theorems.                                                             *)

LEMMA NextKeeps ==
    ASSUME QueueInv, [Next]_vars
    PROVE  QueueInv' /\ (DetailsInv /\ PagesApart => DetailsInv')
  <1>1. CASE Outside
    <2>1. PICK j \in Job :
             \/ RequestCheck(j) \/ PageChanges(j)
             \/ \E aim \in Target, feed \in Feed :
                   Observe(j, aim, feed) \/ Close(j, aim, feed) \/ Repost(j, aim, feed)
      BY <1>1 DEF Outside
    <2>2. CASE RequestCheck(j)
      BY <2>2, RequestKeeps
    <2>3. CASE PageChanges(j)
      BY <2>3, PageKeeps
    <2>4. CASE \E aim \in Target, feed \in Feed :
                  Observe(j, aim, feed) \/ Close(j, aim, feed) \/ Repost(j, aim, feed)
      BY <2>4, ObserveKeeps, CloseKeeps, RepostKeeps
    <2> QED BY <2>1, <2>2, <2>3, <2>4
  <1>2. CASE Tick
    <2>1. CASE Process = {}
      <3>1. Typed /\ \A k \in Key : Untaken(k) /\ check'[k] = check[k]
        BY <1>2 DEF Tick, Untaken, QueueInv
      <3>2. Typed' /\ clock' \in Int /\ clock <= clock'
        BY <1>2, <3>1, QueueAssumption DEF Tick, Typed, TypeOK
      <3> QED BY <1>2, <3>1, <3>2, PostingsKept DEF Tick
    <2>2. CASE Process # {}
      BY <1>2, <2>2, QuietKeeps
    <2> QED BY <2>1, <2>2
  <1>3. ASSUME NEW p \in Process, Work(p) \/ Crash(p)
        PROVE  QueueInv' /\ (DetailsInv /\ PagesApart => DetailsInv')
    <2>1. CASE BackfillRead(p) \/ BackfillNothing(p) \/ ClaimNothing(p)
      BY <2>1, QuietKeeps
    <2>2. CASE BackfillWrite(p)
      BY <2>2, BackfillKeeps
    <2>3. CASE Claim(p)
      BY <2>3, ClaimKeeps
    <2>4. CASE Crash(p)
      BY <2>4, CrashKeeps
    <2>5. ASSUME NEW t \in tasks[p], Collect(p, t) \/ Load(p, t) \/ Finish(p, t)
          PROVE  QueueInv' /\ (DetailsInv /\ PagesApart => DetailsInv')
      BY <2>5, CollectKeeps, LoadKeeps, FinishKeeps
    <2> QED BY <1>3, <2>1, <2>2, <2>3, <2>4, <2>5 DEF Work
  <1>4. CASE UNCHANGED vars
    <2>1. /\ clock' = clock /\ posting' = posting /\ page' = page /\ check' = check /\ turn' = turn
          /\ scan' = scan /\ tasks' = tasks /\ retold' = retold /\ observed' = observed
      BY <1>4 DEF vars
    <2>2. Typed /\ Typed' /\ \A k \in Key : Untaken(k) /\ check'[k] = check[k]
      BY <2>1 DEF QueueInv, Typed, TypeOK, Untaken
    <2>3. clock' \in Int /\ clock <= clock'
      BY <2>1, <2>2 DEF Typed, TypeOK
    <2> QED BY <2>1, <2>2, <2>3, PostingsKept
  <1> QED BY <1>1, <1>2, <1>3, <1>4 DEF Next

\* a check completes only through finish()
LEMMA CompletesByFinish ==
    ASSUME QueueInv, [Next]_vars, NEW k \in Key, Completes(k)
    PROVE  \E p \in Process : \E t \in tasks[p] :
              t.key = k /\ t.stage = "loaded" /\ Proves(t) /\ check'[k] = Landed(check[k], t)
  <1>1. Typed /\ check \in [Key -> CheckType] /\ check[k].status # "complete"
        /\ check'[k].status = "complete"
    BY DEF QueueInv, Typed, TypeOK, Completes
  <1>2. ASSUME NEW l \in Key, NEW seen, NEW print, NEW refresh
        PROVE  LET d == Enqueued(l, seen, print, refresh) IN d = check[l] \/ d.status = "queued"
    BY <1>1 DEF Enqueued, Requeued, CheckType
  <1>3. ASSUME NEW l \in Key, NEW seen, NEW print, NEW refresh
        PROVE  check' # [check EXCEPT ![l] = Enqueued(l, seen, print, refresh)]
    BY <1>1, <1>2
  <1>4. \A j \in Job : Latest(j) \in Key /\ posting[j] \in PostingType
    BY <1>1, Rows
  <1>5. ASSUME Outside PROVE FALSE
    <2>1. PICK j \in Job :
             \/ RequestCheck(j) \/ PageChanges(j)
             \/ \E aim \in Target, feed \in Feed :
                   Observe(j, aim, feed) \/ Close(j, aim, feed) \/ Repost(j, aim, feed)
      BY <1>5 DEF Outside
    <2>2. CASE RequestCheck(j)
      BY <1>3, <1>4, <2>2 DEF RequestCheck
    <2>3. CASE PageChanges(j)
      BY <1>1, <2>3 DEF PageChanges
    <2>4. ASSUME NEW aim \in Target, NEW feed \in Feed,
                 Observe(j, aim, feed) \/ Close(j, aim, feed) \/ Repost(j, aim, feed)
          PROVE  FALSE
      <3>1. CASE Observe(j, aim, feed)
        BY <1>3, <1>4, <3>1 DEF Observe
      <3>2. CASE Close(j, aim, feed)
        BY <1>1, <3>2 DEF Close
      <3>3. CASE Repost(j, aim, feed)
        <4>1. <<j, posting[j].occ + 1>> \in Key
          BY <1>4, <3>3, QueueAssumption DEF Repost, Key, PostingType
        <4> QED BY <1>3, <3>3, <4>1 DEF Repost
      <3> QED BY <2>4, <3>1, <3>2, <3>3
    <2> QED BY <2>1, <2>2, <2>3, <2>4
  <1>6. ~Tick /\ ~UNCHANGED vars
    BY <1>1 DEF Tick, vars
  <1>7. PICK p \in Process : Work(p) \/ Crash(p)
    BY <1>5, <1>6 DEF Next
  <1>8. ~(BackfillRead(p) \/ BackfillNothing(p) \/ ClaimNothing(p) \/ Crash(p))
    BY <1>1 DEF BackfillRead, BackfillNothing, ClaimNothing, Crash
  <1>9. ~BackfillWrite(p)
    <2>1. BackfillWrite(p) => \/ check'[k] = check[k]
                              \/ \E seen : check'[k] = Enqueued(k, seen, check[k].print, FALSE)
      <3> DEFINE read == CHOOSE s \in scan[p] : k = Latest(s[1])
      <3>1. BackfillWrite(p) => \/ check'[k] = check[k]
                                \/ check'[k] = Enqueued(k, read[2], check[k].print, FALSE)
        BY DEF BackfillWrite
      <3> QED BY <3>1
    <2> QED BY <1>1, <1>2, <2>1
  <1>10. ~Claim(p)
    <2> SUFFICES ASSUME Claim(p) PROVE FALSE
      OBVIOUS
    <2>1. PICK l \in Key :
             check' = [check EXCEPT ![l].status = "running", ![l].token = check[l].attempts + 1,
                                    ![l].lease = clock + LeaseTime,
                                    ![l].attempts = check[l].attempts + 1]
      BY DEF Claim
    <2>2. l # k => check'[k] = check[k]
      BY <1>1, <2>1
    <2>3. l = k => check'[k].status = "running"
      BY <1>1, <2>1 DEF CheckType
    <2> QED BY <1>1, <2>2, <2>3
  <1>11. PICK t \in tasks[p] : Collect(p, t) \/ Load(p, t) \/ Finish(p, t)
    BY <1>7, <1>8, <1>9, <1>10 DEF Work
  <1>12. Finish(p, t) /\ t.key \in Key
    BY <1>1, <1>11, Rows DEF Collect, Load
  <1>13. t.key = k /\ Fenced(t) /\ check'[k] = Landed(check[k], t) /\ t.stage = "loaded"
    BY <1>1, <1>12 DEF Finish
  <1>14. Proves(t)
    BY <1>1, <1>13, LandedRow
  <1> QED BY <1>13, <1>14

\* The rows of the queue keep their types, and a check is leased exactly while
\* it runs (claim_evidence_checks, finish).
THEOREM QueueTyped == Spec => []TypeOK
  <1>1. Init => QueueInv
    BY InitHolds
  <1>2. QueueInv /\ [Next]_vars => QueueInv'
    BY NextKeeps
  <1>3. QueueInv => TypeOK
    BY DEF QueueInv, Typed
  <1> QED BY <1>1, <1>2, <1>3, PTL DEF Spec

\* What evidence_view() and evaluate() take for a fresh verification was read
\* from pages of the target the posting has now, within a day and a lease.
THEOREM FreshIsCurrent == Spec => []ServedIsCurrent
  <1>1. Init => QueueInv
    BY InitHolds
  <1>2. QueueInv /\ [Next]_vars => QueueInv'
    BY NextKeeps
  <1>3. QueueInv => ServedIsCurrent
    <2> SUFFICES ASSUME QueueInv, NEW j \in Job, Served(j)
                 PROVE  /\ check[Latest(j)].facts.target = posting[j].target
                        /\ check[Latest(j)].facts.at > clock - Day - LeaseTime
      BY DEF ServedIsCurrent
    <2>1. Latest(j) \in Key /\ check[Latest(j)] \in CheckType /\ clock \in Int
      BY Rows DEF QueueInv
    <2>2. CheckOK(check[Latest(j)])
      BY <2>1 DEF QueueInv, ChecksOK
    <2>3. check[Latest(j)].verified \in Int /\ check[Latest(j)].facts.at \in Int
      BY <2>1, TimeAssumption DEF CheckType, FactsType, Times, Never
    <2> QED BY <2>1, <2>2, <2>3, TimeAssumption DEF Served, Stale, CheckOK
  <1> QED BY <1>1, <1>2, <1>3, PTL DEF Spec

\* If no feed words its details as a page does, what a posting shows as
\* verified is of its target, recent, and what its details say, whatever feeds,
\* requests, closures, reopenings and other workers did in between
\* (_merge_job_details, finish).
THEOREM VerificationStands == ASSUME PagesApart PROVE Spec => []VerifiedStands
  <1>1. Init => QueueInv /\ DetailsInv
    BY InitHolds
  <1>2. QueueInv /\ DetailsInv /\ [Next]_vars => QueueInv' /\ DetailsInv'
    BY NextKeeps
  <1>3. DetailsInv => EvidenceDetailsStand
    BY DEF DetailsInv, DetailsFromFacts, EvidenceDetailsStand, Served
  <1> QED BY <1>1, <1>2, <1>3, QueueTyped, FreshIsCurrent, PTL DEF Spec, VerifiedStands

\* What completes on an open posting is the check of its latest occurrence, for
\* the target it has at that moment: the token, the lease and the comparisons
\* of finish() leave nothing else through.
THEOREM CompletionsAreCurrent == Spec => LandsOnCurrent
  <1>1. Init => QueueInv
    BY InitHolds
  <1>2. QueueInv /\ [Next]_vars => QueueInv'
    BY NextKeeps
  <1> DEFINE Lands == \A k \in Key : Completes(k) /\ ~posting[k[1]].closed =>
                         k = Latest(k[1]) /\ check'[k].target = posting[k[1]].target
  <1>3. QueueInv /\ [Next]_vars => Lands
    <2> SUFFICES ASSUME QueueInv, [Next]_vars, NEW k \in Key, Completes(k), ~posting[k[1]].closed
                 PROVE  k = Latest(k[1]) /\ check'[k].target = posting[k[1]].target
      OBVIOUS
    <2> DEFINE By(t) == /\ t.key = k /\ t.stage = "loaded" /\ Proves(t)
                        /\ check'[k] = Landed(check[k], t)
    <2>0. PICK p \in Process : \E t \in tasks[p] : By(t)
      BY CompletesByFinish
    <2>1. PICK t \in tasks[p] : By(t)
      BY <2>0
    <2>2. Held(t) /\ k[2] = posting[k[1]].occ /\ Fenced(t)
      BY <2>1 DEF Proves, Held, Fenced, SameTarget
    <2>3. k = <<k[1], k[2]>>
      BY Rows DEF QueueInv
    <2>4. k = Latest(k[1])
      BY <2>2, <2>3 DEF Latest
    <2>5. posting[k[1]].target = t.target
      BY <2>1, <2>2 DEF QueueInv, LoadedTarget
    <2>6. check'[k].target = t.target
      BY <2>1, <2>2, LandedRow
    <2> QED BY <2>4, <2>5, <2>6
  <1> QED BY <1>1, <1>2, <1>3, PTL DEF Spec, LandsOnCurrent

-----------------------------------------------------------------------------
(* Collection: the documents of one check.                                  *)

(* Before the page is judged there is the API's posting or nothing; then    *)
(* the posting of the API, the page, and the policies it links to, in this  *)
(* order.                                                                   *)

collection == <<target, stage, landing, collected, failure>>
CollectionSpec == CollectionInit /\ [][CollectionNext]_collection

DocumentType == [kind : {"posting", "application", "company_policy"}, from : {"api", "page", "link"},
                 final : Final, text : Texts \cup {"described", "both", "scoped", "all"}]

CollectionTypeOK ==
    /\ target \in [provider : Board \cup {"workday", "employer"}, listed : BOOLEAN]
    /\ stage \in {"api", "page", "render", "judge", "policies", "done"}
    /\ DOMAIN landing = {"from", "final", "text", "embedded", "links", "rendered"}
    /\ landing.final \in Final
    /\ landing.embedded \in Embedded \cup {<<>>}
    /\ collected \in Seq(DocumentType)

(* Before the page is judged there is the API's posting, or nothing.         *)
BeforePage ==
    stage \in {"api", "page", "render", "judge"} =>
        /\ stage = "api" <=> target.provider \in Board /\ collected = <<>>
        /\ target.provider \notin Board => collected = <<>>
        /\ stage # "api" /\ target.provider \in Board =>
             /\ Len(collected) = 1 /\ collected[1].kind = "posting" /\ collected[1].from = "api"
             /\ landing.from \in {"role", "branded"}

(* A page that is judged was reached at an address of the role.              *)
PageIsReviewed ==
    stage \in {"render", "judge"} =>
        landing.final # "elsewhere" /\ (target.provider = "employer" => target.listed)

OfThisRole(i) ==
    /\ collected[i].kind # "company_policy"
    /\ collected[i].from = "page" /\ collected[i].final # "elsewhere"
    /\ target.provider = "employer" =>
         /\ target.listed /\ collected[i].text = "described" /\ Generic(landing.embedded)

(* Then the posting of the API, the page, and policies linked there.         *)
InOrder ==
    stage = "policies" => \E m \in 1 .. Len(collected) :
        /\ m <= 2 /\ OfThisRole(m)
        /\ \A i \in 1 .. m - 1 : collected[i].from = "api" /\ collected[i].kind = "posting"
        /\ \A i \in m + 1 .. Len(collected) : collected[i].kind = "company_policy"

CollectionInv ==
    /\ CollectionTypeOK
    /\ BeforePage /\ PageIsReviewed /\ InOrder
    /\ CheckIsSound

LEMMA OwnersOfEmployer ==
    ASSUME CollectionTypeOK, target.provider = "employer"
    PROVE  Owners(landing.embedded) =
             {k \in 1 .. Len(landing.embedded) :
                LET e == landing.embedded[k] IN e.url /\ e.title /\ e.company}
  <1>1. ASSUME NEW k \in 1 .. Len(landing.embedded)
        PROVE  landing.embedded[k] \in EmbeddedType
    BY <1>1, PageAssumption DEF CollectionTypeOK
  <1>2. ASSUME NEW k \in 1 .. Len(landing.embedded)
        PROVE  Owns(landing.embedded[k]) <=>
                 LET e == landing.embedded[k] IN e.url /\ e.title /\ e.company
    BY <1>1 DEF Owns, Namespaced, EmbeddedType
  <1> QED BY <1>2 DEF Owners

LEMMA CollectionInitInv == CollectionInit => CollectionInv
  <1> SUFFICES ASSUME CollectionInit PROVE CollectionInv
    OBVIOUS
  <1>1. collected = <<>> /\ collected \in Seq(DocumentType) /\ Len(collected) = 0
    BY DEF CollectionInit
  <1>2. CollectionTypeOK
    BY <1>1 DEF CollectionInit, CollectionTypeOK, NoLanding, Final, Board
  <1>3. BeforePage /\ PageIsReviewed /\ InOrder
    BY <1>1 DEF CollectionInit, BeforePage, PageIsReviewed, InOrder, Board
  <1>4. CheckIsSound
    BY <1>1 DEF CheckIsSound, RoleTextOnly, RoleDocs, CompleteSawLanding, CheckComplete, ThreeAtMost
  <1> QED BY <1>2, <1>3, <1>4 DEF CollectionInv

LEMMA SingleIsSound ==
    ASSUME collected \in Seq(DocumentType), Len(collected) <= 1,
           \A i \in 1 .. Len(collected) : collected[i].from = "api" /\ collected[i].kind = "posting"
    PROVE  RoleTextOnly /\ ThreeAtMost
  BY DEF RoleTextOnly, RoleDocs, ThreeAtMost

LEMMA BeforePageSingle ==
    ASSUME CollectionTypeOK, BeforePage, stage \in {"api", "page", "render", "judge"}
    PROVE  /\ Len(collected) <= 1 /\ Len(collected) \in Nat
           /\ \A i \in 1 .. Len(collected) : collected[i].from = "api" /\ collected[i].kind = "posting"
           /\ collected # <<>> => target.provider \in Board /\ stage # "api"
  <1>1. CASE collected = <<>>
    BY <1>1
  <1>2. CASE collected # <<>>
    <2>1. /\ target.provider \in Board /\ stage # "api"
          /\ Len(collected) = 1 /\ collected[1].kind = "posting" /\ collected[1].from = "api"
      BY <1>2 DEF BeforePage
    <2> QED BY <2>1
  <1> QED BY <1>1, <1>2

\* an end that leaves the documents as they were
LEMMA EndedEarly ==
    ASSUME CollectionInv, stage \in {"api", "page", "render", "judge"},
           CollectionTypeOK', UNCHANGED <<target, landing, collected>>, stage' = "done",
           failure' # "none" \/ (stage # "api" /\ MayBeMissing)
    PROVE  CollectionInv'
  <1>1. /\ Len(collected) <= 1 /\ Len(collected) \in Nat
        /\ \A i \in 1 .. Len(collected) : collected[i].from = "api" /\ collected[i].kind = "posting"
    BY BeforePageSingle DEF CollectionInv
  <1>2. (RoleTextOnly /\ ThreeAtMost)'
    BY <1>1 DEF RoleTextOnly, RoleDocs, ThreeAtMost, CollectionTypeOK
  <1>3. CompleteSawLanding'
    BY DEF CollectionInv, BeforePage, MayBeMissing, CompleteSawLanding, CheckComplete, Board
  <1> QED BY <1>2, <1>3 DEF CollectionInv, CheckIsSound, BeforePage, PageIsReviewed, InOrder

LEMMA AskApiKeeps == CollectionInv /\ AskApi => CollectionInv'
  <1> SUFFICES ASSUME CollectionInv, AskApi PROVE CollectionInv'
    OBVIOUS
  <1>1. CollectionTypeOK /\ BeforePage /\ stage = "api"
    BY DEF CollectionInv, AskApi
  <1>2. ASSUME UNCHANGED <<landing, collected>>, stage' = "done", failure' # "none"
        PROVE  CollectionInv'
    <2>1. UNCHANGED target
      BY DEF AskApi
    <2>2. CollectionTypeOK'
      BY <1>1, <1>2, <2>1 DEF CollectionTypeOK
    <2> QED BY <1>1, <1>2, <2>1, <2>2, EndedEarly
  <1>3. ASSUME NEW a \in ApiAnswer, ApiMatches(a),
               collected' = <<Document("posting", "api", "role", IF a.long THEN "long" ELSE "short")>>,
               IF PageOf(a) = "role" \/ PageOf(a) = a.hosted
                 THEN /\ stage' = "page" /\ failure' = "none"
                      /\ landing' = [NoLanding EXCEPT !.from = PageOf(a)]
                 ELSE Failed("mismatch") /\ UNCHANGED landing
        PROVE  CollectionInv'
    <2> DEFINE d == Document("posting", "api", "role", IF a.long THEN "long" ELSE "short")
    <2>1. d \in DocumentType /\ d.kind = "posting" /\ d.from = "api"
      BY DEF Document, DocumentType, Final, Texts
    <2> HIDE DEF d
    <2>2. /\ collected' \in Seq(DocumentType) /\ Len(collected') = 1 /\ collected'[1] = d
          /\ collected' # <<>>
      BY <1>3, <2>1 DEF d
    <2>3. UNCHANGED target
      BY DEF AskApi
    <2>4. CollectionTypeOK'
      BY <1>1, <1>3, <2>2, <2>3 DEF CollectionTypeOK, Failed, NoLanding, Final
    <2>5. stage' = "page" => landing'.from \in {"role", "branded"}
      BY <1>3 DEF ApiMatches, NoLanding, Failed
    <2>6. (RoleTextOnly /\ ThreeAtMost)'
      BY <2>1, <2>2 DEF RoleTextOnly, RoleDocs, ThreeAtMost
    <2>7. BeforePage' /\ PageIsReviewed' /\ InOrder' /\ CompleteSawLanding'
      BY <1>1, <1>3, <2>1, <2>2, <2>3, <2>5
      DEF BeforePage, PageIsReviewed, InOrder, CompleteSawLanding, CheckComplete, Failed
    <2> QED BY <2>4, <2>6, <2>7 DEF CollectionInv, CheckIsSound
  <1>4. (\E a \in ApiAnswer : ~ApiMatches(a) /\ Failed("mismatch") /\ UNCHANGED <<landing, collected>>)
        \/ (Failed("unavailable") /\ UNCHANGED <<landing, collected>>)
        \/ \E a \in ApiAnswer :
             /\ ApiMatches(a)
             /\ collected' = <<Document("posting", "api", "role", IF a.long THEN "long" ELSE "short")>>
             /\ IF PageOf(a) = "role" \/ PageOf(a) = a.hosted
                 THEN /\ stage' = "page" /\ failure' = "none"
                      /\ landing' = [NoLanding EXCEPT !.from = PageOf(a)]
                 ELSE Failed("mismatch") /\ UNCHANGED landing
    BY DEF AskApi
  <1> QED BY <1>2, <1>3, <1>4 DEF Failed

LEMMA GetPageKeeps == CollectionInv /\ GetPage => CollectionInv'
  <1> SUFFICES ASSUME CollectionInv, GetPage PROVE CollectionInv'
    OBVIOUS
  <1>1. /\ CollectionTypeOK /\ BeforePage /\ stage = "page"
        /\ UNCHANGED <<target, collected>>
    BY DEF CollectionInv, GetPage
  <1>2. ASSUME UNCHANGED landing, stage' = "done", failure' # "none" \/ MayBeMissing
        PROVE  CollectionInv'
    BY <1>1, <1>2, EndedEarly DEF CollectionTypeOK
  <1>3. ASSUME target.provider \in Board \/ target.listed,
               NEW final \in Final, NEW text \in Texts,
               NEW embedded \in Embedded, NEW links \in Linked, Arrived(final),
               landing' = [from |-> landing.from, final |-> final, text |-> text,
                           embedded |-> embedded, links |-> links, rendered |-> FALSE],
               stage' \in {"render", "judge"}
        PROVE  CollectionInv'
    <2>1. CollectionTypeOK'
      BY <1>1, <1>3 DEF CollectionTypeOK
    <2>2. landing'.final # "elsewhere" /\ landing'.from = landing.from
      BY <1>3 DEF Arrived
    <2>3. BeforePage'
      BY <1>1, <1>3, <2>2 DEF BeforePage
    <2>4. PageIsReviewed'
      BY <1>1, <1>3, <2>2 DEF PageIsReviewed, Board
    <2>5. /\ Len(collected) <= 1
          /\ \A i \in 1 .. Len(collected) : collected[i].from = "api" /\ collected[i].kind = "posting"
      BY <1>1, BeforePageSingle
    <2>6. (RoleTextOnly /\ ThreeAtMost)'
      BY <1>1, <2>5 DEF RoleTextOnly, RoleDocs, ThreeAtMost, CollectionTypeOK
    <2> QED BY <1>3, <2>1, <2>3, <2>4, <2>6
            DEF CollectionInv, CheckIsSound, InOrder, CompleteSawLanding, CheckComplete
  <1>4. \/ /\ target.provider \in Board \/ target.listed
           /\ \E final \in Final, text \in Texts, embedded \in Embedded, links \in Linked :
                /\ Arrived(final)
                /\ landing' = [from |-> landing.from, final |-> final, text |-> text,
                               embedded |-> embedded, links |-> links, rendered |-> FALSE]
                /\ stage' \in {"render", "judge"}
        \/ UNCHANGED landing /\ stage' = "done" /\ (failure' # "none" \/ MayBeMissing)
    BY DEF GetPage, Failed, Done
  <1> QED BY <1>2, <1>3, <1>4

LEMMA RenderKeeps == CollectionInv /\ Render => CollectionInv'
  <1> SUFFICES ASSUME CollectionInv, Render PROVE CollectionInv'
    OBVIOUS
  <1>1. /\ CollectionTypeOK /\ BeforePage /\ PageIsReviewed /\ stage = "render"
        /\ UNCHANGED target
    BY DEF CollectionInv, Render
  <1>2. CASE Failed("mismatch") /\ UNCHANGED <<landing, collected>>
    BY <1>1, <1>2, EndedEarly DEF CollectionTypeOK, Failed
  <1>3. CASE Failed("lost") /\ collected' = <<>> /\ UNCHANGED landing
    <2>1. collected' \in Seq(DocumentType) /\ Len(collected') = 0
      BY <1>3
    <2>2. CollectionTypeOK'
      BY <1>1, <1>3, <2>1 DEF CollectionTypeOK, Failed
    <2> QED BY <1>3, <2>1, <2>2
            DEF CollectionInv, CheckIsSound, BeforePage, PageIsReviewed, InOrder, RoleTextOnly, RoleDocs,
                CompleteSawLanding, CheckComplete, ThreeAtMost, Failed
  <1>4. CASE /\ \E text \in Texts, embedded \in Embedded :
                  landing' = [landing EXCEPT !.text = text, !.embedded = embedded, !.rendered = TRUE]
             /\ stage' = "judge" /\ UNCHANGED collected
    <2>1. PICK text \in Texts, embedded \in Embedded :
            landing' = [landing EXCEPT !.text = text, !.embedded = embedded, !.rendered = TRUE]
      BY <1>4
    <2>2. /\ DOMAIN landing' = DOMAIN landing /\ landing'.final = landing.final
          /\ landing'.from = landing.from /\ landing'.embedded \in Embedded
      BY <1>1, <2>1 DEF CollectionTypeOK
    <2>3. CollectionTypeOK'
      BY <1>1, <1>4, <2>2 DEF CollectionTypeOK
    <2>4. BeforePage'
      BY <1>1, <1>4, <2>2 DEF BeforePage
    <2>5. PageIsReviewed'
      BY <1>1, <1>4, <2>2 DEF PageIsReviewed
    <2>6. /\ Len(collected) <= 1
          /\ \A i \in 1 .. Len(collected) : collected[i].from = "api" /\ collected[i].kind = "posting"
      BY <1>1, BeforePageSingle
    <2>7. (RoleTextOnly /\ ThreeAtMost)'
      BY <1>1, <1>4, <2>6 DEF RoleTextOnly, RoleDocs, ThreeAtMost, CollectionTypeOK
    <2> QED BY <1>4, <2>3, <2>4, <2>5, <2>7
            DEF CollectionInv, CheckIsSound, InOrder, CompleteSawLanding, CheckComplete
  <1> QED BY <1>2, <1>3, <1>4 DEF Render

\* what the page's own document makes of the invariant
LEMMA PageIsJudged ==
    ASSUME CollectionInv, stage = "judge", UNCHANGED <<target, landing>>,
           NEW d \in DocumentType, d.kind # "company_policy", d.from = "page", d.final = landing.final,
           target.provider = "employer" => d.text = "described" /\ Generic(landing.embedded),
           collected' = Append(collected, d), stage' = "policies"
    PROVE  CollectionInv'
  <1>1. /\ Len(collected) <= 1 /\ Len(collected) \in Nat
        /\ \A i \in 1 .. Len(collected) : collected[i].from = "api" /\ collected[i].kind = "posting"
    BY BeforePageSingle DEF CollectionInv
  <1>m. PICK m \in {1, 2} : m = Len(collected) + 1
    BY <1>1
  <1>2. /\ collected' \in Seq(DocumentType) /\ Len(collected') = m /\ m \in {1, 2}
        /\ collected'[m] = d /\ \A i \in 1 .. m - 1 : collected'[i] = collected[i]
    BY <1>1, <1>m DEF CollectionInv, CollectionTypeOK
  <1>3. CollectionTypeOK'
    BY <1>2 DEF CollectionInv, CollectionTypeOK
  <1>4. OfThisRole(m)'
    BY <1>2 DEF OfThisRole, CollectionInv, PageIsReviewed, Generic, Owners, Owns, Namespaced
  <1>5. \A i \in 1 .. m - 1 : collected'[i].from = "api" /\ collected'[i].kind = "posting"
    BY <1>1, <1>2
  <1>6. InOrder'
    BY <1>2, <1>4, <1>5 DEF InOrder
  <1>7. target.provider = "employer" => Generic(landing.embedded) /\ landing' = landing
    OBVIOUS
  <1>8. RoleTextOnly'
    <2>1. CollectionTypeOK
      BY DEF CollectionInv
    <2>2. target.provider = "employer" =>
            Cardinality({k \in 1 .. Len(landing.embedded) :
              LET e == landing.embedded[k] IN e.url /\ e.title /\ e.company}) = 1
      BY <2>1, OwnersOfEmployer DEF Generic
    <2>3. ASSUME NEW i \in 1 .. m PROVE i = m \/ collected'[i].from = "api"
      BY <1>2, <1>5
    <2> QED BY <1>2, <1>4, <2>2, <2>3 DEF RoleTextOnly, RoleDocs, OfThisRole
  <1>9. ThreeAtMost'
    <2>1. \A i \in 1 .. m : collected'[i].kind # "company_policy"
      BY <1>2, <1>5
    <2> QED BY <1>2, <2>1 DEF ThreeAtMost
  <1> QED BY <1>3, <1>6, <1>8, <1>9
          DEF CollectionInv, CheckIsSound, BeforePage, PageIsReviewed, CompleteSawLanding, CheckComplete

LEMMA JudgeKeeps == CollectionInv /\ Judge => CollectionInv'
  <1> SUFFICES ASSUME CollectionInv, Judge PROVE CollectionInv'
    OBVIOUS
  <1>1. CollectionTypeOK /\ stage = "judge" /\ UNCHANGED <<target, landing>>
    BY DEF CollectionInv, Judge
  <1>2. ASSUME UNCHANGED collected, stage' = "done", failure' # "none" \/ MayBeMissing
        PROVE  CollectionInv'
    BY <1>1, <1>2, EndedEarly DEF CollectionTypeOK
  <1> DEFINE kind == IF target.provider = "lever" THEN "application" ELSE "posting"
             d == Document(kind, "page", landing.final, JudgedText)
  <1>3. ASSUME Namespaced \/ Generic(landing.embedded), collected' = Append(collected, d),
               stage' = "policies"
        PROVE  CollectionInv'
    <2>1. d \in DocumentType
      BY <1>1 DEF CollectionTypeOK, Document, DocumentType, JudgedText
    <2>2. /\ d.kind # "company_policy" /\ d.from = "page" /\ d.final = landing.final
          /\ target.provider = "employer" => d.text = "described" /\ Generic(landing.embedded)
      BY <1>3 DEF Document, JudgedText, Namespaced
    <2> HIDE DEF d
    <2> QED BY <1>1, <1>3, <2>1, <2>2, PageIsJudged
  <1>4. \/ UNCHANGED collected /\ stage' = "done" /\ (failure' # "none" \/ MayBeMissing)
        \/ /\ Namespaced \/ Generic(landing.embedded)
           /\ collected' = Append(collected, d) /\ stage' = "policies"
    <2> HIDE DEF d
    <2>1. Judge => \/ UNCHANGED collected /\ stage' = "done" /\ (failure' # "none" \/ MayBeMissing)
        \/ /\ Namespaced \/ Generic(landing.embedded)
           /\ collected' = Append(collected, d) /\ stage' = "policies"
      BY DEF Judge, Failed, Done, d
    <2> QED BY <2>1
  <1> HIDE DEF d
  <1> QED BY <1>2, <1>3, <1>4

LEMMA FollowLinksKeeps == CollectionInv /\ FollowLinks => CollectionInv'
  <1> SUFFICES ASSUME CollectionInv, FollowLinks PROVE CollectionInv'
    OBVIOUS
  <1>1. /\ CollectionTypeOK /\ stage = "policies" /\ UNCHANGED target
        /\ RoleTextOnly /\ ThreeAtMost
    BY DEF CollectionInv, CheckIsSound, FollowLinks
  <1>2. PICK m \in 1 .. Len(collected) :
          /\ m <= 2 /\ OfThisRole(m)
          /\ \A i \in 1 .. m - 1 : collected[i].from = "api" /\ collected[i].kind = "posting"
          /\ \A i \in m + 1 .. Len(collected) : collected[i].kind = "company_policy"
    BY <1>1 DEF CollectionInv, InOrder
  <1>3. Len(collected) \in Nat /\ m \in Nat
    BY <1>1, <1>2 DEF CollectionTypeOK
  <1>4. ASSUME stage' = "done", UNCHANGED <<landing, collected>>
        PROVE  CollectionInv'
    <2>1. CollectionTypeOK' /\ RoleTextOnly' /\ ThreeAtMost'
      <3>1. CollectionTypeOK'
        BY <1>1, <1>4 DEF CollectionTypeOK
      <3>2. RoleTextOnly'
        BY <1>1, <1>4 DEF RoleTextOnly, RoleDocs
      <3>3. ThreeAtMost'
        BY <1>1, <1>4 DEF ThreeAtMost, RoleDocs, CollectionInv, CheckIsSound
      <3> QED BY <3>1, <3>2, <3>3
    <2>2. CompleteSawLanding'
      BY <1>2, <1>4 DEF CompleteSawLanding, RoleDocs, OfThisRole
    <2> QED BY <1>4, <2>1, <2>2
            DEF CollectionInv, CheckIsSound, BeforePage, PageIsReviewed, InOrder
  <1> DEFINE d == Document("company_policy", "link", "same", "all")
  <1>5. ASSUME ~Full, collected' = Append(collected, d), UNCHANGED <<stage, failure>>,
               \E links : landing' = [landing EXCEPT !.links = links]
        PROVE  CollectionInv'
    <2>1. d \in DocumentType /\ d.kind = "company_policy"
      BY DEF Document, DocumentType, Final
    <2> HIDE DEF d
    <2> DEFINE n == Len(collected) + 1
    <2>2. /\ collected' \in Seq(DocumentType) /\ Len(collected') = n /\ n <= 3
          /\ collected'[n] = d /\ \A i \in 1 .. n - 1 : collected'[i] = collected[i]
      BY <1>1, <1>3, <1>5, <2>1 DEF Full, CollectionTypeOK
    <2>3. n \in Nat /\ n = Len(collected) + 1
      BY <1>3
    <2> HIDE DEF n
    <2>4. /\ DOMAIN landing' = DOMAIN landing /\ landing'.final = landing.final
          /\ landing'.embedded = landing.embedded
      BY <1>1, <1>5 DEF CollectionTypeOK
    <2>5. CollectionTypeOK'
      BY <1>1, <1>5, <2>2, <2>4 DEF CollectionTypeOK
    <2>6. OfThisRole(m)'
      BY <1>1, <1>2, <1>3, <2>2, <2>3, <2>4 DEF OfThisRole, Generic, Owners, Owns, Namespaced
    <2>7. \A i \in 1 .. m - 1 : collected'[i].from = "api" /\ collected'[i].kind = "posting"
      BY <1>2, <1>3, <2>2, <2>3
    <2>8. \A i \in m + 1 .. n : collected'[i].kind = "company_policy"
      <3> SUFFICES ASSUME NEW i \in m + 1 .. n PROVE collected'[i].kind = "company_policy"
        OBVIOUS
      <3>1. CASE i = n
        BY <3>1, <2>1, <2>2
      <3>2. CASE i # n
        <4>1. i \in m + 1 .. Len(collected) /\ i \in 1 .. n - 1
          BY <1>3, <2>3, <3>2
        <4> QED BY <4>1, <1>2, <2>2
      <3> QED BY <3>1, <3>2
    <2>9. InOrder'
      BY <1>2, <1>3, <2>2, <2>3, <2>6, <2>7, <2>8 DEF InOrder
    <2>10. RoleTextOnly'
      <3> SUFFICES ASSUME NEW i \in RoleDocs' PROVE
            \/ collected'[i].from = "api"
            \/ /\ collected'[i].from = "page" /\ collected'[i].final # "elsewhere"
               /\ target'.provider = "employer" =>
                    /\ target'.listed /\ collected'[i].text = "described"
                    /\ Cardinality({k \in 1 .. Len(landing'.embedded) :
                          LET e == landing'.embedded[k] IN e.url /\ e.title /\ e.company}) = 1
        BY DEF RoleTextOnly
      <3>1. i \in 1 .. n /\ collected'[i].kind # "company_policy"
        BY <2>2 DEF RoleDocs
      <3>2. i \in 1 .. m
        BY <1>3, <2>3, <2>8, <3>1
      <3>3. i \in RoleDocs /\ collected'[i] = collected[i]
        BY <1>2, <1>3, <2>2, <2>3, <3>1, <3>2 DEF RoleDocs
      <3> QED BY <1>1, <2>4, <3>3 DEF RoleTextOnly
    <2>11. ThreeAtMost'
      <3>1. \A i \in 1 .. n : collected'[i].kind = "company_policy" <=> i > m
        BY <1>3, <2>3, <2>6, <2>7, <2>8 DEF OfThisRole
      <3>2. m \in 1 .. n /\ m \in RoleDocs' /\ collected'[m].from = "page"
        BY <1>2, <1>3, <2>2, <2>3, <2>6 DEF RoleDocs, OfThisRole
      <3> QED BY <1>3, <2>2, <2>3, <3>1, <3>2 DEF ThreeAtMost
    <2> QED BY <1>1, <1>5, <2>5, <2>9, <2>10, <2>11
            DEF CollectionInv, CheckIsSound, BeforePage, PageIsReviewed, CompleteSawLanding, CheckComplete
  <1>6. \/ stage' = "done" /\ UNCHANGED <<landing, collected>>
        \/ /\ ~Full /\ collected' = Append(collected, d) /\ UNCHANGED <<stage, failure>>
           /\ \E links : landing' = [landing EXCEPT !.links = links]
    BY DEF FollowLinks, Failed, Done
  <1> HIDE DEF d
  <1> QED BY <1>4, <1>5, <1>6

LEMMA CollectionStutterKeeps == CollectionInv /\ UNCHANGED collection => CollectionInv'
  <1> SUFFICES ASSUME CollectionInv, UNCHANGED collection PROVE CollectionInv'
    OBVIOUS
  <1>1. UNCHANGED <<target, stage, landing, collected, failure>>
    BY DEF collection
  <1>2. (CollectionTypeOK /\ BeforePage /\ PageIsReviewed)'
    BY <1>1 DEF CollectionInv, CollectionTypeOK, BeforePage, PageIsReviewed
  <1>3. \A i : OfThisRole(i)' <=> OfThisRole(i)
    BY <1>1 DEF OfThisRole, Generic, Owners, Owns, Namespaced
  <1>4. InOrder'
    BY <1>1, <1>3 DEF CollectionInv, InOrder
  <1>5. CheckIsSound'
    BY <1>1 DEF CollectionInv, CheckIsSound, RoleTextOnly, RoleDocs, CompleteSawLanding, CheckComplete,
                ThreeAtMost
  <1> QED BY <1>2, <1>4, <1>5 DEF CollectionInv

(* collect_evidence: whatever the board's API, the page and its links        *)
(* answer, the documents it hands over as the role's are of that role, it    *)
(* calls itself complete only if it saw the landing page, and it hands over  *)
(* no more than the limit.                                                   *)
THEOREM CollectionIsSound == CollectionSpec => []CheckIsSound
  <1>1. CollectionInv /\ [CollectionNext]_collection => CollectionInv'
    BY AskApiKeeps, GetPageKeeps, RenderKeeps, JudgeKeeps, FollowLinksKeeps, CollectionStutterKeeps
    DEF CollectionNext
  <1>2. CollectionInv => CheckIsSound
    BY DEF CollectionInv
  <1> QED BY CollectionInitInv, <1>1, <1>2, PTL DEF CollectionSpec

-----------------------------------------------------------------------------
(* Retrieval: the get that asks a domain has its lock, and the others that want that domain wait for it or back off. *)

RetrievalSpec == RetrievalInit /\ [][RetrievalNext]_retrieval

Asked == [pc : {"waiting", "sending"}, domain : Domain, hop : Nat, attempt : Nat]
Outcome == {"cooldown", "unavailable", "redirects", "page", "refused"}
GetType == [pc : {"idle"}] \cup Asked \cup [pc : {"ended"}, how : Outcome]

RetrievalTypeOK ==
    /\ moment \in Nat
    /\ get \in [Caller -> GetType]
    /\ lock \in [Domain -> SUBSET Caller]
    /\ cooldown \in [Domain -> Nat]

(* A request is sent by the one caller that holds the lock of its domain,    *)
(* and the cooldown cannot begin while another one does.                     *)
SenderAlone ==
    \A c \in Caller : get[c].pc = "sending" =>
        /\ lock[get[c].domain] = {c}
        /\ cooldown[get[c].domain] <= moment

RetrievalInv == RetrievalTypeOK /\ SenderAlone

LEMMA RetrievalInitInv == RetrievalInit => RetrievalInv
  BY DEF RetrievalInit, RetrievalInv, RetrievalTypeOK, SenderAlone, NotAsked, GetType, Outcome

LEMMA AskedOf ==
    ASSUME RetrievalTypeOK, NEW c \in Caller, Underway(c)
    PROVE  get[c] \in Asked
  BY DEF RetrievalTypeOK, GetType, Asked, Underway

LEMMA AskKeeps ==
    ASSUME RetrievalInv, NEW c \in Caller, NEW d \in Domain, Ask(c, d)
    PROVE  RetrievalInv'
  <1> DEFINE x == [pc |-> "waiting", domain |-> d, hop |-> 1, attempt |-> 1]
  <1>1. x \in GetType /\ x.pc # "sending"
    BY DEF GetType, Asked
  <1>2. get' = [get EXCEPT ![c] = x] /\ UNCHANGED <<moment, lock, cooldown>>
    BY DEF Ask
  <1> HIDE DEF x
  <1> QED BY <1>1, <1>2 DEF RetrievalInv, RetrievalTypeOK, SenderAlone

\* a get that gives its lock back and sends nothing more
LEMMA LeavesKeeps ==
    ASSUME RetrievalInv, NEW c \in Caller, get[c].pc = "sending",
           NEW x \in GetType, x.pc # "sending", get' = [get EXCEPT ![c] = x], lock' = Freed(c),
           UNCHANGED moment,
           NEW until \in Nat,
           cooldown' \in {cooldown, [cooldown EXCEPT ![get[c].domain] = until]}
    PROVE  RetrievalInv'
  <1>1. get[c] \in Asked
    BY AskedOf DEF RetrievalInv, Underway
  <1>2. RetrievalTypeOK'
    BY <1>1 DEF RetrievalInv, RetrievalTypeOK, Freed, Asked
  <1>3. ASSUME NEW q \in Caller, get'[q].pc = "sending"
        PROVE  lock'[get'[q].domain] = {q} /\ cooldown'[get'[q].domain] <= moment'
    <2>1. q # c /\ get'[q] = get[q]
      BY <1>3 DEF RetrievalInv, RetrievalTypeOK
    <2>2. get[q] \in Asked
      BY <1>3, <2>1, AskedOf DEF RetrievalInv, Underway
    <2>3. get[q].domain # get[c].domain
      BY <1>3, <2>1 DEF RetrievalInv, SenderAlone
    <2> QED BY <1>1, <1>3, <2>1, <2>2, <2>3
            DEF RetrievalInv, RetrievalTypeOK, SenderAlone, Freed, Asked
  <1> QED BY <1>2, <1>3 DEF RetrievalInv, SenderAlone

LEMMA ObtainKeeps ==
    ASSUME RetrievalInv, NEW c \in Caller, Obtain(c)
    PROVE  RetrievalInv'
  <1>1. get[c] \in Asked /\ get[c].pc = "waiting" /\ lock[get[c].domain] = {}
    BY AskedOf DEF RetrievalInv, Underway, Obtain
  <1>2. CASE Ended(c, "cooldown") /\ UNCHANGED lock
    <2>1. get' = [get EXCEPT ![c] = [pc |-> "ended", how |-> "cooldown"]]
      BY <1>2 DEF Ended
    <2>2. [pc |-> "ended", how |-> "cooldown"] \in GetType
      BY DEF GetType, Outcome
    <2> QED BY <1>2, <2>1, <2>2 DEF RetrievalInv, RetrievalTypeOK, SenderAlone, Obtain
  <1>3. CASE /\ ~Cooling(get[c].domain)
             /\ lock' = [lock EXCEPT ![get[c].domain] = {c}]
             /\ get' = [get EXCEPT ![c].pc = "sending", ![c].attempt = 1]
    <2>1. PICK x \in Asked : x.pc = "sending" /\ x.domain = get[c].domain /\ get' = [get EXCEPT ![c] = x]
      <3> DEFINE x == [get[c] EXCEPT !.pc = "sending", !.attempt = 1]
      <3>1. x \in Asked /\ x.pc = "sending" /\ x.domain = get[c].domain
        BY <1>1 DEF Asked
      <3>2. get' = [get EXCEPT ![c] = x]
        BY <1>3 DEF RetrievalInv, RetrievalTypeOK
      <3> QED BY <3>1, <3>2
    <2>2. UNCHANGED <<moment, cooldown>>
      BY DEF Obtain
    <2>3. RetrievalTypeOK'
      <3>1. x \in GetType /\ get[c].domain \in Domain
        BY <1>1, <2>1 DEF GetType, Asked
      <3> QED BY <1>3, <2>1, <2>2, <3>1 DEF RetrievalInv, RetrievalTypeOK
    <2>4. ASSUME NEW q \in Caller, get'[q].pc = "sending"
          PROVE  lock'[get'[q].domain] = {q} /\ cooldown'[get'[q].domain] <= moment'
      <3>1. CASE q = c
        BY <1>1, <1>3, <2>1, <2>2, <3>1 DEF RetrievalInv, RetrievalTypeOK, Cooling, Asked
      <3>2. CASE q # c
        <4>1. get'[q] = get[q] /\ get[q] \in Asked
          BY <2>1, <2>4, <3>2, AskedOf DEF RetrievalInv, RetrievalTypeOK, Underway
        <4>2. get[q].domain # get[c].domain
          BY <1>1, <2>4, <4>1 DEF RetrievalInv, SenderAlone
        <4> QED BY <1>1, <1>3, <2>2, <2>4, <4>1, <4>2
                DEF RetrievalInv, RetrievalTypeOK, SenderAlone, Asked
      <3> QED BY <3>1, <3>2
    <2> QED BY <2>3, <2>4 DEF RetrievalInv, SenderAlone
  <1> QED BY <1>2, <1>3 DEF Obtain

LEMMA SendingKeeps ==
    ASSUME RetrievalInv, NEW c \in Caller,
           ToldToWait(c) \/ TryAgain(c) \/ Settled(c) \/ \E d \in Domain : Redirected(c, d)
    PROVE  RetrievalInv'
  <1>1. get[c] \in Asked /\ get[c].pc = "sending"
    BY AskedOf DEF RetrievalInv, Underway, ToldToWait, TryAgain, Settled, Redirected
  <1>2. ASSUME NEW how \in Outcome
        PROVE  [pc |-> "ended", how |-> how] \in GetType /\ [pc |-> "ended", how |-> how].pc # "sending"
    BY DEF GetType
  <1>7. ASSUME NEW how \in Outcome, Ended(c, how), lock' = Freed(c), UNCHANGED moment,
               NEW until \in Nat,
               cooldown' \in {cooldown, [cooldown EXCEPT ![get[c].domain] = until]}
        PROVE  RetrievalInv'
    <2> DEFINE x == [pc |-> "ended", how |-> how]
    <2>1. x \in GetType /\ x.pc # "sending" /\ get' = [get EXCEPT ![c] = x]
      BY <1>2, <1>7 DEF Ended
    <2> HIDE DEF x
    <2> QED BY <1>1, <1>7, <2>1, LeavesKeeps
  <1>3. CASE ToldToWait(c)
    <2>1. moment + CooldownTime \in Nat
      BY RetrievalAssumption DEF RetrievalInv, RetrievalTypeOK
    <2> QED BY <1>3, <1>7, <2>1 DEF ToldToWait, Outcome
  <1>4. CASE TryAgain(c)
    <2>1. CASE get[c].attempt < MaxAttempts
      <3>1. PICK x \in Asked : x.pc = get[c].pc /\ x.domain = get[c].domain /\ get' = [get EXCEPT ![c] = x]
        <4> DEFINE x == [get[c] EXCEPT !.attempt = @ + 1]
        <4>1. x \in Asked /\ x.pc = get[c].pc /\ x.domain = get[c].domain
          BY <1>1 DEF Asked
        <4>2. get' = [get EXCEPT ![c] = x]
          BY <1>4, <2>1 DEF TryAgain, RetrievalInv, RetrievalTypeOK
        <4> QED BY <4>1, <4>2
      <3>2. UNCHANGED <<moment, lock, cooldown>>
        BY <1>4, <2>1 DEF TryAgain
      <3> QED BY <3>1, <3>2 DEF RetrievalInv, RetrievalTypeOK, SenderAlone, GetType
    <2>2. CASE ~(get[c].attempt < MaxAttempts)
      BY <1>4, <1>7, <2>2 DEF TryAgain, RetrievalInv, RetrievalTypeOK, Outcome
    <2> QED BY <2>1, <2>2
  <1>5. CASE Settled(c)
    BY <1>5, <1>7 DEF Settled, RetrievalInv, RetrievalTypeOK, Outcome
  <1>6. ASSUME NEW d \in Domain, Redirected(c, d) PROVE RetrievalInv'
    <2>1. \E x \in GetType : x.pc # "sending" /\ get' = [get EXCEPT ![c] = x]
      <3>1. CASE get[c].hop = MaxHops
        BY <1>2, <1>6, <3>1 DEF Redirected, Ended, Outcome
      <3>2. CASE get[c].hop # MaxHops
        <4> DEFINE x == [pc |-> "waiting", domain |-> d, hop |-> get[c].hop + 1, attempt |-> 1]
        <4>1. x \in GetType /\ x.pc # "sending"
          BY <1>1 DEF GetType, Asked
        <4>2. get' = [get EXCEPT ![c] = x]
          BY <1>6, <3>2 DEF Redirected, RetrievalInv, RetrievalTypeOK
        <4> QED BY <4>1, <4>2
      <3> QED BY <3>1, <3>2
    <2> QED BY <1>1, <1>6, <2>1, LeavesKeeps DEF Redirected, AfterRedirect, RetrievalInv, RetrievalTypeOK
  <1> QED BY <1>3, <1>4, <1>5, <1>6

LEMMA MomentKeeps == RetrievalInv /\ Moment => RetrievalInv'
  <1> SUFFICES ASSUME RetrievalInv, Moment PROVE RetrievalInv'
    OBVIOUS
  <1>1. RetrievalTypeOK'
    BY DEF RetrievalInv, RetrievalTypeOK, Moment
  <1>2. ASSUME NEW c \in Caller, get'[c].pc = "sending"
        PROVE  lock'[get'[c].domain] = {c} /\ cooldown'[get'[c].domain] <= moment'
    <2>1. get[c] \in Asked
      BY <1>2, AskedOf DEF RetrievalInv, Underway, Moment
    <2> QED BY <1>2, <2>1 DEF RetrievalInv, RetrievalTypeOK, SenderAlone, Moment, Asked
  <1> QED BY <1>1, <1>2 DEF RetrievalInv, SenderAlone

(* retrieval.py: however gets queue for a domain, are redirected to another  *)
(* and try again, one at a time asks a domain, and none asks a domain before *)
(* the wait it told the crawler is over.                                     *)
THEOREM RetrievalIsPolite == RetrievalSpec => []Polite
  <1>1. RetrievalInv /\ UNCHANGED retrieval => RetrievalInv'
    BY DEF RetrievalInv, RetrievalTypeOK, SenderAlone, retrieval
  <1>2. RetrievalInv /\ [RetrievalNext]_retrieval => RetrievalInv'
    BY <1>1, AskKeeps, ObtainKeeps, SendingKeeps, MomentKeeps DEF RetrievalNext, RetrievalStep
  <1>3. RetrievalInv => Polite
    BY DEF RetrievalInv, SenderAlone, Polite
  <1> QED BY RetrievalInitInv, <1>2, <1>3, PTL DEF RetrievalSpec
=============================================================================
