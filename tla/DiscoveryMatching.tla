-------------------------- MODULE DiscoveryMatching --------------------------
(***************************************************************************)
(* From committed discoveries to alerts and daily recaps: match_events and *)
(* make_recaps of app/notifications/worker.py with the preference changes  *)
(* of app/notifications/api.py.                                            *)
(*                                                                         *)
(* Matching, recaps and preference changes hold core.lock and are atomic.  *)
(* Ingestion does not: a discovery commits at any time, with the time its  *)
(* source was observed as discovered_at.  NULL times are 0, the clock      *)
(* starts at 1.                                                            *)
(***************************************************************************)
EXTENDS Integers, FiniteSets

CONSTANTS
    User, Occurrence,
    Topic,          \* the job type and season pairs users select
    TopicOf,        \* [Occurrence -> Topic]
    Zone,           \* time zones ...
    CutoffOf,       \* ... and the time of day of their recap cutoff
    FirstZone,
    DayLength,
    Lags,           \* delays between observing a posting and committing it
    BatchSize,      \* LIMIT of match_events
    Horizon,        \* last value of the clock
    TopicChoices,   \* the topic sets users choose from
    Preferences     \* the <<alerts, recap>> pairs users choose from

ASSUME TopicAssumption == TopicOf \in [Occurrence -> Topic]
                          /\ TopicChoices \subseteq SUBSET Topic
                          /\ Preferences \subseteq BOOLEAN \X BOOLEAN
ASSUME ZoneAssumption == /\ DayLength \in Nat \ {0} /\ FirstZone \in Zone
                         /\ CutoffOf \in [Zone -> 0 .. DayLength - 1]
ASSUME BoundAssumption == Lags \subseteq Nat /\ BatchSize \in Nat \ {0} /\ Horizon \in Nat

VARIABLES
    now,
    event,      \* [Occurrence -> row of notification_events]
    open,       \* occurrences not closed
    usr,        \* [User -> preferences]
    match,      \* notification_matches
    alert,      \* [User \X Occurrence -> state of that alert delivery]
    recaps,     \* [User -> recap deliveries]
    \* history
    wanted,     \* <<user, occurrence>> the preferences admitted at its commit
    late        \* <<user, occurrence>> committed behind the user's recap window

vars == <<now, event, open, usr, match, alert, recaps, wanted, late>>

AlertStates == {"none", "unsent", "attempted", "gone", "recap_only"}
UserType == [reachable : BOOLEAN, alerts : BOOLEAN, recap : BOOLEAN, topics : SUBSET Topic,
             zone : Zone, opted : Nat, start : Nat, next : Nat, enrolled : Nat]
RecapType == [key : Nat, end : Nat, occs : SUBSET Occurrence,
              status : {"unsent", "attempted", "gone"}]

(* Every variable holds the rows its table may hold.                         *)
TypeOK ==
    /\ now \in Nat
    /\ event \in [Occurrence -> [state : {"absent", "new", "processed"}, at : Nat]]
    /\ open \subseteq Occurrence
    /\ usr \in [User -> UserType]
    /\ match \subseteq [user : User, occ : Occurrence, at : Nat]
    /\ alert \in [User \X Occurrence -> AlertStates]
    /\ \A u \in User : recaps[u] \subseteq RecapType
    /\ wanted \subseteq User \X Occurrence
    /\ late \subseteq User \X Occurrence

Init ==
    /\ now = 1
    /\ event = [o \in Occurrence |-> [state |-> "absent", at |-> 0]]
    /\ open = Occurrence
    /\ usr = [u \in User |-> [reachable |-> TRUE, alerts |-> FALSE, recap |-> FALSE,
                              topics |-> Topic, zone |-> FirstZone, opted |-> 0, start |-> 0,
                              next |-> 0, enrolled |-> 0]]
    /\ match = {}
    /\ alert = [p \in User \X Occurrence |-> "none"]
    /\ recaps = [u \in User |-> {}]
    /\ wanted = {}
    /\ late = {}

\* the first cutoff strictly after t: 8 PM in the zone
NextCutoff(t, zone) ==
    LET today == t - (t % DayLength) + CutoffOf[zone]
    IN  IF today <= t THEN today + DayLength ELSE today

-----------------------------------------------------------------------------
(* Ingestion and the sender, as this component sees them.                    *)

Admits(u, o, at) ==
    /\ usr[u].alerts \/ usr[u].recap
    /\ usr[u].opted # 0 /\ at >= usr[u].opted
    /\ TopicOf[o] \in usr[u].topics

Discover(o) ==
    /\ event[o].state = "absent"
    /\ \E lag \in Lags :
        LET at == now - lag IN
        /\ at > 0
        /\ event' = [event EXCEPT ![o] = [state |-> "new", at |-> at]]
        /\ wanted' = wanted \cup ({u \in User : Admits(u, o, at)} \X {o})
        /\ late' = late \cup ({u \in User : at < usr[u].start} \X {o})
    /\ UNCHANGED <<now, open, usr, match, alert, recaps>>

Close(o) ==
    /\ open' = open \ {o}
    /\ o \in open
    /\ UNCHANGED <<now, event, usr, match, alert, recaps, wanted, late>>

\* the first attempt, cancellation or expiry of a delivery
SendAlert(u, o) ==
    /\ \E s \in {"attempted", "gone"} :
          /\ alert[<<u, o>>] = "unsent" \/ (alert[<<u, o>>] = "attempted" /\ s = "gone")
          /\ alert' = [alert EXCEPT ![<<u, o>>] = s]
    /\ UNCHANGED <<now, event, open, usr, match, recaps, wanted, late>>

SendRecap(u, r) ==
    /\ r.status # "gone"
    /\ \E s \in {"attempted", "gone"} \ {r.status} :
          recaps' = [recaps EXCEPT ![u] = (@ \ {r}) \cup {[r EXCEPT !.status = s]}]
    /\ UNCHANGED <<now, event, open, usr, match, alert, wanted, late>>

\* verification lost or regained, suppression
ReachChanges(u) ==
    /\ usr' = [usr EXCEPT ![u].reachable = ~@]
    /\ UNCHANGED <<now, event, open, match, alert, recaps, wanted, late>>

-----------------------------------------------------------------------------
(* match_events(): a batch of unprocessed events against every subscriber.   *)

Unprocessed == {o \in Occurrence : event[o].state = "new"}

MatchPairs(batch) ==
    {p \in User \X batch :
        /\ usr[p[1]].reachable /\ Admits(p[1], p[2], event[p[2]].at)
        /\ \A m \in match : <<m.user, m.occ>> # p}

MatchesWith(batch) ==
    match \cup {[user |-> p[1], occ |-> p[2], at |-> event[p[2]].at] : p \in MatchPairs(batch)}

AlertsWith(batch) ==
    [p \in User \X Occurrence |->
        IF p \in MatchPairs(batch) /\ usr[p[1]].alerts /\ p[2] \in open THEN "unsent" ELSE alert[p]]

Processed(batch) ==
    [o \in Occurrence |-> IF o \in batch THEN [event[o] EXCEPT !.state = "processed"] ELSE event[o]]

\* the oldest BatchSize events, ties in any order
Batches ==
    {b \in SUBSET Unprocessed :
        /\ Cardinality(b) <= BatchSize
        /\ Cardinality(b) < BatchSize => b = Unprocessed
        /\ \A o \in b, x \in Unprocessed \ b : event[o].at <= event[x].at}

MatchEvents ==
    /\ \E batch \in Batches \ {{}} :
        /\ event' = Processed(batch)
        /\ match' = MatchesWith(batch)
        /\ alert' = AlertsWith(batch)
    /\ UNCHANGED <<now, open, usr, recaps, wanted, late>>

-----------------------------------------------------------------------------
(* make_recaps(): nothing while a discovery is unprocessed, else one recap   *)
(* per due user, spanning every cutoff missed meanwhile.                     *)

Due_WithMatches(u) ==    \* mutant: an empty window is not closed
    /\ usr[u].recap /\ usr[u].reachable /\ usr[u].next <= now
    /\ \E m \in match : m.user = u /\ m.at >= usr[u].start
Due(u) == usr[u].recap /\ usr[u].reachable /\ usr[u].next <= now

\* next_recap advanced through the cutoffs already past
WindowEnd(u) ==
    CHOOSE t \in usr[u].next .. now :
        /\ t = usr[u].next \/ NextCutoff(t - 1, usr[u].zone) = t
        /\ NextCutoff(t, usr[u].zone) > now

WindowMatches_Closed(u) ==      \* mutant: both ends of the window included
    {m \in match : m.user = u /\ m.at >= usr[u].start /\ m.at <= WindowEnd(u)}

WindowMatches(u) ==
    {m \in match : m.user = u /\ m.at >= usr[u].start /\ m.at < WindowEnd(u)}

WindowOccs(u) == {m.occ : m \in WindowMatches(u)}

Unsent(u) == {r \in recaps[u] : r.status = "unsent"}

RecapKey(u) == WindowEnd(u)

\* a recap still unsent takes the new window; otherwise a recap of its own
WithRecap(u) ==
    IF Unsent(u) = {}
      THEN recaps[u] \cup {[key |-> RecapKey(u), end |-> WindowEnd(u),
                            occs |-> WindowOccs(u), status |-> "unsent"]}
      ELSE {IF r \in Unsent(u) THEN [r EXCEPT !.end = WindowEnd(u), !.occs = @ \cup WindowOccs(u)]
                               ELSE r : r \in recaps[u]}

Stale(u, o) == alert[<<u, o>>] = "unsent" /\ o \in WindowOccs(u)

MakeRecaps ==
    LET due == {u \in User : Due(u)}
        mailed == {u \in due : WindowMatches(u) # {}}
    IN
    /\ Unprocessed = {} /\ due # {}
    /\ recaps' = [u \in User |-> IF u \in mailed THEN WithRecap(u) ELSE recaps[u]]
    /\ alert' = [p \in User \X Occurrence |->
                    IF p[1] \in mailed /\ Stale(p[1], p[2]) THEN "recap_only" ELSE alert[p]]
    /\ usr' = [u \in User |->
                 IF u \in due
                   THEN [usr[u] EXCEPT !.start = WindowEnd(u),
                                       !.next = NextCutoff(WindowEnd(u), usr[u].zone)]
                   ELSE usr[u]]
    /\ UNCHANGED <<now, event, open, match, wanted, late>>

-----------------------------------------------------------------------------
(* Preferences: put_settings() first matches every committed discovery with  *)
(* the old preferences.                                                      *)

CancelledAlerts(rows, u) ==
    [p \in User \X Occurrence |->
        IF p[1] = u /\ rows[p] = "unsent" THEN "gone" ELSE rows[p]]

CancelledRecaps(u) ==
    {IF r.status = "unsent" THEN [r EXCEPT !.status = "gone"] ELSE r : r \in recaps[u]}

Backlog_Skipped == {}     \* mutant
Backlog == Unprocessed

PutSettings(u, alerts, recap, topics, zone) ==
    LET old == usr[u]
        starting == (alerts \/ recap) /\ ~(old.alerts \/ old.recap)
        enrolling == recap /\ ~old.recap
        rezoning == recap /\ ~enrolling /\ zone # old.zone
    IN
    /\ (alerts \/ recap) => old.reachable
    /\ event' = Processed(Backlog)
    /\ match' = MatchesWith(Backlog)
    /\ alert' = IF alerts THEN AlertsWith(Backlog) ELSE CancelledAlerts(AlertsWith(Backlog), u)
    /\ recaps' = IF recap THEN recaps ELSE [recaps EXCEPT ![u] = CancelledRecaps(u)]
    /\ usr' = [usr EXCEPT ![u] =
                 [old EXCEPT !.alerts = alerts, !.recap = recap, !.topics = topics, !.zone = zone,
                             !.opted = IF starting THEN now ELSE old.opted,
                             !.start = IF enrolling THEN now ELSE old.start,
                             !.enrolled = IF enrolling THEN now ELSE old.enrolled,
                             !.next = IF ~recap THEN 0
                                      ELSE IF enrolling \/ rezoning THEN NextCutoff(now, zone)
                                      ELSE old.next]]
    /\ UNCHANGED <<now, open, wanted, late>>

\* also delete_provider and a changed address, as far as preferences go
Unsubscribe(u) ==
    /\ usr' = [usr EXCEPT ![u] = [@ EXCEPT !.alerts = FALSE, !.recap = FALSE, !.next = 0]]
    /\ alert' = CancelledAlerts(alert, u)
    /\ recaps' = [recaps EXCEPT ![u] = CancelledRecaps(u)]
    /\ UNCHANGED <<now, event, open, match, wanted, late>>

Tick == /\ now' = IF now < Horizon THEN now + 1 ELSE now
        /\ UNCHANGED <<event, open, usr, match, alert, recaps, wanted, late>>

Next ==
    \/ MatchEvents \/ MakeRecaps \/ Tick
    \/ \E o \in Occurrence : Discover(o) \/ Close(o)
    \/ \E u \in User :
          \/ Unsubscribe(u) \/ ReachChanges(u)
          \/ \E p \in Preferences, topics \in TopicChoices, zone \in Zone :
                PutSettings(u, p[1], p[2], topics, zone)
          \/ \E o \in Occurrence : SendAlert(u, o)
          \/ \E r \in recaps[u] : SendRecap(u, r)

Spec == Init /\ [][Next]_vars

\* the worker's 15-second tick runs prepare() again and again
LiveSpec == Spec /\ WF_vars(MatchEvents) /\ WF_vars(MakeRecaps)

-----------------------------------------------------------------------------
(* Properties                                                                *)

(* A discovery is listed in at most one daily recap of a subscriber, however *)
(* windows are merged, skipped, restarted or moved to another time zone.     *)
OneRecapEach == \A u \in User : \A r, q \in recaps[u] : r # q => r.occs \cap q.occs = {}

(* make_recaps() never reuses a dedupe key, whose unique constraint would    *)
(* roll back every later prepare().                                          *)
RecapKeysUnique == \A u \in User : \A r, q \in recaps[u] : r.key = q.key => r = q

(* An alert is dropped in favour of a recap only if a recap lists it.        *)
FoldedIsListed == \A u \in User, o \in Occurrence :
    alert[<<u, o>>] = "recap_only" => \E r \in recaps[u] : o \in r.occs

Missed(u) == {m \in match : /\ m.user = u /\ usr[u].recap
                            /\ usr[u].enrolled <= m.at /\ m.at < usr[u].start
                            /\ \A r \in recaps[u] : m.occ \notin r.occs}

(* A closed recap window listed every match discovered in it, except those   *)
(* whose ingestion committed after the window was closed.                    *)
WindowComplete == \A u \in User : \A m \in Missed(u) : <<u, m.occ>> \in late

(* put_settings(): a discovery matches under the preferences in force when   *)
(* it was committed, not under ones saved before it was processed.           *)
MatchedAsCommitted == \A m \in match : <<m.user, m.occ>> \in wanted

(* match_events() gets to every committed discovery, in batches.             *)
EventsAreProcessed == \A o \in Occurrence : event[o].state = "new" ~> event[o].state = "processed"

(* A due recap window is closed, whether or not it holds matches, unless the *)
(* subscriber opts out or cannot be mailed.                                  *)
WindowsClose == \A u \in User :
    (usr[u].recap /\ usr[u].next <= now) ~> (~usr[u].recap \/ ~usr[u].reachable \/ usr[u].next > now)

(* The recaps of make_recaps(): typed rows, no match twice, no key twice,    *)
(* and no alert folded into a recap that does not list it.                   *)
RecapsAreApart ==
    /\ TypeOK
    /\ OneRecapEach
    /\ RecapKeysUnique
    /\ FoldedIsListed

(* From the commit of a discovery to the recap: the preferences of that      *)
(* moment decide whether it matches, and a match is listed.                  *)
NothingMissed == WindowComplete /\ MatchedAsCommitted

(* The tick of the worker gets through its events and then its windows.      *)
BacklogDrains == EventsAreProcessed /\ WindowsClose
=============================================================================
