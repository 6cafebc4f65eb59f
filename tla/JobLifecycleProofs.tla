------------------------- MODULE JobLifecycleProofs -------------------------
(***************************************************************************)
(* What JobLifecycle guarantees for every number of overlapping passes and *)
(* every set of observations, links and identities.                        *)
(***************************************************************************)
EXTENDS JobLifecycle, TLAPS

Rows == [post : StoredType, occs : Seq(OccurrenceType), log : Seq(LogType)]

\* RecordsAgree, said of any version of the rows
Story(d) ==
    /\ d \in Rows
    /\ d.occs # <<>> => d.post.exists /\ d.post.closed = Last(d.occs).closed
    /\ d.occs = <<>> => d.log = <<>>
    /\ d.log # <<>> => Last(d.log).to = State(d.post.closed)
    /\ \A i \in 2 .. Len(d.log) : d.log[i].from = d.log[i - 1].to
    /\ \A i \in 1 .. Len(d.occs) : /\ d.occs[i].kind = "discovered" <=> i = 1
                                   /\ i > 1 => d.occs[i].event
    /\ \A i \in 2 .. Len(d.occs) : IsNewer(d.occs[i], d.occs[i - 1])

\* what a transaction may do to the occurrences it found
Grows(d, e) ==
    /\ Len(e.occs) >= Len(d.occs)
    /\ \A i \in 1 .. Len(d.occs) :
          /\ i < Len(d.occs) => e.occs[i] = d.occs[i]
          /\ [e.occs[i] EXCEPT !.closed = d.occs[i].closed, !.observed = d.occs[i].observed]
                = d.occs[i]

\* the last occurrence is reopened by one of its identities only
Founded(d, e, t) ==
    LET n == Len(d.occs) IN
    n > 0 /\ d.occs[n].closed /\ ~e.occs[n].closed /\ t.decision # "discover" =>
        CandidateIdentity(t.obs, t.url) \in Identities(d.occs[n])

PassOK(p) ==
    LET t == pass[p] IN
    /\ t.pc \in {"idle", "looked", "classified", "locked", "written", "refreshed"}
    /\ t.pc # "idle" => t.obs \in Observation /\ t.url \in Url
    /\ t.pc = "looked" => t.projected \in Url \X BOOLEAN
    /\ t.pc = "locked" => /\ t.old \in StoredType
                          /\ t.old.exists => owner = p /\ t.old = db.post /\ t.evidence = db.occs
    /\ t.pc \in {"looked", "classified"} =>
          DOMAIN t = {"pc", "obs", "url", "projected", "loaded"}
    /\ t.pc \in {"written", "refreshed"} =>
          /\ DOMAIN t = {"pc", "obs", "url", "draft", "decision"}
          /\ owner = p /\ t.draft.occs # <<>>
          /\ Story(t.draft) /\ Grows(db, t.draft) /\ Founded(db, t.draft, t)

\* who may still write to Redis before it is said to agree with SQL
CacheOK ==
    behind = {} /\ cache # <<>> =>
        \/ \E p \in Pass : pass[p].pc \in {"classified", "locked", "written"}
        \/ \E p \in Pass : pass[p].pc = "refreshed" /\ cache = Hash(pass[p].draft.post)
        \/ cache = Hash(db.post) /\ \A p \in Pass : pass[p].pc # "refreshed"

LifecycleInv ==
    /\ Story(db)
    /\ owner \in Pass \cup {"nobody"}
    /\ cache \in {<<>>} \cup (Url \X BOOLEAN)
    /\ runs \in 0 .. MaxRuns
    /\ behind \subseteq {"rollback", "simplify"}
    /\ pass = [p \in Pass |-> pass[p]]
    /\ \A p \in Pass : PassOK(p)
    /\ CacheOK

-----------------------------------------------------------------------------
(* Rows.                                                                     *)

LEMMA StoryTyped ==
    ASSUME NEW d, Story(d)
    PROVE  /\ d.post \in StoredType /\ d.occs \in Seq(OccurrenceType) /\ d.log \in Seq(LogType)
           /\ DbOk(d)
  BY DEF Story, Rows, DbOk

\* an occurrence that was recorded once, with other observations or closed otherwise
Alike(y, x) == /\ y \in OccurrenceType /\ x \in OccurrenceType
               /\ y.kind = x.kind /\ y.url = x.url /\ y.date = x.date /\ y.id = x.id
               /\ y.event = x.event

LEMMA AlikeRestored ==
    ASSUME NEW x, NEW y, Alike(y, x)
    PROVE  [y EXCEPT !.closed = x.closed, !.observed = x.observed] = x
  BY DEF Alike, OccurrenceType

LEMMA AlikeNewer ==
    ASSUME NEW x, NEW y, NEW old, Alike(y, x), IsNewer(x, old)
    PROVE  IsNewer(y, old)
  BY DEF Alike, IsNewer, OccurrenceIdentity

-----------------------------------------------------------------------------
(* The transaction of one pass.                                              *)

\* a pass at its upsert: the row it locked, if there was one, is still the row
Ready(t) ==
    /\ t.obs \in Observation /\ t.url \in Url /\ t.old \in StoredType
    /\ t.old.exists => t.old = db.post /\ t.evidence = db.occs

LEMMA DecisionOf ==
    ASSUME NEW t
    PROVE  /\ Decision(t) = "discover" <=> ~t.old.exists
           /\ Decision(t) \in {"repost", "ambiguous", "reopen"} =>
                 t.old.exists /\ t.old.closed /\ ~t.obs.closed
           /\ Decision(t) = "repost" =>
                 IsRepost(t.obs, t.url, t.old, Last(t.evidence))
           /\ t.old.exists /\ t.old.closed /\ ~t.obs.closed =>
                 \/ Decision(t) \in {"ambiguous", "repost"}
                 \/ Known(CandidateIdentity(t.obs, t.url), Last(t.evidence))
           /\ Decision(t) = "repost" =>
                 ~Known(CandidateIdentity(t.obs, t.url), Last(t.evidence))
  BY DEF Decision, Decide

LEMMA DatesAreNaturals == \A x \in Date \cup {0} : x \in Nat
  <1>1. Date \subseteq Nat
    BY ObservationAssumption
  <1>2. \A x \in Date : x \in Nat
    BY <1>1
  <1>3. 0 \in Nat
    OBVIOUS
  <1> QED BY <1>2, <1>3

LEMMA ObservationFields ==
    ASSUME NEW o \in Observation
    PROVE  /\ o.source \in Sources /\ o.row \in Nat /\ o.url \in Url /\ o.closed \in BOOLEAN
           /\ o.date \in Date \cup {0} /\ o.own \in Identity \cup {NoIdentity}
           /\ RawIdentity(o) \in Identity \cup {NoIdentity}
           /\ o.date \in Nat
  <1>1. /\ o.source \in Sources /\ o.row \in Nat /\ o.url \in Url /\ o.closed \in BOOLEAN
        /\ o.date \in Date \cup {0} /\ o.own \in Identity \cup {NoIdentity}
    <2>1. o \in [source : Sources, row : Nat, url : Url, closed : BOOLEAN,
                 date : Date \cup {0}, own : Identity \cup {NoIdentity}]
      BY ObservationAssumption
    <2> QED BY <2>1
  <1>2. o.date \in Nat
    BY <1>1, DatesAreNaturals, Zenon
  <1>3. UrlIdentity[o.url] \in Identity \cup {NoIdentity}
    BY <1>1, IdentityAssumption
  <1> QED BY <1>1, <1>2, <1>3 DEF RawIdentity

LEMMA PostingFields ==
    ASSUME NEW post \in StoredType
    PROVE  /\ post.date \in Date \cup {0} /\ post.date \in Nat
           /\ post.exists => post.url \in Url /\ post.closed \in BOOLEAN
  <1>1. CASE post = NoPosting
    BY <1>1 DEF NoPosting
  <1>2. CASE post \in [exists : {TRUE}, closed : BOOLEAN, url : Url, date : Date \cup {0}]
    <2>1. post.date \in Date \cup {0} /\ post.url \in Url /\ post.closed \in BOOLEAN
      BY <1>2
    <2> QED BY <2>1, DatesAreNaturals, Zenon
  <1> QED BY <1>1, <1>2 DEF StoredType

LEMMA UpsertedPost ==
    ASSUME Story(db), NEW t, Ready(t)
    PROVE  /\ Upserted(t) \in StoredType /\ Upserted(t).exists
           /\ Upserted(t).closed \in BOOLEAN
           /\ Upserted(t).closed <=> Decision(t) = "ambiguous" \/ t.obs.closed
           /\ Upserted(t).url \in Url
  <1> DEFINE d == Decision(t)
             url == CASE d \in {"discover", "repost"} -> t.url
                      [] d = "ambiguous" -> t.old.url
                      [] OTHER -> Choose(t.old.url, t.url)
             date == IF d = "repost" THEN t.obs.date ELSE Earliest(db.post.date, t.obs.date)
             closed == d = "ambiguous" \/ t.obs.closed
  <1>1. d # "discover" => t.old.exists /\ t.old.url \in Url
    BY DecisionOf, PostingFields DEF Ready
  <1>2. url \in Url
    BY <1>1 DEF Choose, Ready
  <1>3. date \in Date \cup {0}
    <2>1. db.post.date \in Date \cup {0} /\ t.obs.date \in Date \cup {0}
      BY StoryTyped, ObservationFields, PostingFields DEF Ready
    <2> QED BY <2>1 DEF Earliest
  <1>4. closed \in BOOLEAN
    BY ObservationFields DEF Ready
  <1>5. Upserted(t) = [exists |-> TRUE, closed |-> closed, url |-> url, date |-> date]
    BY DEF Upserted
  <1> HIDE DEF url, date, closed
  <1>6. Upserted(t) \in [exists : {TRUE}, closed : BOOLEAN, url : Url, date : Date \cup {0}]
    BY <1>2, <1>3, <1>4, <1>5
  <1>7. /\ Upserted(t).exists /\ Upserted(t).closed = closed /\ Upserted(t).url = url
    BY <1>5
  <1>8. closed <=> Decision(t) = "ambiguous" \/ t.obs.closed
    BY DEF closed
  <1> QED BY <1>2, <1>4, <1>6, <1>7, <1>8 DEF StoredType

\* the occurrence a pass may add
Added(t, kind, event) ==
    [kind |-> kind, url |-> IF Decision(t) = "ambiguous" THEN t.old.url ELSE t.url,
     date |-> t.obs.date, id |-> RawIdentity(t.obs), closed |-> Upserted(t).closed,
     event |-> event, observed |-> {}]

LEMMA AddedType ==
    ASSUME Story(db), NEW t, Ready(t), NEW kind \in {"discovered", "reposted"},
           NEW event \in BOOLEAN
    PROVE  Added(t, kind, event) \in OccurrenceType
  <1>1. Decision(t) = "ambiguous" => t.old.url \in Url
    BY DecisionOf, PostingFields DEF Ready
  <1>2. (IF Decision(t) = "ambiguous" THEN t.old.url ELSE t.url) \in Url
    BY <1>1 DEF Ready
  <1>3. /\ t.obs.date \in Date \cup {0} /\ RawIdentity(t.obs) \in Identity \cup {NoIdentity}
        /\ Upserted(t).closed \in BOOLEAN
    BY ObservationFields, UpsertedPost DEF Ready
  <1> QED BY <1>2, <1>3 DEF Added, OccurrenceType

\* a confirmed repost is news about the occurrence it supersedes
LEMMA RepostIsNewer ==
    ASSUME Story(db), NEW t, Ready(t), Reposted(t), NEW kind, NEW event
    PROVE  IsNewer(Added(t, kind, event), Last(db.occs))
  <1> DEFINE new == Added(t, kind, event)
             old == Last(db.occs)
             id == CandidateIdentity(t.obs, t.url)
  <1>1. /\ old.closed /\ t.evidence = db.occs /\ t.old = db.post
        /\ IsRepost(t.obs, t.url, t.old, old) /\ ~Known(id, old)
    BY DecisionOf DEF Reposted, Ready
  <1>2. OccurrenceIdentity(new) = id /\ new.date = t.obs.date /\ new.url = t.url
    BY DEF OccurrenceIdentity, Added, CandidateIdentity, Reposted
  <1>3. new.date \in Nat /\ old.date \in Nat /\ db.post.date \in Nat
    <2>1. db.occs # <<>> /\ db.occs \in Seq(OccurrenceType) /\ db.post \in StoredType
      BY StoryTyped DEF Reposted
    <2>2. old \in OccurrenceType
      BY <2>1 DEF Last
    <2>3. old.date \in Date \cup {0}
      BY <2>2 DEF OccurrenceType
    <2>4. t.obs.date \in Nat /\ db.post.date \in Nat
      BY <2>1, ObservationFields, PostingFields DEF Ready
    <2>5. old.date \in Nat
      BY <2>3, DatesAreNaturals, Zenon
    <2> QED BY <1>2, <2>4, <2>5
  <1> SUFFICES IsNewer(new, old)
    OBVIOUS
  <1> HIDE DEF new, old, id
  <1>4. CASE id # NoIdentity /\ Identities(old) # {}
    <2>1. /\ Comparable(id, Identities(old)) # {} /\ id \notin Identities(old)
          /\ t.obs.date # 0 /\ old.date # 0 => t.obs.date > old.date
      BY <1>1, <1>4 DEF IsRepost, id
    <2> QED BY <1>1, <1>2, <1>4, <2>1 DEF IsNewer
  <1>5. CASE ~(id # NoIdentity /\ Identities(old) # {})
    <2>1. LET previous == IF old.date # 0 THEN old.date ELSE db.post.date
          IN  t.obs.date # 0 /\ previous # 0 /\ t.obs.date > previous /\ t.url # old.url
      BY <1>1, <1>5 DEF IsRepost, id
    <2>2. new.date > old.date /\ new.url # old.url
      BY <1>2, <1>3, <2>1
    <2> QED BY <1>1, <1>2, <1>3, <1>5, <2>2 DEF IsNewer
  <1> QED BY <1>4, <1>5

\* the row of the source that Observed() attaches
ObservationRow(t) ==
    [source |-> t.obs.source, row |-> t.obs.row,
     id |-> IF UrlIdentity[t.url] # NoIdentity THEN UrlIdentity[t.url] ELSE RawIdentity(t.obs)]

Attached(t, seen) ==
    {s \in seen : s.source # t.obs.source \/ s.row # t.obs.row} \cup {ObservationRow(t)}

LEMMA ObservedOccurrences ==
    ASSUME Story(db), NEW t, Ready(t), NEW occs \in Seq(OccurrenceType), occs # <<>>
    PROVE  LET n == Len(occs)
               new == Observed(t, occs)
           IN  /\ new \in Seq(OccurrenceType) /\ Len(new) = n
               /\ \A i \in 1 .. n : i < n => new[i] = occs[i]
               /\ Alike(new[n], occs[n]) /\ new[n].closed = occs[n].closed
  <1> DEFINE n == Len(occs)
             last == [occs[n] EXCEPT !.observed = Attached(t, occs[n].observed)]
  <1>1. n \in Nat \ {0} /\ n \in 1 .. n /\ occs[n] \in OccurrenceType
    OBVIOUS
  <1>2. ObservationRow(t) \in ObservedType
    <2>1. t.url \in Url /\ UrlIdentity[t.url] \in Identity \cup {NoIdentity}
      BY IdentityAssumption DEF Ready
    <2>2. /\ t.obs.source \in Sources /\ t.obs.row \in Nat
          /\ RawIdentity(t.obs) \in Identity \cup {NoIdentity}
      BY ObservationFields DEF Ready
    <2> QED BY <2>1, <2>2 DEF ObservationRow, ObservedType
  <1>3. Attached(t, occs[n].observed) \in SUBSET ObservedType
    <2>1. occs[n].observed \subseteq ObservedType
      BY <1>1 DEF OccurrenceType
    <2> QED BY <1>2, <2>1 DEF Attached
  <1>4. Alike(last, occs[n]) /\ last.closed = occs[n].closed
    <2> DEFINE seen == Attached(t, occs[n].observed)
    <2> HIDE DEF seen, n
    <2>1. [occs[n] EXCEPT !.observed = seen] \in OccurrenceType
      BY <1>1, <1>3, Zenon DEF OccurrenceType, seen
    <2>2. LET row == [occs[n] EXCEPT !.observed = seen] IN
          /\ row.kind = occs[n].kind /\ row.url = occs[n].url /\ row.date = occs[n].date
          /\ row.id = occs[n].id /\ row.event = occs[n].event /\ row.closed = occs[n].closed
      BY <1>1 DEF OccurrenceType
    <2> QED BY <1>1, <2>1, <2>2 DEF Alike, seen
  <1>5. Observed(t, occs) = [occs EXCEPT ![n] = last]
    BY DEF Observed, Attached, ObservationRow, LatestIn
  <1> HIDE DEF last
  <1>6. last \in OccurrenceType
    BY <1>4 DEF Alike
  <1> QED BY <1>1, <1>4, <1>5, <1>6

\* one of three things happens to the occurrences: the first is recorded, a repost is
\* added, or the last is closed or reopened
LEMMA OccurrencesShape ==
    ASSUME Story(db), NEW t, Ready(t)
    PROVE  LET n == Len(db.occs)
               occs == Occurrences(t)
           IN  /\ occs \in Seq(OccurrenceType) /\ occs # <<>>
               /\ Last(occs).closed = Upserted(t).closed
               /\ \/ db.occs = <<>> /\ Len(occs) = 1 /\ occs[1].kind = "discovered"
                  \/ /\ db.occs # <<>> /\ Reposted(t) /\ Len(occs) = n + 1
                     /\ \A i \in 1 .. n : occs[i] = db.occs[i]
                     /\ occs[n + 1].kind = "reposted" /\ occs[n + 1].event
                     /\ IsNewer(occs[n + 1], db.occs[n])
                  \/ /\ db.occs # <<>> /\ ~Reposted(t) /\ Len(occs) = n
                     /\ \A i \in 1 .. n : i < n => occs[i] = db.occs[i]
                     /\ Alike(occs[n], db.occs[n])
  <1> DEFINE n == Len(db.occs)
             closed == Upserted(t).closed
  <1>1. /\ db.occs \in Seq(OccurrenceType) /\ closed \in BOOLEAN /\ n \in Nat
        /\ n = 0 <=> db.occs = <<>>
    BY StoryTyped, UpsertedPost
  <1>2. \A kind, event : Added(t, kind, event).kind = kind /\ Added(t, kind, event).event = event
                         /\ Added(t, kind, event).closed = closed
    BY DEF Added
  <1>3. CASE db.occs = <<>>
    <2>1. PICK event \in BOOLEAN : Occurrences(t) = <<Added(t, "discovered", event)>>
      <3>1. CASE Created(t)
        <4>1. Occurrences(t) = Append(<<>>, Added(t, "discovered", ~closed))
          BY <1>3, <3>1 DEF Occurrences, Added
        <4>2. Append(<<>>, Added(t, "discovered", ~closed)) = <<Added(t, "discovered", ~closed)>>
          OBVIOUS
        <4> QED BY <1>1, <4>1, <4>2
      <3>2. CASE ~Created(t)
        <4>1. ~Reposted(t)
          BY <1>3 DEF Reposted
        <4>2. Occurrences(t) = <<Added(t, "discovered", FALSE)>>
          BY <1>3, <3>2, <4>1 DEF Occurrences, Added
        <4> QED BY <4>2
      <3> QED BY <3>1, <3>2
    <2> DEFINE new == Added(t, "discovered", event)
    <2>2. new \in OccurrenceType /\ new.kind = "discovered" /\ new.closed = closed
      BY <1>2, AddedType
    <2> HIDE DEF new, closed
    <2>3. Occurrences(t) = <<new>>
      BY <2>1 DEF new
    <2>4. <<new>> \in Seq(OccurrenceType) /\ Len(<<new>>) = 1 /\ <<new>>[1] = new /\ <<new>> # <<>>
      BY <2>2
    <2> QED BY <1>3, <2>2, <2>3, <2>4 DEF Last, closed
  <1>4. CASE db.occs # <<>> /\ Reposted(t)
    <2> DEFINE new == Added(t, "reposted", TRUE)
    <2>1. Occurrences(t) = Append(db.occs, new)
      BY <1>4 DEF Occurrences, Created, Added
    <2>2. /\ new \in OccurrenceType /\ new.kind = "reposted" /\ new.event /\ new.closed = closed
          /\ IsNewer(new, Last(db.occs))
      BY <1>2, <1>4, AddedType, RepostIsNewer
    <2> HIDE DEF new, closed
    <2>3. /\ Append(db.occs, new) \in Seq(OccurrenceType)
          /\ Len(Append(db.occs, new)) = n + 1
          /\ Append(db.occs, new)[n + 1] = new
          /\ \A i \in 1 .. n : Append(db.occs, new)[i] = db.occs[i]
          /\ Append(db.occs, new) # <<>>
      BY <1>1, <2>2
    <2> QED BY <1>4, <2>1, <2>2, <2>3 DEF Last, closed
  <1>5. CASE db.occs # <<>> /\ ~Reposted(t)
    <2> DEFINE new == [db.occs[n] EXCEPT !.closed = closed]
    <2>1. n \in 1 .. n /\ db.occs[n] \in OccurrenceType
      BY <1>1, <1>5
    <2>2. Occurrences(t) = [db.occs EXCEPT ![n] = new]
      BY <1>5 DEF Occurrences, Created, Continued, LatestIn
    <2>3. new \in OccurrenceType
      BY <1>1, <2>1, Zenon DEF OccurrenceType
    <2>4. /\ new.kind = db.occs[n].kind /\ new.url = db.occs[n].url /\ new.date = db.occs[n].date
          /\ new.id = db.occs[n].id /\ new.event = db.occs[n].event /\ new.closed = closed
      <3> HIDE DEF closed, n
      <3> QED BY <2>1 DEF OccurrenceType
    <2>5. Alike(new, db.occs[n])
      BY <2>1, <2>3, <2>4 DEF Alike
    <2> HIDE DEF new, closed
    <2>6. LET occs == [db.occs EXCEPT ![n] = new] IN
          /\ occs \in Seq(OccurrenceType) /\ Len(occs) = n /\ occs[n] = new /\ occs # <<>>
          /\ \A i \in 1 .. n : i < n => occs[i] = db.occs[i]
      BY <1>1, <1>5, <2>1, <2>3
    <2> QED BY <1>5, <2>2, <2>4, <2>5, <2>6 DEF Last, closed
  <1> QED BY <1>3, <1>4, <1>5

\* what the log gains starts where the log ends
LEMMA LoggedChain ==
    ASSUME Story(db), NEW t, Ready(t)
    PROVE  LET log == Logged(t) IN
           /\ log \in Seq(LogType)
           /\ log # <<>> => Last(log).to = State(Upserted(t).closed)
           /\ \A i \in 2 .. Len(log) : log[i].from = log[i - 1].to
  <1> DEFINE from == PreviousState(t)
             to == State(Upserted(t).closed)
             entry == [from |-> from, to |-> to]
  <1>1. db.log \in Seq(LogType) /\ db.occs \in Seq(OccurrenceType)
    BY StoryTyped
  <1>2. entry \in LogType
    <2>1. \A c : State(c) \in {"OPEN", "CLOSED"}
      BY DEF State
    <2>2. from \in {"none", "OPEN", "CLOSED"} /\ to \in {"OPEN", "CLOSED"}
      BY <2>1 DEF PreviousState
    <2> HIDE DEF from, to
    <2> QED BY <2>2 DEF LogType
  <1>3. db.log # <<>> => Last(db.log).to = from
    BY DEF Story, PreviousState
  <1>4. CASE from = to
    <2>1. Logged(t) = db.log
      BY <1>4 DEF Logged
    <2> QED BY <1>1, <1>3, <1>4, <2>1 DEF Story
  <1>5. CASE from # to
    <2>1. Logged(t) = Append(db.log, entry)
      BY <1>5 DEF Logged
    <2>2. entry.from = from /\ entry.to = to
      OBVIOUS
    <2> HIDE DEF entry, from, to
    <2>3. /\ Append(db.log, entry) \in Seq(LogType)
          /\ Len(Append(db.log, entry)) = Len(db.log) + 1
          /\ Append(db.log, entry)[Len(db.log) + 1] = entry
          /\ \A i \in 1 .. Len(db.log) : Append(db.log, entry)[i] = db.log[i]
          /\ Len(db.log) \in Nat
      BY <1>1, <1>2
    <2>4. Last(Append(db.log, entry)) = entry
      BY <2>3 DEF Last
    <2>5. ASSUME NEW i \in 2 .. Len(db.log) + 1
          PROVE  Append(db.log, entry)[i].from = Append(db.log, entry)[i - 1].to
      <3>1. CASE i <= Len(db.log)
        <4>1. db.log[i].from = db.log[i - 1].to
          BY <2>3, <3>1 DEF Story
        <4> QED BY <2>3, <3>1, <4>1
      <3>2. CASE i = Len(db.log) + 1
        <4>1. db.log # <<>> /\ i - 1 = Len(db.log) /\ i - 1 \in 1 .. Len(db.log)
          BY <1>1, <2>3, <3>2
        <4>2. db.log[i - 1].to = from
          BY <1>3, <4>1 DEF Last
        <4> QED BY <2>2, <2>3, <3>2, <4>1, <4>2
      <3> QED BY <2>3, <3>1, <3>2
    <2> QED BY <2>1, <2>2, <2>3, <2>4, <2>5 DEF to
  <1> QED BY <1>4, <1>5

\* the occurrences a transaction leaves, element by element
LEMMA PersistedOccurrences ==
    ASSUME Story(db), NEW t, Ready(t)
    PROVE  LET n == Len(db.occs)
               occs == Persisted(t).occs
           IN  /\ occs \in Seq(OccurrenceType) /\ occs # <<>>
               /\ Last(occs).closed = Upserted(t).closed
               /\ \A i \in 1 .. n : i < n => occs[i] = db.occs[i]
               /\ \A i \in 1 .. n : Alike(occs[i], db.occs[i])
               /\ \/ n = 0 /\ Len(occs) = 1 /\ occs[1].kind = "discovered"
                  \/ /\ n # 0 /\ Reposted(t) /\ Len(occs) = n + 1 /\ occs[n] = db.occs[n]
                     /\ occs[n + 1].kind = "reposted" /\ occs[n + 1].event
                     /\ IsNewer(occs[n + 1], db.occs[n])
                  \/ n # 0 /\ ~Reposted(t) /\ Len(occs) = n
  <1> DEFINE n == Len(db.occs)
             mid == Occurrences(t)
             occs == Observed(t, mid)
             m == Len(mid)
  <1>1. Persisted(t).occs = occs
    BY DEF Persisted
  <1>2. /\ mid \in Seq(OccurrenceType) /\ mid # <<>> /\ Last(mid).closed = Upserted(t).closed
        /\ \/ db.occs = <<>> /\ m = 1 /\ mid[1].kind = "discovered"
           \/ /\ db.occs # <<>> /\ Reposted(t) /\ m = n + 1
              /\ \A i \in 1 .. n : mid[i] = db.occs[i]
              /\ mid[n + 1].kind = "reposted" /\ mid[n + 1].event
              /\ IsNewer(mid[n + 1], db.occs[n])
           \/ /\ db.occs # <<>> /\ ~Reposted(t) /\ m = n
              /\ \A i \in 1 .. n : i < n => mid[i] = db.occs[i]
              /\ Alike(mid[n], db.occs[n])
    BY OccurrencesShape
  <1>3. /\ occs \in Seq(OccurrenceType) /\ Len(occs) = m
        /\ \A i \in 1 .. m : i < m => occs[i] = mid[i]
        /\ Alike(occs[m], mid[m]) /\ occs[m].closed = mid[m].closed
    BY <1>2, ObservedOccurrences
  <1>4. /\ db.occs \in Seq(OccurrenceType) /\ n \in Nat /\ m \in Nat \ {0}
        /\ n = 0 <=> db.occs = <<>>
        /\ \A i \in 1 .. n : db.occs[i] \in OccurrenceType
    BY <1>2, StoryTyped
  <1> HIDE DEF mid, occs, m, n
  <1>5. occs # <<>> /\ Last(occs).closed = Upserted(t).closed
    BY <1>2, <1>3, <1>4 DEF Last, m
  <1>6. \A i \in 1 .. n : Alike(db.occs[i], db.occs[i])
    BY <1>4 DEF Alike
  <1>7. CASE n = 0
    <2>1. occs[1].kind = "discovered" /\ Len(occs) = 1
      BY <1>2, <1>3, <1>4, <1>7 DEF Alike
    <2> QED BY <1>1, <1>3, <1>5, <1>7, <2>1 DEF n
  <1>8. CASE n # 0 /\ Reposted(t)
    <2>1. m = n + 1 /\ \A i \in 1 .. n : mid[i] = db.occs[i] /\ occs[i] = mid[i]
      BY <1>2, <1>3, <1>4, <1>8
    <2>2. /\ occs[n + 1].kind = "reposted" /\ occs[n + 1].event
          /\ IsNewer(occs[n + 1], db.occs[n])
      <3>1. Alike(occs[n + 1], mid[n + 1]) /\ IsNewer(mid[n + 1], db.occs[n])
        BY <1>2, <1>3, <1>4, <1>8, <2>1
      <3>2. mid[n + 1].kind = "reposted" /\ mid[n + 1].event
        BY <1>2, <1>4, <1>8
      <3> QED BY <3>1, <3>2, AlikeNewer DEF Alike
    <2>3. n \in 1 .. n /\ Len(occs) = n + 1
      BY <1>3, <1>4, <1>8, <2>1
    <2>4. \A i \in 1 .. n : occs[i] = db.occs[i] /\ Alike(occs[i], db.occs[i])
      BY <1>6, <2>1
    <2> QED BY <1>1, <1>3, <1>5, <1>8, <2>2, <2>3, <2>4 DEF n
  <1>9. CASE n # 0 /\ ~Reposted(t)
    <2>1. m = n /\ Alike(mid[n], db.occs[n]) /\ \A i \in 1 .. n : i < n => mid[i] = db.occs[i]
      BY <1>2, <1>4, <1>9
    <2>2. \A i \in 1 .. n : i < n => occs[i] = db.occs[i]
      BY <1>3, <2>1
    <2>3. Alike(occs[n], db.occs[n])
      BY <1>3, <2>1 DEF Alike
    <2>4. \A i \in 1 .. n : Alike(occs[i], db.occs[i])
      BY <1>4, <1>6, <2>2, <2>3
    <2> QED BY <1>1, <1>3, <1>5, <1>9, <2>1, <2>2, <2>4 DEF n
  <1> QED BY <1>7, <1>8, <1>9

LEMMA PersistedStory ==
    ASSUME Story(db), NEW t, Ready(t)
    PROVE  Story(Persisted(t)) /\ Grows(db, Persisted(t))
  <1> DEFINE n == Len(db.occs)
             occs == Persisted(t).occs
             log == Persisted(t).log
             post == Persisted(t).post
  <1>1. /\ post = Upserted(t) /\ log = Logged(t)
        /\ Persisted(t) = [post |-> post, occs |-> occs, log |-> log]
    BY DEF Persisted
  <1>2. /\ occs \in Seq(OccurrenceType) /\ occs # <<>> /\ Last(occs).closed = post.closed
        /\ \A i \in 1 .. n : i < n => occs[i] = db.occs[i]
        /\ \A i \in 1 .. n : Alike(occs[i], db.occs[i])
        /\ \/ n = 0 /\ Len(occs) = 1 /\ occs[1].kind = "discovered"
           \/ /\ n # 0 /\ Len(occs) = n + 1 /\ occs[n] = db.occs[n]
              /\ occs[n + 1].kind = "reposted" /\ occs[n + 1].event
              /\ IsNewer(occs[n + 1], db.occs[n])
           \/ n # 0 /\ Len(occs) = n
    BY <1>1, PersistedOccurrences
  <1>3. /\ log \in Seq(LogType)
        /\ log # <<>> => Last(log).to = State(post.closed)
        /\ \A i \in 2 .. Len(log) : log[i].from = log[i - 1].to
    BY <1>1, LoggedChain
  <1>4. post \in StoredType /\ post.exists
    BY <1>1, UpsertedPost
  <1>5. /\ n \in Nat
        /\ \A i \in 1 .. n : /\ db.occs[i].kind = "discovered" <=> i = 1
                             /\ i > 1 => db.occs[i].event
        /\ \A i \in 2 .. n : IsNewer(db.occs[i], db.occs[i - 1])
    <2>1. db.occs \in Seq(OccurrenceType)
      BY StoryTyped
    <2> QED BY <2>1 DEF Story
  <1> HIDE DEF occs, log, post, n
  <1>6. ASSUME NEW i \in 1 .. Len(occs)
        PROVE  (occs[i].kind = "discovered" <=> i = 1) /\ (i > 1 => occs[i].event)
    <2>1. CASE i \in 1 .. n
      <3>1. Alike(occs[i], db.occs[i])
        BY <1>2, <2>1
      <3>2. (db.occs[i].kind = "discovered" <=> i = 1) /\ (i > 1 => db.occs[i].event)
        BY <1>5, <2>1
      <3> QED BY <3>1, <3>2 DEF Alike
    <2>2. CASE i \notin 1 .. n
      <3>1. CASE n = 0
        BY <1>2, <3>1
      <3>2. CASE n # 0
        <4>1. i = n + 1 /\ i # 1
          BY <1>2, <1>5, <2>2, <3>2
        <4> QED BY <1>2, <1>5, <1>6, <2>2, <3>2, <4>1
      <3> QED BY <3>1, <3>2
    <2> QED BY <2>1, <2>2
  <1>7. ASSUME NEW i \in 2 .. Len(occs)
        PROVE  IsNewer(occs[i], occs[i - 1])
    <2>1. CASE i \in 1 .. n
      <3>1. Alike(occs[i], db.occs[i]) /\ occs[i - 1] = db.occs[i - 1]
        BY <1>2, <1>5, <2>1
      <3>2. IsNewer(db.occs[i], db.occs[i - 1])
        BY <1>5, <2>1
      <3> QED BY <3>1, <3>2, AlikeNewer
    <2>2. CASE i \notin 1 .. n
      BY <1>2, <1>5, <2>2
    <2> QED BY <2>1, <2>2
  <1>8. Story(Persisted(t))
    <2>1. Persisted(t) \in Rows
      <3>1. post \in StoredType /\ occs \in Seq(OccurrenceType) /\ log \in Seq(LogType)
        BY <1>2, <1>3, <1>4
      <3>2. Persisted(t) = [post |-> post, occs |-> occs, log |-> log]
        BY <1>1
      <3> QED BY <3>1, <3>2 DEF Rows
    <2>2. Persisted(t).post = post /\ Persisted(t).occs = occs /\ Persisted(t).log = log
      BY DEF post, occs, log
    <2>3. occs # <<>> => post.exists /\ post.closed = Last(occs).closed
      BY <1>2, <1>4
    <2>4. occs = <<>> => log = <<>>
      BY <1>2
    <2> QED BY <1>3, <1>6, <1>7, <2>1, <2>2, <2>3, <2>4, Zenon DEF Story
  <1>9. Grows(db, Persisted(t))
    <2>1. Len(occs) >= n
      BY <1>2, <1>5
    <2>2. \A i \in 1 .. n :
             [occs[i] EXCEPT !.closed = db.occs[i].closed, !.observed = db.occs[i].observed]
                = db.occs[i]
      BY <1>2, AlikeRestored
    <2> QED BY <1>2, <2>1, <2>2 DEF Grows, occs, n
  <1> QED BY <1>8, <1>9

\* what opens a closed occurrence is taken for one of its identities
LEMMA ReopeningIsFounded ==
    ASSUME Story(db), NEW t, Ready(t), NEW new, new.obs = t.obs, new.url = t.url,
           new.decision = Decision(t)
    PROVE  Founded(db, Persisted(t), new)
  <1> DEFINE n == Len(db.occs)
             id == CandidateIdentity(t.obs, t.url)
  <1> SUFFICES ASSUME n > 0, db.occs[n].closed, ~Persisted(t).occs[n].closed,
                      Decision(t) # "discover"
               PROVE  id \in Identities(db.occs[n])
    BY DEF Founded
  <1>1. db.occs \in Seq(OccurrenceType) /\ n \in Nat \ {0} /\ db.occs # <<>>
    BY StoryTyped
  <1>2. t.old.exists /\ t.old = db.post /\ t.evidence = db.occs
    BY DecisionOf DEF Ready
  <1>3. db.post.closed /\ Last(db.occs) = db.occs[n]
    BY <1>1 DEF Story, Last
  <1>4. ~Reposted(t) /\ ~Upserted(t).closed
    <2>1. ~Reposted(t)
      BY <1>1, PersistedOccurrences
    <2>2. Len(Persisted(t).occs) = n
      BY <1>1, <2>1, PersistedOccurrences
    <2> QED BY <2>1, <2>2, PersistedOccurrences DEF Last
  <1>5. ~t.obs.closed /\ Decision(t) # "ambiguous"
    BY <1>4, UpsertedPost
  <1>6. CASE Decision(t) = "repost"
    <2>1. IsRepost(t.obs, t.url, t.old, db.occs[n]) /\ SameRepost(t.obs, t.url, db.occs[n])
      BY <1>1, <1>2, <1>3, <1>4, <1>6, DecisionOf DEF Reposted
    <2>2. CASE Some({id, OccurrenceIdentity(db.occs[n])}) # {}
      <3>1. id = OccurrenceIdentity(db.occs[n]) /\ id # NoIdentity
        BY <2>1, <2>2 DEF SameRepost, Some
      <3>2. id \in Identities(db.occs[n])
        BY <3>1 DEF OccurrenceIdentity, Identities, Some
      <3> QED BY <3>2
    <2>3. CASE Some({id, OccurrenceIdentity(db.occs[n])}) = {}
      <3>1. id = NoIdentity
        BY <2>3 DEF Some
      <3>2. t.url = db.occs[n].url
        BY <2>1, <2>3 DEF SameRepost
      <3> QED BY <2>1, <3>1, <3>2 DEF IsRepost
    <2> QED BY <2>2, <2>3
  <1>7. CASE Decision(t) # "repost"
    BY <1>2, <1>3, <1>5, <1>7, DecisionOf DEF Known
  <1> QED BY <1>6, <1>7

-----------------------------------------------------------------------------
(* The invariant, step by step.                                              *)

LEMMA ChosenUrl ==
    ASSUME NEW old \in Url, NEW new \in Url
    PROVE  Choose(old, new) \in Url
  BY DEF Choose

LEMMA LifecycleBegins == LifecycleInit => LifecycleInv
  <1> SUFFICES ASSUME LifecycleInit
               PROVE  LifecycleInv
    OBVIOUS
  <1>1. \A p \in Pass : pass[p].pc = "idle"
    BY DEF LifecycleInit, Idle
  <1>2. /\ \A p \in Pass : PassOK(p)
        /\ pass = [p \in Pass |-> pass[p]]
    BY <1>1 DEF LifecycleInit, PassOK
  <1>3. Story(db)
    <2>1. CASE db = [post |-> NoPosting, occs |-> <<>>, log |-> <<>>]
      BY <2>1 DEF Story, Rows, StoredType
    <2>2. ASSUME NEW u \in Url, NEW c \in BOOLEAN, NEW b, db = Legacy(u, c, b)
          PROVE  Story(db)
      <3> DEFINE post == [exists |-> TRUE, closed |-> c, url |-> u, date |-> 0]
                 first == [NewOccurrence EXCEPT !.url = u, !.closed = c]
      <3>1. post \in StoredType /\ post.exists /\ post.closed = c
        BY DEF StoredType
      <3>2. first \in OccurrenceType /\ first.kind = "discovered" /\ first.closed = c
        BY DEF NewOccurrence, OccurrenceType
      <3>3. db.post = post /\ db.log = <<>> /\ db.occs \in {<<first>>, <<>>}
            /\ db = [post |-> post, occs |-> db.occs, log |-> <<>>]
        BY <2>2 DEF Legacy
      <3> HIDE DEF post, first
      <3>4. db \in Rows
        <4>1. <<first>> \in Seq(OccurrenceType) /\ <<>> \in Seq(OccurrenceType)
          BY <3>2
        <4>2. <<>> \in Seq(LogType)
          OBVIOUS
        <4>3. db.occs \in Seq(OccurrenceType)
          BY <3>3, <4>1, Zenon
        <4> QED BY <3>1, <3>3, <4>2, <4>3 DEF Rows
      <3>5. CASE db.occs = <<>>
        BY <3>3, <3>4, <3>5 DEF Story
      <3>6. CASE db.occs = <<first>>
        <4>1. Len(db.occs) = 1 /\ db.occs[1] = first /\ Last(db.occs) = first
          BY <3>6 DEF Last
        <4> QED BY <3>1, <3>2, <3>3, <3>4, <4>1 DEF Story
      <3> QED BY <3>3, <3>5, <3>6
    <2> QED BY <2>1, <2>2 DEF LifecycleInit
  <1>4. /\ owner \in Pass \cup {"nobody"} /\ cache = <<>> /\ behind = {}
        /\ runs \in 0 .. MaxRuns
    BY BoundAssumption DEF LifecycleInit
  <1> QED BY <1>2, <1>3, <1>4 DEF LifecycleInv, CacheOK

LEMMA LookStep ==
    ASSUME LifecycleInv, NEW p \in Pass, Look(p)
    PROVE  LifecycleInv'
  <1>1. UNCHANGED <<db, owner, cache, behind>> /\ pass[p].pc = "idle"
    BY DEF Look, Idle
  <1>2. PICK o \in Observation :
           pass' = [pass EXCEPT ![p] = [pc |-> "looked", obs |-> o, url |-> Candidate(o),
                                        projected |-> Projected(o), loaded |-> Loaded]]
    BY DEF Look
  <1>3. /\ o.url \in Url /\ o.closed \in BOOLEAN
        /\ db.post \in StoredType
        /\ db.post.exists => db.post.url \in Url /\ db.post.closed \in BOOLEAN
    BY ObservationFields, PostingFields, StoryTyped DEF LifecycleInv
  <1>4. Candidate(o) \in Url
    BY <1>3 DEF Candidate, Choose
  <1>5. Projected(o) \in Url \X BOOLEAN
    <2> DEFINE d == Decide(o, o.url, db.post, db.occs, Loaded.closed)
    <2>1. d # "discover" => db.post.exists
      BY DEF Decide
    <2>2. d # "discover" => Hash(db.post) \in Url \X BOOLEAN
                            /\ Choose(db.post.url, o.url) \in Url
      BY <1>3, <2>1 DEF Hash, Choose
    <2> HIDE DEF d
    <2> QED BY <1>3, <1>4, <2>2 DEF Projected, d
  <1>6. pass'[p] = [pc |-> "looked", obs |-> o, url |-> Candidate(o),
                    projected |-> Projected(o), loaded |-> Loaded]
        /\ pass' = [q \in Pass |-> pass'[q]] /\ \A q \in Pass \ {p} : pass'[q] = pass[q]
    BY <1>2 DEF LifecycleInv
  <1>7. PassOK(p)'
    BY <1>4, <1>5, <1>6 DEF PassOK
  <1>8. \A q \in Pass \ {p} : PassOK(q)'
    BY <1>1, <1>6 DEF PassOK, LifecycleInv
  <1>9. CacheOK'
    BY <1>1, <1>6 DEF CacheOK, LifecycleInv
  <1>10. runs' \in 0 .. MaxRuns
    BY BoundAssumption DEF Look, LifecycleInv
  <1> QED BY <1>1, <1>6, <1>7, <1>8, <1>9, <1>10 DEF LifecycleInv

LEMMA ClassifyStep ==
    ASSUME LifecycleInv, NEW p \in Pass, Classify(p)
    PROVE  LifecycleInv'
  <1>1. /\ UNCHANGED <<db, owner, runs>> /\ pass[p].pc = "looked" /\ PassOK(p)
        /\ cache' = pass[p].projected /\ behind' \subseteq behind \cup {"simplify"}
    BY DEF Classify, LifecycleInv
  <1>2. /\ pass'[p].pc = "classified" /\ pass'[p].obs = pass[p].obs
        /\ pass'[p].url = pass[p].url
        /\ DOMAIN pass'[p] = {"pc", "obs", "url", "projected", "loaded"}
        /\ pass' = [q \in Pass |-> pass'[q]] /\ \A q \in Pass \ {p} : pass'[q] = pass[q]
    <2>1. /\ pass' = [pass EXCEPT ![p].pc = "classified",
                                   ![p].loaded = IF Simplify(p) THEN Loaded ELSE @]
          /\ DOMAIN pass[p] = {"pc", "obs", "url", "projected", "loaded"}
      BY <1>1 DEF Classify, PassOK
    <2> QED BY <2>1 DEF LifecycleInv
  <1>3. PassOK(p)'
    BY <1>1, <1>2 DEF PassOK
  <1>4. \A q \in Pass \ {p} : PassOK(q)'
    BY <1>1, <1>2 DEF PassOK, LifecycleInv
  <1>5. CacheOK'
    BY <1>2 DEF CacheOK
  <1>6. cache' \in Url \X BOOLEAN
    BY <1>1 DEF PassOK
  <1> QED BY <1>1, <1>2, <1>3, <1>4, <1>5, <1>6 DEF LifecycleInv

LEMMA LockStep ==
    ASSUME LifecycleInv, NEW p \in Pass, Lock(p)
    PROVE  LifecycleInv'
  <1>1. /\ UNCHANGED <<db, cache, runs, behind>> /\ pass[p].pc = "classified" /\ PassOK(p)
        /\ db.post.exists => owner = "nobody"
        /\ owner' = IF db.post.exists THEN p ELSE owner
    BY DEF Lock, LifecycleInv
  <1>2. pass' = [pass EXCEPT ![p] = [pc |-> "locked", obs |-> pass[p].obs, url |-> pass[p].url,
                    loaded |-> pass[p].loaded, old |-> db.post, evidence |-> db.occs]]
    BY DEF Lock
  <1>3. /\ pass'[p] = [pc |-> "locked", obs |-> pass[p].obs, url |-> pass[p].url,
                       loaded |-> pass[p].loaded, old |-> db.post, evidence |-> db.occs]
        /\ pass' = [q \in Pass |-> pass'[q]] /\ \A q \in Pass \ {p} : pass'[q] = pass[q]
    BY <1>2 DEF LifecycleInv
  <1>4. PassOK(p)'
    BY <1>1, <1>3, StoryTyped DEF PassOK, LifecycleInv
  <1>5. ASSUME NEW q \in Pass \ {p}
        PROVE  PassOK(q)'
    <2>1. PassOK(q) /\ pass'[q] = pass[q]
      BY <1>3 DEF LifecycleInv
    <2>2. owner' = owner \/ owner = "nobody"
      BY <1>1
    <2>3. owner # q \/ owner' = owner
      BY <1>1, <2>2, PassAssumption
    <2> QED BY <1>1, <2>1, <2>3 DEF PassOK
  <1>6. CacheOK'
    BY <1>1, <1>3 DEF CacheOK, LifecycleInv
  <1> QED BY <1>1, <1>3, <1>4, <1>5, <1>6 DEF LifecycleInv

LEMMA UpsertStep ==
    ASSUME LifecycleInv, NEW p \in Pass, Upsert(p)
    PROVE  LifecycleInv'
  <1>1. /\ UNCHANGED <<db, cache, runs, behind>> /\ pass[p].pc = "locked" /\ PassOK(p)
        /\ owner \in {"nobody", p} /\ owner' = p /\ Story(db)
    BY DEF Upsert, LifecycleInv
  <1> DEFINE t == [pc |-> "written", obs |-> pass[p].obs, url |-> pass[p].url,
                   draft |-> Persisted(pass[p]), decision |-> Decision(pass[p])]
  <1>2. pass' = [pass EXCEPT ![p] = t]
    BY DEF Upsert
  <1>3. Ready(pass[p]) /\ pass[p].obs \in Observation /\ pass[p].url \in Url
    BY <1>1 DEF PassOK, Ready
  <1>4. Story(t.draft) /\ Grows(db, t.draft) /\ Founded(db, t.draft, t)
    BY <1>1, <1>3, PersistedStory, ReopeningIsFounded
  <1>5. /\ t.pc = "written" /\ t.obs = pass[p].obs /\ t.url = pass[p].url
        /\ DOMAIN t = {"pc", "obs", "url", "draft", "decision"}
        /\ t.draft.occs # <<>>
    BY <1>1, <1>3, PersistedOccurrences
  <1> HIDE DEF t
  <1>6. /\ pass'[p] = t
        /\ pass' = [q \in Pass |-> pass'[q]] /\ \A q \in Pass \ {p} : pass'[q] = pass[q]
    BY <1>2 DEF LifecycleInv
  <1>7. PassOK(p)'
    BY <1>1, <1>3, <1>4, <1>5, <1>6 DEF PassOK
  <1>8. ASSUME NEW q \in Pass \ {p}
        PROVE  PassOK(q)'
    <2>1. PassOK(q) /\ pass'[q] = pass[q] /\ owner # q
      BY <1>1, <1>6, PassAssumption DEF LifecycleInv
    <2> QED BY <1>1, <2>1 DEF PassOK
  <1>9. CacheOK'
    BY <1>5, <1>6 DEF CacheOK
  <1> QED BY <1>1, <1>6, <1>7, <1>8, <1>9 DEF LifecycleInv

LEMMA RefreshStep ==
    ASSUME LifecycleInv, NEW p \in Pass, Refresh(p)
    PROVE  LifecycleInv'
  <1>1. /\ UNCHANGED <<db, owner, runs>> /\ pass[p].pc = "written" /\ PassOK(p)
        /\ cache' = Refreshed(p)
        /\ behind' = IF Simplify(p) THEN behind \cup {"simplify"} ELSE {}
        /\ pass' = [pass EXCEPT ![p].pc = "refreshed"]
    BY DEF Refresh, LifecycleInv
  <1>2. /\ pass'[p].pc = "refreshed" /\ pass'[p].obs = pass[p].obs
        /\ pass'[p].url = pass[p].url /\ pass'[p].draft = pass[p].draft
        /\ pass'[p].decision = pass[p].decision /\ DOMAIN pass'[p] = DOMAIN pass[p]
        /\ pass' = [q \in Pass |-> pass'[q]] /\ \A q \in Pass \ {p} : pass'[q] = pass[q]
    <2>1. DOMAIN pass[p] = {"pc", "obs", "url", "draft", "decision"}
      BY <1>1 DEF PassOK
    <2> QED BY <1>1, <2>1 DEF LifecycleInv
  <1>3. owner = p /\ Story(pass[p].draft) /\ pass[p].draft.occs # <<>>
    BY <1>1 DEF PassOK
  <1>4. PassOK(p)'
    BY <1>1, <1>2 DEF PassOK, Founded
  <1>5. \A q \in Pass \ {p} : PassOK(q)'
    BY <1>1, <1>2 DEF PassOK, LifecycleInv
  <1>6. CacheOK'
    <2>1. CASE Simplify(p)
      BY <1>1, <2>1 DEF CacheOK
    <2>2. CASE ~Simplify(p)
      <3>1. cache' = Hash(pass'[p].draft.post)
        BY <1>1, <1>2, <2>2 DEF Refreshed
      <3> QED BY <1>2, <3>1 DEF CacheOK
    <2> QED BY <2>1, <2>2
  <1>7. cache' \in {<<>>} \cup (Url \X BOOLEAN)
    <2>1. Hash(pass[p].draft.post) \in Url \X BOOLEAN
      <3> DEFINE d == pass[p].draft
      <3>1. Story(d) /\ Story(db)
        BY <1>3 DEF LifecycleInv
      <3>2. d.occs # <<>>
        BY <1>3
      <3>3. d.post \in StoredType /\ d.post.exists
        BY <3>1, <3>2, StoryTyped DEF Story
      <3> QED BY <3>3, PostingFields DEF Hash
    <2> QED BY <1>1, <2>1 DEF Refreshed, LifecycleInv
  <1>8. behind' \subseteq {"rollback", "simplify"}
    BY <1>1 DEF LifecycleInv
  <1> QED BY <1>1, <1>2, <1>4, <1>5, <1>6, <1>7, <1>8 DEF LifecycleInv

LEMMA CommitStep ==
    ASSUME LifecycleInv, NEW p \in Pass, Commit(p)
    PROVE  LifecycleInv'
  <1>1. /\ UNCHANGED <<cache, runs, behind>> /\ pass[p].pc = "refreshed" /\ PassOK(p)
        /\ db' = pass[p].draft /\ owner' = "nobody"
        /\ pass' = [pass EXCEPT ![p] = Idle]
    BY DEF Commit, LifecycleInv
  <1>2. /\ pass'[p] = Idle
        /\ pass' = [q \in Pass |-> pass'[q]] /\ \A q \in Pass \ {p} : pass'[q] = pass[q]
    BY <1>1 DEF LifecycleInv
  <1>3. owner = p /\ Story(db')
    BY <1>1 DEF PassOK
  <1>4. PassOK(p)'
    BY <1>2 DEF PassOK, Idle
  <1>5. ASSUME NEW q \in Pass \ {p}
        PROVE  PassOK(q)' /\ pass'[q].pc \notin {"written", "refreshed"}
    <2>1. PassOK(q) /\ pass'[q] = pass[q] /\ owner # q
      BY <1>2, <1>3 DEF LifecycleInv
    <2> QED BY <2>1 DEF PassOK
  <1>6. CacheOK'
    <2>1. \A q \in Pass : pass'[q].pc # "refreshed"
      BY <1>2, <1>5 DEF Idle
    <2>2. \A q \in Pass : pass[q].pc = "refreshed" => q = p
      BY <1>2, <1>5
    <2>3. \A q \in Pass : pass[q].pc \in {"classified", "locked", "written"}
                             => q # p /\ pass'[q] = pass[q]
      BY <1>1, <1>2
    <2> QED BY <1>1, <2>1, <2>2, <2>3 DEF CacheOK, LifecycleInv
  <1> QED BY <1>1, <1>2, <1>3, <1>4, <1>5, <1>6 DEF LifecycleInv

LEMMA AbortStep ==
    ASSUME LifecycleInv, NEW p \in Pass, Abort(p)
    PROVE  LifecycleInv'
  <1>1. /\ UNCHANGED <<db, cache, runs>> /\ pass[p].pc # "idle"
        /\ owner' = IF owner = p THEN "nobody" ELSE owner
        /\ behind' = behind \cup (IF pass[p].pc = "looked" THEN {} ELSE {"rollback"})
        /\ pass' = [pass EXCEPT ![p] = Idle]
    BY DEF Abort
  <1>2. /\ pass'[p] = Idle
        /\ pass' = [q \in Pass |-> pass'[q]] /\ \A q \in Pass \ {p} : pass'[q] = pass[q]
    BY <1>1 DEF LifecycleInv
  <1>3. PassOK(p)'
    BY <1>2 DEF PassOK, Idle
  <1>4. ASSUME NEW q \in Pass \ {p}
        PROVE  PassOK(q)'
    <2>1. PassOK(q)
      BY DEF LifecycleInv
    <2>2. pass'[q] = pass[q] /\ UNCHANGED db
      BY <1>1, <1>2
    <2>3. owner = q => owner' = q
      BY <1>1
    <2> QED BY <2>1, <2>2, <2>3 DEF PassOK
  <1>5. CacheOK'
    <2>1. CASE pass[p].pc = "looked"
      <3>1. \A q \in Pass : pass[q].pc \in {"classified", "locked", "written", "refreshed"}
                               => q # p /\ pass'[q] = pass[q]
        BY <1>2, <2>1
      <3>2. \A q \in Pass : pass'[q].pc = "refreshed" => pass[q].pc = "refreshed"
        BY <1>2 DEF Idle
      <3> QED BY <1>1, <2>1, <3>1, <3>2 DEF CacheOK, LifecycleInv
    <2>2. CASE pass[p].pc # "looked"
      BY <1>1, <2>2 DEF CacheOK
    <2> QED BY <2>1, <2>2
  <1>6. behind' \subseteq {"rollback", "simplify"} /\ owner' \in Pass \cup {"nobody"}
    BY <1>1 DEF LifecycleInv
  <1> QED BY <1>1, <1>2, <1>3, <1>4, <1>5, <1>6 DEF LifecycleInv

LEMMA LifecycleStep == LifecycleInv /\ [LifecycleNext]_lifecycle => LifecycleInv'
  <1>1. ASSUME LifecycleInv, UNCHANGED lifecycle
        PROVE  LifecycleInv'
    BY <1>1 DEF lifecycle, LifecycleInv, PassOK, CacheOK
  <1> QED BY <1>1, LookStep, ClassifyStep, LockStep, UpsertStep, RefreshStep, CommitStep,
             AbortStep DEF LifecycleNext

LEMMA LifecycleInvariant == LifecycleSpec => []LifecycleInv
  BY LifecycleBegins, LifecycleStep, PTL DEF LifecycleSpec

-----------------------------------------------------------------------------
(* What follows from it.                                                     *)

(* Posting, occurrences and status log tell one story of a role, whichever   *)
(* passes overlap in bulk_upsert_job_postings_with_outcomes() and whatever   *)
(* they observed: one discovery, reposts that bring something new, a posting *)
(* in the state of its latest occurrence and a log that ends in it.          *)
THEOREM OneStoryPerRole == LifecycleSpec => []RecordsAgree
  <1>1. LifecycleInv => RecordsAgree
    <2> SUFFICES ASSUME LifecycleInv
                 PROVE  RecordsAgree
      OBVIOUS
    <2>1. Story(db) /\ DbOk(db)
      BY StoryTyped DEF LifecycleInv
    <2>2. LifecycleTypeOK
      <3>1. \A p \in Pass : pass[p].pc \in {"written", "refreshed"} => DbOk(pass[p].draft)
        BY StoryTyped DEF LifecycleInv, PassOK
      <3> QED BY <2>1, <3>1 DEF LifecycleTypeOK, LifecycleInv, PassOK
    <2>3. OneDiscovery /\ RepostsAreNew /\ PostingFollowsOccurrence /\ StatusLogTruthful
      BY <2>1 DEF Story, OneDiscovery, RepostsAreNew, PostingFollowsOccurrence,
                  StatusLogTruthful
    <2> QED BY <2>2, <2>3 DEF RecordsAgree
  <1> QED BY <1>1, LifecycleInvariant, PTL

LEMMA RowsChangeByCommit ==
    ASSUME LifecycleInv, [LifecycleNext]_lifecycle
    PROVE  UNCHANGED db \/ \E p \in Pass : Commit(p)
  BY DEF LifecycleNext, lifecycle, Look, Classify, Lock, Upsert, Refresh, Abort

(* A superseded occurrence never changes again, and the current one keeps    *)
(* its kind, link, date and identity: late closures of the old posting land  *)
(* nowhere else.                                                             *)
THEOREM HistoryStands == LifecycleSpec => HistoryIsFinal
  <1>1. LifecycleInv /\ [LifecycleNext]_lifecycle => Grows(db, db')
    <2> SUFFICES ASSUME LifecycleInv, [LifecycleNext]_lifecycle
                 PROVE  Grows(db, db')
      OBVIOUS
    <2>1. ASSUME NEW p \in Pass, Commit(p)
          PROVE  Grows(db, db')
      BY <2>1 DEF Commit, LifecycleInv, PassOK
    <2>2. CASE UNCHANGED db
      <3>1. db.occs \in Seq(OccurrenceType)
        BY StoryTyped DEF LifecycleInv
      <3>2. \A i \in 1 .. Len(db.occs) : Alike(db.occs[i], db.occs[i])
        BY <3>1 DEF Alike
      <3>3. Len(db.occs) \in Nat
        BY <3>1
      <3>4. ASSUME NEW i \in 1 .. Len(db.occs)
            PROVE  [db.occs[i] EXCEPT !.closed = db.occs[i].closed,
                                      !.observed = db.occs[i].observed] = db.occs[i]
        <4> DEFINE x == db.occs[i]
        <4>1. Alike(x, x)
          BY <3>2
        <4> HIDE DEF x
        <4>2. [x EXCEPT !.closed = x.closed, !.observed = x.observed] = x
          BY <4>1, AlikeRestored
        <4> QED BY <4>2 DEF x
      <3>5. Len(db.occs) >= Len(db.occs)
        BY <3>3
      <3>6. Grows(db, db)
        BY <3>4, <3>5, Zenon DEF Grows
      <3> QED BY <2>2, <3>6
    <2> QED BY <2>1, <2>2, RowsChangeByCommit
  <1>2. LifecycleInv /\ [LifecycleNext]_lifecycle =>
           [\A i \in 1 .. Len(db.occs) :
              /\ Len(db'.occs) >= Len(db.occs)
              /\ i < Len(db.occs) => db'.occs[i] = db.occs[i]
              /\ [db'.occs[i] EXCEPT !.closed = db.occs[i].closed,
                                     !.observed = db.occs[i].observed] = db.occs[i]]_lifecycle
    BY <1>1 DEF Grows
  <1> QED BY <1>2, LifecycleInvariant, PTL DEF LifecycleSpec, HistoryIsFinal

(* A confirmed closure is taken back only by an observation taken for one of *)
(* the closed occurrence's own identities, at the commit as well as at the   *)
(* decision, or by a pass that found no posting to lock.                     *)
THEOREM ClosuresStand == LifecycleSpec => ReopenedByIdentity
  <1>1. LifecycleInv =>
           \A p \in Pass : Commit(p) /\ Reopens(p) /\ pass[p].decision # "discover" =>
               CandidateIdentity(pass[p].obs, pass[p].url) \in Identities(Last(db.occs))
    BY DEF LifecycleInv, PassOK, Commit, Reopens, Founded, Last
  <1>2. LifecycleInv /\ [LifecycleNext]_lifecycle =>
           [\A p \in Pass : Commit(p) /\ Reopens(p) /\ pass[p].decision # "discover" =>
               CandidateIdentity(pass[p].obs, pass[p].url) \in Identities(Last(db.occs))]_lifecycle
    BY <1>1
  <1> QED BY <1>2, LifecycleInvariant, PTL DEF LifecycleSpec, ReopenedByIdentity

(* Once a board's or feed's pass has told Redis the state SQL decided, and   *)
(* until a Simplify pass or a rollback follows, the cached hash is the       *)
(* posting's whenever no pass is under way.                                  *)
THEOREM CacheAgrees == LifecycleSpec => []CacheFollowsSql
  <1>1. LifecycleInv => CacheFollowsSql
    <2> SUFFICES ASSUME LifecycleInv, \A p \in Pass : pass[p] = Idle, behind = {}, cache # <<>>
                 PROVE  cache = Hash(db.post)
      BY DEF CacheFollowsSql
    <2>1. ASSUME NEW p \in Pass
          PROVE  pass[p].pc = "idle"
      <3>1. pass[p] = Idle
        OBVIOUS
      <3> QED BY <3>1 DEF Idle
    <2> QED BY <2>1 DEF LifecycleInv, CacheOK
  <1> QED BY <1>1, LifecycleInvariant, PTL
=============================================================================
