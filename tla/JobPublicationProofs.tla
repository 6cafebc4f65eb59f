------------------------ MODULE JobPublicationProofs ------------------------
(***************************************************************************)
(* That EventsTellCommits holds of JobPublication by itself: its sessions  *)
(* and publish tasks, for any postings, contents and number of saves.      *)
(***************************************************************************)
EXTENDS JobPublication, LiveEvents, SequenceTheorems, TLAPS

\* the component alone; a run explores it as one part of a sum
PublicationSpec == PublicationInit /\ [][PublicationNext]_publication

-----------------------------------------------------------------------------
(* The invariant                                                             *)

Content == [fields : Field, details : Detail]
Event == [from : Writer, batch : Nat, number : Nat, row : BaseHash, content : Content,
          kind : {"JOB_CREATED", "JOB_UPDATED"}]

Queued(w) == {writer[w].pending[i] : i \in DOMAIN writer[w].pending}
Sent == {messages[i] : i \in DOMAIN messages}
Creations(events) == {e \in events : e.kind = "JOB_CREATED"}

TablesTyped ==
    /\ rows \in [BaseHash -> Content \cup {NoRow}]
    /\ writer = [w \in Writer |-> writer[w]]
    /\ tasks \subseteq Event
    /\ messages \in Seq(Event)
    /\ saves \in Nat
    /\ committed \subseteq 1 .. saves

\* what a session holds between begin and commit
SessionTyped(w) ==
    /\ writer[w].at \in {"idle", "read", "open"}
    /\ writer[w].at = "idle" => writer[w] = Closed
    /\ DOMAIN writer[w].wrote \subseteq BaseHash
    /\ \A r \in DOMAIN writer[w].wrote : writer[w].wrote[r] \in Content
    /\ writer[w].pending \in Seq(Event)
    /\ writer[w].at # "idle" => writer[w].batch \in 1 .. saves
    /\ writer[w].at = "read" =>
          /\ writer[w].row \in BaseHash /\ writer[w].old \in Content \cup {NoRow}
          /\ writer[w].fields \in Field /\ writer[w].details \in Detail
          /\ writer[w].number \in writer[w].batch .. saves

\* it is a transaction of its own, not yet committed, and so are its events
SessionOK(w) ==
    /\ writer[w].at # "idle" => writer[w].batch \notin committed
    /\ \A e \in Queued(w) : /\ e.from = w /\ e.batch = writer[w].batch
                            /\ e.number \in writer[w].batch .. saves
                            /\ e.row \in DOMAIN writer[w].wrote
    /\ \A e \in Creations(Queued(w)) : rows[e.row] = NoRow
    /\ \A e, f \in Creations(Queued(w)) : e.row = f.row => e = f

\* a row it locked when it read it is still what it read
ReadStands(w) == (writer[w].at = "read" /\ writer[w].old # NoRow) =>
    writer[w].old = Visible(w, writer[w].row)

\* a row it wrote is unchanged, told of, or another transaction's insert
WriteIsTold(w) == \A r \in DOMAIN writer[w].wrote :
    \/ r \in writer[w].raced
    \/ writer[w].wrote[r] = rows[r]
    \/ \E e \in Queued(w) : e.row = r /\ e.content = writer[w].wrote[r]

\* no two sessions hold a row or share a transaction number
SessionsApart == \A v, w \in Writer : v # w =>
    /\ \A r \in BaseHash : ~(Holds(v, r) /\ Holds(w, r))
    /\ writer[v].at # "idle" /\ writer[w].at # "idle" => writer[v].batch # writer[w].batch

\* what was published, or is about to be, is of earlier saves
AnnouncedOK ==
    /\ \A e \in tasks \cup Sent : e.batch \in committed /\ rows[e.row] # NoRow /\ e.number <= saves
    /\ \A e, f \in Creations(tasks \cup Sent) : e.row = f.row => e = f

\* a patient session has nothing left to tell when it begins
PatienceOK(w) == w \in Patient =>
    /\ writer[w].at # "idle" =>
          /\ \A e \in tasks : e.from # w
          /\ \A e \in Sent : e.from = w => e.number < writer[w].batch
    /\ \A e, f \in tasks : e.from = w /\ f.from = w => e.batch = f.batch
    /\ \A e \in tasks, f \in Sent : e.from = w /\ f.from = w => e.batch = f.batch \/ f.number < e.number

PublicationInv ==
    /\ TablesTyped
    /\ \A w \in Writer : /\ SessionTyped(w) /\ SessionOK(w) /\ ReadStands(w) /\ WriteIsTold(w)
                         /\ PatienceOK(w)
    /\ SessionsApart
    /\ AnnouncedOK
    /\ OldestFirst

-----------------------------------------------------------------------------
(* What a step leaves alone                                                  *)

(* The events of an extended queue are the ones before and the new one.      *)
LEMMA Extended ==
    ASSUME NEW queue \in Seq(Event), NEW e \in Event
    PROVE  /\ Append(queue, e) \in Seq(Event)
           /\ {Append(queue, e)[i] : i \in DOMAIN Append(queue, e)}
                = {queue[i] : i \in DOMAIN queue} \cup {e}
  <1> DEFINE longer == Append(queue, e)
  <1>1. /\ longer \in Seq(Event) /\ Len(longer) = Len(queue) + 1
        /\ \A i \in 1 .. Len(queue) : longer[i] = queue[i]
        /\ longer[Len(queue) + 1] = e
    OBVIOUS
  <1>2. DOMAIN longer = 1 .. Len(queue) + 1 /\ DOMAIN queue = 1 .. Len(queue) /\ Len(queue) \in Nat
    BY <1>1
  <1> HIDE DEF longer
  <1>3. \A i \in DOMAIN longer : longer[i] \in {queue[j] : j \in DOMAIN queue} \cup {e}
    BY <1>1, <1>2
  <1>4. \A j \in DOMAIN queue : j \in DOMAIN longer /\ longer[j] = queue[j]
    BY <1>1, <1>2
  <1>5. Len(queue) + 1 \in DOMAIN longer
    BY <1>2
  <1>6. {longer[i] : i \in DOMAIN longer} = {queue[i] : i \in DOMAIN queue} \cup {e}
    BY <1>1, <1>3, <1>4, <1>5
  <1> QED BY <1>1, <1>6 DEF longer

(* Content is never the absent row.                                          *)
LEMMA ContentIsARow == \A c \in Content : c # NoRow
  <1> SUFFICES ASSUME NEW c \in Content PROVE c # NoRow
    OBVIOUS
  <1>1. DOMAIN c = {"fields", "details"}
    BY DEF Content
  <1>2. DOMAIN NoRow = {}
    BY DEF NoRow
  <1> QED BY <1>1, <1>2

(* A session that does not take a step keeps what it holds, if no row it     *)
(* holds is committed by another.                                            *)
LEMMA Bystander ==
    ASSUME PublicationInv, NEW v \in Writer, writer'[v] = writer[v],
           saves' \in Nat, saves <= saves',
           \A r \in BaseHash : Holds(v, r) => rows'[r] = rows[r],
           writer[v].at # "idle" => writer[v].batch \notin committed'
    PROVE  SessionTyped(v)' /\ SessionOK(v)' /\ ReadStands(v)' /\ WriteIsTold(v)'
  <1>0. /\ SessionTyped(v) /\ SessionOK(v) /\ ReadStands(v) /\ WriteIsTold(v)
        /\ saves \in Nat
    BY DEF PublicationInv, TablesTyped
  <1>1. SessionTyped(v)'
    BY <1>0 DEF SessionTyped
  <1>2. Queued(v)' = Queued(v)
    BY DEF Queued
  <1>3. \A r \in DOMAIN writer[v].wrote : r \in BaseHash /\ Holds(v, r) /\ rows'[r] = rows[r]
    BY <1>0 DEF SessionTyped, Holds
  <1>4. SessionOK(v)'
    <2>1. ASSUME NEW e \in Queued(v)
          PROVE  /\ e.from = v /\ e.batch = writer[v].batch
                 /\ e.number \in writer[v].batch .. saves'
                 /\ e.row \in DOMAIN writer[v].wrote
      <3>1. /\ e.from = v /\ e.batch = writer[v].batch
            /\ e.number \in writer[v].batch .. saves
            /\ e.row \in DOMAIN writer[v].wrote
        BY <1>0 DEF SessionOK
      <3>2. writer[v].at # "idle"
        BY <1>0, <3>1 DEF SessionTyped, Closed
      <3>3. writer[v].batch \in 1 .. saves
        BY <1>0, <3>2 DEF SessionTyped
      <3> QED BY <1>0, <3>1, <3>3
    <2>2. ASSUME NEW e \in Creations(Queued(v)) PROVE rows'[e.row] = NoRow
      BY <1>0, <1>3, <2>1 DEF SessionOK, Creations
    <2>3. \A e, f \in Creations(Queued(v)) : e.row = f.row => e = f
      BY <1>0 DEF SessionOK
    <2>4. writer[v].at # "idle" => writer[v].batch \notin committed'
      OBVIOUS
    <2> QED BY <1>2, <2>1, <2>2, <2>3, <2>4 DEF SessionOK, Creations
  <1>5. ReadStands(v)'
    <2> SUFFICES ASSUME writer[v].at = "read", writer[v].old # NoRow
                 PROVE  writer[v].old = Visible(v, writer[v].row)'
      BY DEF ReadStands
    <2>1. writer[v].old = Visible(v, writer[v].row)
      BY <1>0 DEF ReadStands
    <2>2. rows'[writer[v].row] = rows[writer[v].row]
      BY <1>0 DEF SessionTyped, Holds
    <2> QED BY <2>1, <2>2 DEF Visible
  <1>6. WriteIsTold(v)'
    BY <1>0, <1>2, <1>3 DEF WriteIsTold
  <1> QED BY <1>1, <1>4, <1>5, <1>6

(* Its patience is kept too, if nothing new of it is handed over or sent.    *)
LEMMA BystanderWaits ==
    ASSUME PublicationInv, NEW v \in Writer, writer'[v] = writer[v],
           \A e \in tasks' : e.from = v => e \in tasks,
           \A e \in Sent' : e.from = v => e \in Sent
    PROVE  PatienceOK(v)'
  BY DEF PublicationInv, PatienceOK

(* What was announced are events.                                            *)
LEMMA AnnouncedTyped == ASSUME TablesTyped PROVE tasks \cup Sent \subseteq Event
  <1>1. ASSUME NEW i \in DOMAIN messages PROVE messages[i] \in Event
    BY DEF TablesTyped
  <1> QED BY <1>1 DEF TablesTyped, Sent

(* Publishing nothing new keeps what was announced.                          *)
LEMMA NothingAnnounced ==
    ASSUME PublicationInv, tasks' \subseteq tasks \cup Sent, Sent' \subseteq tasks \cup Sent,
           committed' = committed, rows' = rows, saves' \in Nat, saves <= saves'
    PROVE  AnnouncedOK'
  <1>1. AnnouncedOK /\ saves \in Nat /\ \A e \in tasks \cup Sent : e.number \in Nat
    BY AnnouncedTyped DEF PublicationInv, TablesTyped, Event
  <1>2. (tasks \cup Sent)' \subseteq tasks \cup Sent
    OBVIOUS
  <1>3. ASSUME NEW e \in (tasks \cup Sent)'
        PROVE  e.batch \in committed' /\ rows'[e.row] # NoRow /\ e.number <= saves'
    BY <1>1, <1>2 DEF AnnouncedOK
  <1>4. \A e, f \in Creations((tasks \cup Sent)') : e.row = f.row => e = f
    BY <1>1, <1>2 DEF AnnouncedOK, Creations
  <1> QED BY <1>3, <1>4 DEF AnnouncedOK, Creations

(* A session that ends holds nothing, tells nothing and waits for nothing.   *)
LEMMA ClosedIsOK ==
    ASSUME NEW w \in Writer, writer'[w] = Closed
    PROVE  /\ SessionTyped(w)' /\ SessionOK(w)' /\ ReadStands(w)' /\ WriteIsTold(w)'
           /\ \A r \in BaseHash : ~Holds(w, r)'
  <1>1. /\ writer'[w].at = "idle" /\ DOMAIN writer'[w].wrote = {}
        /\ writer'[w].pending = <<>> /\ writer'[w].batch = 0
    BY DEF Closed
  <1>2. Queued(w)' = {}
    BY <1>1 DEF Queued
  <1>3. SessionTyped(w)'
    BY <1>1 DEF SessionTyped, Closed
  <1> QED BY <1>1, <1>2, <1>3 DEF SessionOK, ReadStands, WriteIsTold, Holds, Creations

(* Sessions stay apart if the one that takes a step takes no row and no      *)
(* number of another.                                                        *)
LEMMA StillApart ==
    ASSUME PublicationInv, NEW w \in Writer,
           \A v \in Writer \ {w} : writer'[v] = writer[v],
           \A r \in BaseHash : Holds(w, r)' => NotHeld(w, r),
           writer'[w].at # "idle" =>
              \A v \in Writer \ {w} : writer[v].at # "idle" => writer[v].batch # writer'[w].batch
    PROVE  SessionsApart'
  <1>1. SessionsApart
    BY DEF PublicationInv
  <1>2. \A v \in Writer \ {w}, r \in BaseHash : Holds(v, r)' <=> Holds(v, r)
    BY DEF Holds
  <1> SUFFICES ASSUME NEW u \in Writer, NEW v \in Writer, u # v
               PROVE  /\ \A r \in BaseHash : ~(Holds(u, r)' /\ Holds(v, r)')
                      /\ writer'[u].at # "idle" /\ writer'[v].at # "idle" =>
                           writer'[u].batch # writer'[v].batch
    BY DEF SessionsApart
  <1>3. CASE u # w /\ v # w
    BY <1>1, <1>2, <1>3 DEF SessionsApart
  <1>4. CASE u = w
    BY <1>2, <1>4 DEF NotHeld
  <1>5. CASE v = w
    BY <1>2, <1>5 DEF NotHeld
  <1> QED BY <1>3, <1>4, <1>5

-----------------------------------------------------------------------------
(* The steps                                                                 *)

\* the invariant of a session
Sound(w) == SessionTyped(w) /\ SessionOK(w) /\ ReadStands(w) /\ WriteIsTold(w) /\ PatienceOK(w)

(* A step of one session that touches neither the rows nor what is announced *)
(* keeps the invariant if it keeps that session's part.                      *)
LEMMA SessionStep ==
    ASSUME PublicationInv, NEW w \in Writer,
           writer' = [writer EXCEPT ![w] = writer'[w]],
           rows' = rows, committed' = committed, messages' = messages,
           saves' \in Nat, saves <= saves',
           tasks' \subseteq tasks, \A e \in tasks : e.from # w => e \in tasks',
           SessionTyped(w)', SessionOK(w)', ReadStands(w)', WriteIsTold(w)', PatienceOK(w)',
           SessionsApart'
    PROVE  PublicationInv'
  <1>1. TablesTyped /\ SessionsApart /\ OldestFirst
    BY DEF PublicationInv
  <1>2. \A v \in Writer \ {w} : writer'[v] = writer[v]
    BY <1>1 DEF TablesTyped
  <1>3. Sent' = Sent
    BY DEF Sent
  <1>4. AnnouncedOK'
    BY <1>3, NothingAnnounced
  <1>5. ASSUME NEW v \in Writer \ {w} PROVE Sound(v)'
    <2>1. writer[v].at # "idle" => writer[v].batch \notin committed'
      BY DEF PublicationInv, SessionOK
    <2>2. SessionTyped(v)' /\ SessionOK(v)' /\ ReadStands(v)' /\ WriteIsTold(v)'
      BY <1>2, <2>1, Bystander
    <2>3. PatienceOK(v)'
      BY <1>2, <1>3, BystanderWaits
    <2> QED BY <2>2, <2>3 DEF Sound
  <1>6. TablesTyped'
    <2>1. writer' = [v \in Writer |-> writer'[v]]
      BY <1>1 DEF TablesTyped
    <2>2. committed' \subseteq 1 .. saves'
      BY <1>1 DEF TablesTyped
    <2> QED BY <1>1, <2>1, <2>2 DEF TablesTyped
  <1>7. OldestFirst'
    BY <1>1 DEF OldestFirst
  <1> QED BY <1>4, <1>5, <1>6, <1>7 DEF PublicationInv, Sound

(* A session that rolls back or stops leaves nothing behind.                 *)
LEMMA EndingStep ==
    ASSUME PublicationInv, NEW w \in Writer, Rollback(w) \/ WriterStops(w)
    PROVE  PublicationInv'
  <1>1. /\ writer' = [writer EXCEPT ![w] = Closed]
        /\ rows' = rows /\ committed' = committed /\ messages' = messages /\ saves' = saves
        /\ tasks' \subseteq tasks /\ \A e \in tasks : e.from # w => e \in tasks'
    BY DEF Rollback, WriterStops, AfterRollback
  <1>2. TablesTyped /\ saves \in Nat
    BY DEF PublicationInv, TablesTyped
  <1>3. writer'[w] = Closed /\ \A v \in Writer \ {w} : writer'[v] = writer[v]
    BY <1>1, <1>2 DEF TablesTyped
  <1>4. /\ SessionTyped(w)' /\ SessionOK(w)' /\ ReadStands(w)' /\ WriteIsTold(w)'
        /\ \A r \in BaseHash : ~Holds(w, r)'
    BY <1>3, ClosedIsOK
  <1>5. PatienceOK(w)'
    <2>1. PatienceOK(w) /\ Sent' = Sent /\ writer'[w].at = "idle"
      BY <1>1, <1>3 DEF PublicationInv, Sent, Closed
    <2> QED BY <1>1, <2>1 DEF PatienceOK
  <1>6. SessionsApart'
    BY <1>3, <1>4, StillApart DEF Closed
  <1>7. writer' = [writer EXCEPT ![w] = writer'[w]]
    BY <1>1, <1>3
  <1>8. saves' \in Nat /\ saves <= saves'
    BY <1>1, <1>2
  <1> QED BY <1>1, <1>4, <1>5, <1>6, <1>7, <1>8, SessionStep

(* A save reads what is committed or its own, and locks it if it is there.   *)
LEMMA ReadStep ==
    ASSUME PublicationInv, NEW w \in Writer, NEW r \in BaseHash, NEW f \in Field, NEW d \in Detail,
           ReadForUpdate(w, r, f, d)
    PROVE  PublicationInv'
  <1> DEFINE t == writer[w]
             batch == IF t.at = "idle" THEN saves + 1 ELSE t.batch
             new == [at |-> "read", row |-> r, old |-> Visible(w, r), fields |-> f, details |-> d,
                     batch |-> batch, number |-> saves + 1, wrote |-> t.wrote,
                     pending |-> t.pending, raced |-> t.raced]
  <1>1. /\ t.at = "idle" \/ t.at = "open"
        /\ t.at = "idle" /\ w \in Patient => Waited(w)
        /\ Visible(w, r) # NoRow => NotHeld(w, r)
        /\ saves' = saves + 1 /\ writer' = [writer EXCEPT ![w] = new]
        /\ rows' = rows /\ tasks' = tasks /\ messages' = messages /\ committed' = committed
    BY DEF ReadForUpdate
  <1>2. /\ TablesTyped /\ saves \in Nat /\ SessionsApart /\ AnnouncedOK
        /\ SessionTyped(w) /\ SessionOK(w) /\ WriteIsTold(w) /\ PatienceOK(w)
    BY DEF PublicationInv, TablesTyped
  <1>3. writer'[w] = new /\ \A v \in Writer \ {w} : writer'[v] = writer[v]
    BY <1>1, <1>2 DEF TablesTyped
  <1>4. /\ new.at = "read" /\ new.row = r /\ new.old = Visible(w, r) /\ new.fields = f
        /\ new.details = d /\ new.batch = batch /\ new.number = saves + 1
        /\ new.wrote = t.wrote /\ new.pending = t.pending /\ new.raced = t.raced
    OBVIOUS
  <1>5. Visible(w, r) \in Content \cup {NoRow}
    BY <1>2 DEF Visible, SessionTyped, TablesTyped
  <1>6. batch \in 1 .. saves'
    BY <1>1, <1>2 DEF SessionTyped
  <1> HIDE DEF new
  <1>7. Queued(w)' = Queued(w) /\ Sent' = Sent
    BY <1>1, <1>3, <1>4 DEF Queued, Sent
  <1>8. t.at = "idle" => Queued(w) = {} /\ DOMAIN t.wrote = {}
    BY <1>2 DEF SessionTyped, Queued, Closed
  <1>9. SessionTyped(w)'
    <2>1. new.number \in new.batch .. saves'
      BY <1>1, <1>2, <1>4, <1>6
    <2>2. DOMAIN t.wrote \subseteq BaseHash /\ t.pending \in Seq(Event)
          /\ \A x \in DOMAIN t.wrote : t.wrote[x] \in Content
      BY <1>2 DEF SessionTyped
    <2> HIDE DEF batch, t
    <2> QED BY <1>3, <1>4, <1>5, <1>6, <2>1, <2>2 DEF SessionTyped
  <1>10. batch \notin committed'
    BY <1>1, <1>2 DEF SessionOK, TablesTyped
  <1>11. SessionOK(w)'
    <2>1. ASSUME NEW e \in Queued(w)
          PROVE  /\ e.from = w /\ e.batch = batch /\ e.number \in batch .. saves'
                 /\ e.row \in DOMAIN t.wrote
      <3>1. t.at = "open" /\ batch = t.batch
        BY <1>1, <1>8
      <3>2. batch \in 1 .. saves
        BY <1>2, <3>1 DEF SessionTyped
      <3>3. /\ e.from = w /\ e.batch = t.batch /\ e.number \in t.batch .. saves
            /\ e.row \in DOMAIN t.wrote
        BY <1>2 DEF SessionOK
      <3> QED BY <1>1, <1>2, <3>1, <3>2, <3>3
    <2>2. /\ \A e \in Creations(Queued(w)) : rows[e.row] = NoRow
          /\ \A e, g \in Creations(Queued(w)) : e.row = g.row => e = g
      BY <1>2 DEF SessionOK
    <2> HIDE DEF batch, t
    <2> QED BY <1>1, <1>3, <1>4, <1>7, <1>10, <2>1, <2>2 DEF SessionOK, Creations
  <1>12. ReadStands(w)'
    BY <1>1, <1>3, <1>4 DEF ReadStands, Visible
  <1>13. WriteIsTold(w)'
    BY <1>1, <1>2, <1>3, <1>4, <1>7 DEF WriteIsTold
  <1>14. PatienceOK(w)'
    <2>1. ASSUME w \in Patient
          PROVE  /\ \A e \in tasks : e.from # w
                 /\ \A e \in Sent : e.from = w => e.number < batch
      <3>1. CASE t.at = "idle"
        <4>1. \A e \in tasks : e.from # w
          BY <1>1, <2>1, <3>1 DEF Waited
        <4>2. \A e \in Sent : e.number <= saves /\ e.number \in Nat
          BY <1>2, AnnouncedTyped DEF AnnouncedOK, Event
        <4> QED BY <1>2, <3>1, <4>1, <4>2
      <3>2. CASE t.at = "open"
        BY <1>2, <2>1, <3>2 DEF PatienceOK
      <3> QED BY <1>1, <3>1, <3>2
    <2>2. /\ w \in Patient => \A e, g \in tasks : e.from = w /\ g.from = w => e.batch = g.batch
          /\ w \in Patient => \A e \in tasks, g \in Sent :
                e.from = w /\ g.from = w => e.batch = g.batch \/ g.number < e.number
      BY <1>2 DEF PatienceOK
    <2> HIDE DEF batch, t
    <2> QED BY <1>1, <1>3, <1>4, <1>7, <2>1, <2>2 DEF PatienceOK
  <1>15. SessionsApart'
    <2>1. ASSUME NEW x \in BaseHash, Holds(w, x)' PROVE NotHeld(w, x)
      <3>1. x \in DOMAIN t.wrote \/ (x = r /\ Visible(w, r) # NoRow)
        BY <1>3, <1>4, <2>1 DEF Holds
      <3>2. CASE x \in DOMAIN t.wrote
        BY <1>2, <3>2 DEF Holds, NotHeld, SessionsApart
      <3> QED BY <1>1, <3>1, <3>2
    <2>2. ASSUME NEW v \in Writer \ {w}, writer[v].at # "idle" PROVE writer[v].batch # batch
      <3>1. writer[v].batch \in 1 .. saves
        BY <2>2 DEF PublicationInv, SessionTyped
      <3>2. CASE t.at = "idle"
        BY <1>2, <3>1, <3>2
      <3>3. CASE t.at = "open"
        BY <1>2, <2>2, <3>3 DEF SessionsApart
      <3> QED BY <1>1, <3>2, <3>3
    <2> HIDE DEF batch, t
    <2> QED BY <1>3, <1>4, <2>1, <2>2, StillApart
  <1>16. saves' \in Nat /\ saves <= saves'
    BY <1>1, <1>2
  <1>17. writer' = [writer EXCEPT ![w] = writer'[w]]
    BY <1>1, <1>3
  <1> HIDE DEF batch, t
  <1> QED BY <1>1, <1>9, <1>11, <1>12, <1>13, <1>14, <1>15, <1>16, <1>17, SessionStep

\* the event of a save
WriteEvent(w, content) ==
    [from |-> w, batch |-> writer[w].batch, number |-> writer[w].number, row |-> writer[w].row,
     content |-> content,
     kind |-> IF WasCreated(writer[w], Visible(w, writer[w].row)) THEN "JOB_CREATED"
                                                                  ELSE "JOB_UPDATED"]

\* a save that tells
Tells(w, content) == \/ WasCreated(writer[w], Visible(w, writer[w].row))
                     \/ WasChanged(writer[w], Visible(w, writer[w].row), content)

(* What a save leaves: its row overlaid by its content, and one event more   *)
(* if the row is new or differs.                                             *)
LEMMA WriteEffect ==
    ASSUME PublicationInv, NEW w \in Writer, Write(w)
    PROVE  \E content \in Content :
             /\ writer[w].at = "read" /\ NotHeld(w, writer[w].row)
             /\ writer' = [writer EXCEPT ![w] = writer'[w]]
             /\ writer'[w].at = "open" /\ writer'[w].batch = writer[w].batch
             /\ writer'[w].wrote = Overlaid(writer[w].wrote, writer[w].row, content)
             /\ writer'[w].pending \in Seq(Event)
             /\ Queued(w)' = Queued(w) \cup
                    (IF Tells(w, content) THEN {WriteEvent(w, content)} ELSE {})
             /\ writer[w].raced \subseteq writer'[w].raced
             /\ (writer[w].old = NoRow /\ Visible(w, writer[w].row) # NoRow) =>
                    writer[w].row \in writer'[w].raced
             /\ content.fields = writer[w].fields
             /\ UNCHANGED <<rows, tasks, messages, saves, committed>>
  <1> DEFINE t == writer[w]
             r == t.row
             now == Visible(w, r)
             details == IF t.details = 0 /\ now # NoRow THEN now.details ELSE t.details
             content == [fields |-> t.fields, details |-> details]
             event == [from |-> w, batch |-> t.batch, number |-> t.number, row |-> r,
                       content |-> content,
                       kind |-> IF WasCreated(t, now) THEN "JOB_CREATED" ELSE "JOB_UPDATED"]
             told == WasCreated(t, now) \/ WasChanged(t, now, content)
             pending == IF told THEN Append(t.pending, event) ELSE t.pending
             raced == IF t.old = NoRow /\ now # NoRow THEN t.raced \cup {r} ELSE t.raced
             new == [at |-> "open", batch |-> t.batch, wrote |-> Overlaid(t.wrote, r, content),
                     pending |-> pending, raced |-> raced]
  <1>1. /\ t.at = "read" /\ NotHeld(w, r)
        /\ writer' = [writer EXCEPT ![w] = new]
        /\ UNCHANGED <<rows, tasks, messages, saves, committed>>
    BY DEF Write
  <1>2. TablesTyped /\ SessionTyped(w)
    BY DEF PublicationInv
  <1>3. writer'[w] = new
    BY <1>1, <1>2 DEF TablesTyped
  <1>4. /\ r \in BaseHash /\ t.fields \in Field /\ t.details \in Detail
        /\ t.batch \in Nat /\ t.number \in Nat /\ t.pending \in Seq(Event)
    BY <1>1, <1>2 DEF SessionTyped, TablesTyped
  <1>5. now \in Content \cup {NoRow}
    BY <1>2, <1>4 DEF Visible, SessionTyped, TablesTyped
  <1>6. details \in Detail
    BY <1>4, <1>5 DEF Content
  <1>7. content \in Content /\ content.fields = t.fields
    BY <1>4, <1>6 DEF Content
  <1>8. event = WriteEvent(w, content) /\ (told <=> Tells(w, content))
    BY DEF WriteEvent, Tells
  <1> HIDE DEF content
  <1>9. event \in Event
    BY <1>4, <1>7 DEF Event
  <1> HIDE DEF event, told
  <1>10. /\ pending \in Seq(Event)
         /\ {pending[i] : i \in DOMAIN pending} =
               {t.pending[i] : i \in DOMAIN t.pending} \cup (IF told THEN {event} ELSE {})
    <2>1. CASE told
      <3>1. pending = Append(t.pending, event)
        BY <2>1
      <3> DEFINE queue == t.pending
      <3>2. queue \in Seq(Event)
        BY <1>4
      <3> HIDE DEF pending, queue
      <3>3. /\ Append(queue, event) \in Seq(Event)
            /\ {Append(queue, event)[i] : i \in DOMAIN Append(queue, event)}
                 = {queue[i] : i \in DOMAIN queue} \cup {event}
        BY <1>9, <3>2, Extended
      <3> QED BY <2>1, <3>1, <3>3 DEF queue
    <2>2. CASE ~told
      BY <1>4, <2>2
    <2> QED BY <2>1, <2>2
  <1> HIDE DEF pending, raced
  <1>11. /\ new.at = "open" /\ new.batch = t.batch /\ new.wrote = Overlaid(t.wrote, r, content)
         /\ new.pending = pending /\ new.raced = raced
    OBVIOUS
  <1>12. Queued(w)' = Queued(w) \cup (IF Tells(w, content) THEN {WriteEvent(w, content)} ELSE {})
    BY <1>3, <1>8, <1>10, <1>11 DEF Queued
  <1>13. t.raced \subseteq raced /\ ((t.old = NoRow /\ now # NoRow) => r \in raced)
    BY DEF raced
  <1>14. writer' = [writer EXCEPT ![w] = writer'[w]]
    BY <1>1, <1>3
  <1> HIDE DEF new, t
  <1> QED BY <1>1, <1>3, <1>7, <1>10, <1>11, <1>12, <1>13, <1>14 DEF t

(* A save tells of what it changes, or overwrites another's insert.          *)
LEMMA WriteStep ==
    ASSUME PublicationInv, NEW w \in Writer, Write(w) PROVE PublicationInv'
  <1> DEFINE t == writer[w]
             r == t.row
             now == Visible(w, r)
  <1>1. PICK content \in Content :
             /\ t.at = "read" /\ NotHeld(w, r)
             /\ writer' = [writer EXCEPT ![w] = writer'[w]]
             /\ writer'[w].at = "open" /\ writer'[w].batch = t.batch
             /\ writer'[w].wrote = Overlaid(t.wrote, r, content)
             /\ writer'[w].pending \in Seq(Event)
             /\ Queued(w)' = Queued(w) \cup
                    (IF Tells(w, content) THEN {WriteEvent(w, content)} ELSE {})
             /\ t.raced \subseteq writer'[w].raced
             /\ (t.old = NoRow /\ now # NoRow) => r \in writer'[w].raced
             /\ content.fields = t.fields
             /\ UNCHANGED <<rows, tasks, messages, saves, committed>>
    BY WriteEffect
  <1>2. /\ TablesTyped /\ saves \in Nat /\ SessionsApart
        /\ SessionTyped(w) /\ SessionOK(w) /\ ReadStands(w) /\ WriteIsTold(w) /\ PatienceOK(w)
    BY DEF PublicationInv, TablesTyped
  <1>3. \A v \in Writer \ {w} : writer'[v] = writer[v]
    BY <1>1, <1>2 DEF TablesTyped
  <1> DEFINE wrote == Overlaid(t.wrote, r, content)
             event == WriteEvent(w, content)
  <1>4. /\ DOMAIN wrote = DOMAIN t.wrote \cup {r} /\ wrote[r] = content
        /\ \A x \in DOMAIN t.wrote \ {r} : wrote[x] = t.wrote[x]
    BY DEF Overlaid
  <1>5. /\ event.from = w /\ event.batch = t.batch /\ event.number = t.number /\ event.row = r
        /\ event.content = content
        /\ event.kind = "JOB_CREATED" <=> WasCreated(t, now)
    BY DEF WriteEvent
  <1>6. r \in BaseHash /\ t.number \in t.batch .. saves /\ t.batch \in 1 .. saves
    BY <1>1, <1>2 DEF SessionTyped
  <1>7. t.old # NoRow => t.old = now
    BY <1>1, <1>2 DEF ReadStands
  <1>8. SessionTyped(w)'
    <2>1. DOMAIN wrote \subseteq BaseHash /\ \A x \in DOMAIN wrote : wrote[x] \in Content
      BY <1>2, <1>4, <1>6 DEF SessionTyped
    <2> HIDE DEF wrote, t
    <2> QED BY <1>1, <1>6, <2>1 DEF SessionTyped, wrote
  <1>9. WasCreated(t, now) => r \notin DOMAIN t.wrote /\ rows[r] = NoRow
    <2> SUFFICES ASSUME now = NoRow PROVE r \notin DOMAIN t.wrote /\ rows[r] = NoRow
      BY DEF WasCreated
    <2>1. r \notin DOMAIN t.wrote
      BY <1>2, ContentIsARow DEF Visible, SessionTyped
    <2> QED BY <2>1 DEF Visible
  <1>10. SessionOK(w)'
    <2>1. ASSUME NEW e \in Queued(w)'
          PROVE  /\ e.from = w /\ e.batch = t.batch /\ e.number \in t.batch .. saves
                 /\ e.row \in DOMAIN wrote
      <3>1. CASE e = event
        BY <1>4, <1>5, <1>6, <3>1
      <3>2. CASE e \in Queued(w)
        BY <1>2, <1>4, <3>2 DEF SessionOK
      <3> QED BY <1>1, <3>1, <3>2
    <2>2. ASSUME NEW e \in Queued(w)', e.kind = "JOB_CREATED"
          PROVE  /\ rows[e.row] = NoRow
                 /\ \/ e \in Queued(w) /\ e.row \in DOMAIN t.wrote
                    \/ e = event /\ r \notin DOMAIN t.wrote
      <3>1. CASE e \in Queued(w)
        BY <1>2, <2>2, <3>1 DEF SessionOK, Creations
      <3>2. CASE e = event
        BY <1>5, <1>9, <2>2, <3>2
      <3> QED BY <1>1, <3>1, <3>2
    <2>3. \A e, f \in Creations(Queued(w)') : e.row = f.row => e = f
      <3> SUFFICES ASSUME NEW e \in Queued(w)', NEW f \in Queued(w)', e.kind = "JOB_CREATED",
                          f.kind = "JOB_CREATED", e.row = f.row
                   PROVE  e = f
        BY DEF Creations
      <3>1. CASE e \in Queued(w) /\ f \in Queued(w)
        BY <1>2, <3>1 DEF SessionOK, Creations
      <3>2. CASE ~(e \in Queued(w) /\ f \in Queued(w))
        BY <1>5, <2>2, <3>2
      <3> QED BY <3>1, <3>2
    <2>4. t.batch \notin committed
      BY <1>1, <1>2 DEF SessionOK
    <2> HIDE DEF wrote, t, event
    <2> QED BY <1>1, <2>1, <2>2, <2>3, <2>4 DEF SessionOK, Creations, wrote
  <1>11. ReadStands(w)'
    BY <1>1 DEF ReadStands
  <1>12. WriteIsTold(w)'
    <2> SUFFICES ASSUME NEW x \in DOMAIN wrote
                 PROVE  \/ x \in writer'[w].raced
                        \/ wrote[x] = rows[x]
                        \/ \E e \in Queued(w)' : e.row = x /\ e.content = wrote[x]
      BY <1>1 DEF WriteIsTold
    <2>1. CASE x \in DOMAIN t.wrote /\ wrote[x] = t.wrote[x]
      <3>1. \/ x \in t.raced
            \/ t.wrote[x] = rows[x]
            \/ \E e \in Queued(w) : e.row = x /\ e.content = t.wrote[x]
        BY <1>2, <2>1 DEF WriteIsTold
      <3> QED BY <1>1, <2>1, <3>1
    <2>2. CASE x = r
      <3>1. CASE Tells(w, content)
        BY <1>1, <1>4, <1>5, <2>2, <3>1
      <3>2. CASE ~Tells(w, content)
        <4>1. CASE t.old = NoRow
          BY <1>1, <2>2, <3>2, <4>1 DEF Tells, WasCreated
        <4>2. CASE t.old # NoRow
          <5>1. now = t.old /\ now # NoRow
            BY <1>7, <4>2
          <5>2. now.fields = content.fields /\ now.details = content.details
            BY <3>2, <5>1 DEF Tells, WasChanged
          <5>3. now \in Content
            BY <1>1, <1>2, <5>1 DEF SessionTyped
          <5>4. now = content
            BY <5>2, <5>3 DEF Content
          <5>5. CASE r \in DOMAIN t.wrote
            BY <1>4, <2>1, <2>2, <5>4, <5>5 DEF Visible
          <5>6. CASE r \notin DOMAIN t.wrote
            BY <1>4, <2>2, <5>4, <5>6 DEF Visible
          <5> QED BY <5>5, <5>6
        <4> QED BY <4>1, <4>2
      <3> QED BY <3>1, <3>2
    <2> QED BY <1>4, <2>1, <2>2
  <1>13. PatienceOK(w)'
    <2>1. Sent' = Sent
      BY <1>1 DEF Sent
    <2> QED BY <1>1, <1>2, <2>1 DEF PatienceOK
  <1>14. SessionsApart'
    <2>1. ASSUME NEW x \in BaseHash, Holds(w, x)' PROVE NotHeld(w, x)
      <3>1. x \in DOMAIN t.wrote \/ x = r
        BY <1>1, <1>4, <2>1 DEF Holds
      <3>2. CASE x \in DOMAIN t.wrote
        BY <1>2, <3>2 DEF Holds, NotHeld, SessionsApart
      <3> QED BY <1>1, <3>1, <3>2
    <2>2. \A v \in Writer \ {w} : writer[v].at # "idle" => writer[v].batch # t.batch
      BY <1>1, <1>2 DEF SessionsApart
    <2> QED BY <1>1, <1>3, <2>1, <2>2, StillApart
  <1>15. saves' = saves
    BY <1>1
  <1> HIDE DEF t, wrote, event
  <1> QED BY <1>1, <1>2, <1>8, <1>10, <1>11, <1>12, <1>13, <1>14, <1>15, SessionStep

(* What a commit does: the rows it wrote, and no others, become visible, and *)
(* its events are handed over.                                               *)
LEMMA CommitEffect ==
    ASSUME PublicationInv, NEW w \in Writer, Commit(w)
    PROVE  /\ writer[w].at = "open" /\ writer'[w] = Closed
           /\ \A v \in Writer \ {w} : writer'[v] = writer[v]
           /\ rows' \in [BaseHash -> Content \cup {NoRow}]
           /\ \A r \in BaseHash \ DOMAIN writer[w].wrote : rows'[r] = rows[r]
           /\ \A r \in DOMAIN writer[w].wrote : /\ r \in BaseHash
                                                /\ rows'[r] = writer[w].wrote[r]
                                                /\ rows'[r] # NoRow
           /\ \A v \in Writer \ {w}, r \in BaseHash : Holds(v, r) => rows'[r] = rows[r]
           /\ tasks' = tasks \cup Queued(w)
           /\ committed' = committed \cup {writer[w].batch}
           /\ messages' = messages /\ Sent' = Sent /\ saves' = saves /\ saves \in Nat
  <1>1. TablesTyped /\ SessionTyped(w) /\ SessionsApart
    BY DEF PublicationInv
  <1>2. /\ writer[w].at = "open"
        /\ rows' = [r \in BaseHash |-> Visible(w, r)]
        /\ committed' = committed \cup {writer[w].batch}
        /\ tasks' = tasks \cup Queued(w)
        /\ writer' = [writer EXCEPT ![w] = Closed]
        /\ messages' = messages /\ saves' = saves
    BY DEF Commit, Queued
  <1>3. writer'[w] = Closed /\ \A v \in Writer \ {w} : writer'[v] = writer[v]
    BY <1>1, <1>2 DEF TablesTyped
  <1>4. \A r \in BaseHash \ DOMAIN writer[w].wrote : rows'[r] = rows[r]
    BY <1>2 DEF Visible
  <1>5. ASSUME NEW r \in DOMAIN writer[w].wrote
        PROVE  r \in BaseHash /\ rows'[r] = writer[w].wrote[r] /\ rows'[r] # NoRow
    <2>1. r \in BaseHash /\ writer[w].wrote[r] \in Content
      BY <1>1 DEF SessionTyped
    <2> QED BY <1>2, <2>1, ContentIsARow DEF Visible
  <1>6. rows' \in [BaseHash -> Content \cup {NoRow}]
    <2>1. \A r \in BaseHash : Visible(w, r) \in Content \cup {NoRow}
      BY <1>1 DEF Visible, SessionTyped, TablesTyped
    <2> QED BY <1>2, <2>1
  <1>7. ASSUME NEW v \in Writer \ {w}, NEW r \in BaseHash, Holds(v, r) PROVE rows'[r] = rows[r]
    BY <1>1, <1>4, <1>7 DEF SessionsApart, Holds
  <1>8. Sent' = Sent
    BY <1>2 DEF Sent
  <1> QED BY <1>1, <1>2, <1>3, <1>4, <1>5, <1>6, <1>7, <1>8 DEF TablesTyped

(* A commit hands over events of its own transaction, told once.             *)
LEMMA CommitStep ==
    ASSUME PublicationInv, NEW w \in Writer, Commit(w) PROVE PublicationInv'
  <1> DEFINE t == writer[w]
  <1>1. /\ t.at = "open" /\ writer'[w] = Closed
        /\ \A v \in Writer \ {w} : writer'[v] = writer[v]
        /\ rows' \in [BaseHash -> Content \cup {NoRow}]
        /\ \A r \in BaseHash \ DOMAIN t.wrote : rows'[r] = rows[r]
        /\ \A r \in DOMAIN t.wrote : r \in BaseHash /\ rows'[r] # NoRow
        /\ \A v \in Writer \ {w}, r \in BaseHash : Holds(v, r) => rows'[r] = rows[r]
        /\ tasks' = tasks \cup Queued(w)
        /\ committed' = committed \cup {t.batch}
        /\ messages' = messages /\ Sent' = Sent /\ saves' = saves /\ saves \in Nat
    BY CommitEffect
  <1>2. /\ TablesTyped /\ SessionsApart /\ AnnouncedOK /\ OldestFirst
        /\ SessionTyped(w) /\ SessionOK(w) /\ PatienceOK(w)
    BY DEF PublicationInv
  <1>3. t.batch \in 1 .. saves
    BY <1>1, <1>2 DEF SessionTyped
  <1>4. Queued(w) \subseteq Event
    <2>1. \A i \in DOMAIN t.pending : t.pending[i] \in Event
      BY <1>2 DEF SessionTyped
    <2> QED BY <2>1 DEF Queued
  <1>5. \A e \in Queued(w) : /\ e.from = w /\ e.batch = t.batch /\ e.number \in t.batch .. saves
                             /\ e.row \in DOMAIN t.wrote
    BY <1>2 DEF SessionOK
  <1>6. TablesTyped'
    <2>1. writer' = [v \in Writer |-> writer'[v]]
      BY <1>2 DEF TablesTyped, Commit
    <2>2. committed' \subseteq 1 .. saves'
      BY <1>1, <1>2, <1>3 DEF TablesTyped
    <2> QED BY <1>1, <1>2, <1>4, <2>1, <2>2 DEF TablesTyped
  <1>7. /\ SessionTyped(w)' /\ SessionOK(w)' /\ ReadStands(w)' /\ WriteIsTold(w)'
        /\ \A r \in BaseHash : ~Holds(w, r)'
    BY <1>1, ClosedIsOK
  <1>8. PatienceOK(w)'
    <2> SUFFICES ASSUME w \in Patient
                 PROVE  /\ \A e, f \in tasks' : e.from = w /\ f.from = w => e.batch = f.batch
                        /\ \A e \in tasks', f \in Sent : e.from = w /\ f.from = w =>
                              e.batch = f.batch \/ f.number < e.number
      BY <1>1 DEF PatienceOK, Closed
    <2>1. \A e \in tasks' : e.from = w => e \in Queued(w)
      BY <1>1, <1>2 DEF PatienceOK
    <2>2. \A f \in Sent : f.from = w => f.number < t.batch
      BY <1>1, <1>2 DEF PatienceOK
    <2>3. \A f \in Sent : f.number \in Nat
      BY <1>2, AnnouncedTyped DEF Event
    <2> QED BY <1>3, <1>5, <2>1, <2>2, <2>3
  <1>9. SessionsApart'
    BY <1>1, <1>7, StillApart DEF Closed
  <1>10. ASSUME NEW v \in Writer \ {w} PROVE Sound(v)'
    <2>1. writer[v].at # "idle" => writer[v].batch \notin committed'
      <3>1. writer[v].at # "idle" => writer[v].batch \notin committed
        BY DEF PublicationInv, SessionOK
      <3>2. writer[v].at # "idle" => writer[v].batch # t.batch
        BY <1>1, <1>2 DEF SessionsApart
      <3> QED BY <1>1, <3>1, <3>2
    <2>2. SessionTyped(v)' /\ SessionOK(v)' /\ ReadStands(v)' /\ WriteIsTold(v)'
      BY <1>1, <2>1, Bystander
    <2>3. \A e \in tasks' : e.from = v => e \in tasks
      BY <1>1, <1>5
    <2>4. PatienceOK(v)'
      BY <1>1, <2>3, BystanderWaits
    <2> QED BY <2>2, <2>4 DEF Sound
  <1>11. AnnouncedOK'
    <2>1. ASSUME NEW e \in tasks \cup Sent
          PROVE  /\ e.batch \in committed' /\ rows'[e.row] # NoRow /\ e.number <= saves
                 /\ rows[e.row] # NoRow
      <3>1. e.batch \in committed /\ rows[e.row] # NoRow /\ e.number <= saves
        BY <1>2 DEF AnnouncedOK
      <3>2. e.row \in BaseHash
        BY <1>2, AnnouncedTyped DEF Event
      <3> QED BY <1>1, <3>1, <3>2
    <2>2. ASSUME NEW e \in Queued(w)
          PROVE  /\ e.batch \in committed' /\ rows'[e.row] # NoRow /\ e.number <= saves
                 /\ e.kind = "JOB_CREATED" => rows[e.row] = NoRow
      BY <1>1, <1>2, <1>3, <1>5 DEF SessionOK, Creations
    <2>3. (tasks \cup Sent)' = (tasks \cup Sent) \cup Queued(w)
      BY <1>1
    <2>4. \A e, f \in Creations((tasks \cup Sent)') : e.row = f.row => e = f
      <3> SUFFICES ASSUME NEW e \in (tasks \cup Sent)', NEW f \in (tasks \cup Sent)',
                          e.kind = "JOB_CREATED", f.kind = "JOB_CREATED", e.row = f.row
                   PROVE  e = f
        BY DEF Creations
      <3>1. CASE e \in tasks \cup Sent /\ f \in tasks \cup Sent
        BY <1>2, <3>1 DEF AnnouncedOK, Creations
      <3>2. CASE e \in Queued(w) /\ f \in Queued(w)
        BY <1>2, <3>2 DEF SessionOK, Creations
      <3> QED BY <2>1, <2>2, <2>3, <3>1, <3>2
    <2> HIDE DEF t
    <2> QED BY <1>1, <2>1, <2>2, <2>3, <2>4 DEF AnnouncedOK, Creations
  <1>12. OldestFirst'
    BY <1>1, <1>2 DEF OldestFirst
  <1> QED BY <1>6, <1>7, <1>8, <1>9, <1>10, <1>11, <1>12 DEF PublicationInv, Sound

(* What a patient session published before is older, or of one transaction.  *)
LEMMA SendingInOrder ==
    ASSUME PublicationInv, NEW t \in tasks, messages' = Append(messages, t)
    PROVE  Sent' = Sent \cup {t} /\ messages' \in Seq(Event) /\ OldestFirst'
  <1>1. messages \in Seq(Event) /\ t \in Event /\ OldestFirst /\ TablesTyped
    BY DEF PublicationInv, TablesTyped
  <1>2. Sent' = Sent \cup {t} /\ messages' \in Seq(Event)
    BY <1>1, Extended DEF Sent
  <1>3. /\ DOMAIN messages' = 1 .. Len(messages) + 1 /\ Len(messages) \in Nat
        /\ messages'[Len(messages) + 1] = t
        /\ \A i \in 1 .. Len(messages) : i \in DOMAIN messages /\ messages'[i] = messages[i]
    BY <1>1
  <1>4. ASSUME NEW i \in DOMAIN messages', NEW j \in DOMAIN messages', i < j,
               messages'[i].from = messages'[j].from, messages'[i].from \in Patient,
               messages'[i].number > messages'[j].number
        PROVE  messages'[i].batch = messages'[j].batch
    <2>1. i \in 1 .. Len(messages)
      BY <1>3, <1>4
    <2>2. CASE j \in 1 .. Len(messages)
      BY <1>1, <1>3, <1>4, <2>1, <2>2 DEF OldestFirst
    <2>3. CASE j = Len(messages) + 1
      <3> DEFINE m == messages[i]
      <3>1. /\ m \in Sent /\ m.from = t.from /\ m.from \in Patient /\ m.number > t.number
            /\ m.from \in Writer /\ m.number \in Nat /\ t.number \in Nat
        <4>1. m \in Sent /\ m = messages'[i] /\ messages'[j] = t
          BY <1>3, <2>1, <2>3 DEF Sent
        <4>2. m \in Event
          BY <1>1, <4>1, AnnouncedTyped
        <4> QED BY <1>1, <1>4, <4>1, <4>2 DEF Event
      <3>2. PatienceOK(m.from)
        BY <3>1 DEF PublicationInv
      <3>3. t.batch = m.batch \/ m.number < t.number
        BY <3>1, <3>2 DEF PatienceOK
      <3> QED BY <1>3, <2>1, <2>3, <3>1, <3>3
    <2> QED BY <1>3, <2>2, <2>3
  <1> QED BY <1>2, <1>4 DEF OldestFirst

(* A publication that runs, or fails, announces nothing new.                 *)
LEMMA TaskStep ==
    ASSUME PublicationInv, NEW t \in tasks, RunTask(t) \/ PublishFails(t)
    PROVE  PublicationInv'
  <1>1. /\ tasks' = tasks \ {t} /\ rows' = rows /\ writer' = writer /\ saves' = saves
        /\ committed' = committed
        /\ messages' = messages \/ messages' = Append(messages, t)
    BY DEF RunTask, PublishFails
  <1>2. TablesTyped /\ saves \in Nat
    BY DEF PublicationInv, TablesTyped
  <1>3. Sent' \subseteq Sent \cup {t} /\ messages' \in Seq(Event) /\ OldestFirst'
    <2>1. CASE messages' = messages
      BY <1>2, <2>1 DEF PublicationInv, OldestFirst, Sent, TablesTyped
    <2>2. CASE messages' = Append(messages, t)
      BY <2>2, SendingInOrder
    <2> QED BY <1>1, <2>1, <2>2
  <1>4. TablesTyped'
    BY <1>1, <1>2, <1>3 DEF TablesTyped
  <1>5. AnnouncedOK'
    BY <1>1, <1>2, <1>3, NothingAnnounced
  <1>6. SessionsApart'
    <2>1. \A v \in Writer, r \in BaseHash : Holds(v, r)' <=> Holds(v, r)
      BY <1>1 DEF Holds
    <2> QED BY <1>1, <2>1 DEF PublicationInv, SessionsApart
  <1>7. ASSUME NEW v \in Writer PROVE Sound(v)'
    <2>1. SessionTyped(v)' /\ SessionOK(v)' /\ ReadStands(v)' /\ WriteIsTold(v)'
      <3>1. writer[v].at # "idle" => writer[v].batch \notin committed'
        BY <1>1 DEF PublicationInv, SessionOK
      <3> QED BY <1>1, <1>2, <3>1, Bystander
    <2>2. PatienceOK(v)'
      <3>1. PatienceOK(v)
        BY DEF PublicationInv
      <3> QED BY <1>1, <1>3, <3>1 DEF PatienceOK
    <2> QED BY <2>1, <2>2 DEF Sound
  <1> QED BY <1>3, <1>4, <1>5, <1>6, <1>7 DEF PublicationInv, Sound

(* Every step keeps the invariant.                                           *)
LEMMA PublicationStep == PublicationInv /\ [PublicationNext]_publication => PublicationInv'
  <1> SUFFICES ASSUME PublicationInv, [PublicationNext]_publication PROVE PublicationInv'
    OBVIOUS
  <1>1. ASSUME NEW w \in Writer, NEW r \in BaseHash, NEW f \in Field, NEW d \in Detail,
               ReadForUpdate(w, r, f, d)
        PROVE  PublicationInv'
    BY <1>1, ReadStep
  <1>2. ASSUME NEW w \in Writer, Write(w) PROVE PublicationInv'
    BY <1>2, WriteStep
  <1>3. ASSUME NEW w \in Writer, Commit(w) PROVE PublicationInv'
    BY <1>3, CommitStep
  <1>4. ASSUME NEW w \in Writer, Rollback(w) \/ WriterStops(w) PROVE PublicationInv'
    BY <1>4, EndingStep
  <1>5. ASSUME NEW t \in tasks, RunTask(t) \/ PublishFails(t) PROVE PublicationInv'
    BY <1>5, TaskStep
  <1>6. CASE UNCHANGED publication
    <2>1. /\ rows' = rows /\ writer' = writer /\ tasks' = tasks /\ messages' = messages
          /\ saves' = saves /\ committed' = committed
      BY <1>6 DEF publication
    <2>2. TablesTyped' /\ OldestFirst' /\ Sent' = Sent
      BY <2>1 DEF PublicationInv, TablesTyped, OldestFirst, Sent
    <2>3. saves \in Nat
      BY DEF PublicationInv, TablesTyped
    <2>4. AnnouncedOK'
      BY <2>1, <2>2, <2>3, NothingAnnounced
    <2>5. SessionsApart'
      <3>1. \A v \in Writer, r \in BaseHash : Holds(v, r)' <=> Holds(v, r)
        BY <2>1 DEF Holds
      <3> QED BY <2>1, <3>1 DEF PublicationInv, SessionsApart
    <2>6. ASSUME NEW v \in Writer PROVE Sound(v)'
      <3>1. writer[v].at # "idle" => writer[v].batch \notin committed'
        BY <2>1 DEF PublicationInv, SessionOK
      <3>2. SessionTyped(v)' /\ SessionOK(v)' /\ ReadStands(v)' /\ WriteIsTold(v)'
        BY <2>1, <2>3, <3>1, Bystander
      <3>3. PatienceOK(v)'
        BY <2>1, <2>2, BystanderWaits
      <3> QED BY <3>2, <3>3 DEF Sound
    <2> QED BY <2>2, <2>4, <2>5, <2>6 DEF PublicationInv, Sound
  <1> QED BY <1>1, <1>2, <1>3, <1>4, <1>5, <1>6 DEF PublicationNext

(* The invariant holds in every reachable state.                             *)
LEMMA PublicationInvariant == PublicationSpec => []PublicationInv
  <1>1. PublicationInit => PublicationInv
    <2> SUFFICES ASSUME PublicationInit PROVE PublicationInv
      OBVIOUS
    <2>1. /\ rows = [r \in BaseHash |-> NoRow] /\ committed = {} /\ tasks = {} /\ messages = <<>>
          /\ saves = 0 /\ writer = [w \in Writer |-> Closed]
      BY DEF PublicationInit
    <2>2. Closed.at = "idle" /\ DOMAIN Closed.wrote = {} /\ Closed.pending = <<>>
      BY DEF Closed
    <2>3. Sent = {} /\ \A w \in Writer : Queued(w) = {} /\ writer[w] = Closed
      BY <2>1, <2>2 DEF Sent, Queued
    <2>4. TablesTyped
      BY <2>1 DEF TablesTyped
    <2>5. \A w \in Writer : /\ SessionTyped(w) /\ SessionOK(w) /\ ReadStands(w) /\ WriteIsTold(w)
                            /\ PatienceOK(w)
      <3> SUFFICES ASSUME NEW w \in Writer
                   PROVE  /\ SessionTyped(w) /\ SessionOK(w) /\ ReadStands(w) /\ WriteIsTold(w)
                          /\ PatienceOK(w)
        OBVIOUS
      <3>1. /\ writer[w] = Closed /\ Queued(w) = {}
            /\ writer[w].at = "idle" /\ DOMAIN writer[w].wrote = {} /\ writer[w].pending = <<>>
        BY <2>2, <2>3
      <3>2. SessionTyped(w)
        BY <3>1 DEF SessionTyped
      <3>3. SessionOK(w) /\ ReadStands(w) /\ WriteIsTold(w)
        BY <3>1 DEF SessionOK, ReadStands, WriteIsTold, Creations
      <3>4. PatienceOK(w)
        BY <2>1, <2>3, <3>1 DEF PatienceOK
      <3> QED BY <3>2, <3>3, <3>4
    <2>6. SessionsApart
      BY <2>2, <2>3 DEF SessionsApart, Holds
    <2>7. AnnouncedOK /\ OldestFirst
      BY <2>1, <2>3 DEF AnnouncedOK, OldestFirst, Creations
    <2> QED BY <2>4, <2>5, <2>6, <2>7 DEF PublicationInv
  <1> QED BY <1>1, PublicationStep, PTL DEF PublicationSpec

(* Session hooks and publish tasks: every commit that changes a posting is   *)
(* told unless it overwrote another's insert, a rolled back one never, a     *)
(* creation once, and a session that waits is told in its order, whatever    *)
(* sessions, rollbacks, crashes and failing publications interleave.         *)
THEOREM CommitsAreTold == PublicationSpec => EventsTellCommits
  <1>1. PublicationInv => PublishedIsCommitted /\ CreatedOnce /\ OldestFirst
    BY DEF PublicationInv, AnnouncedOK, PublishedIsCommitted, CreatedOnce, Announced, Sent, Creations
  <1>2. PublicationInv /\ [PublicationNext]_publication =>
        [\A w \in Writer : (writer[w].at = "open" /\ rows' # rows /\ writer'[w].at = "idle") =>
           \A r \in BaseHash : rows'[r] # rows[r] =>
             \/ r \in writer[w].raced
             \/ \E t \in tasks' \ tasks : t.row = r /\ t.from = w /\ t.content = rows'[r]]_publication
    <2> SUFFICES ASSUME PublicationInv, PublicationNext,
                        NEW w \in Writer, writer[w].at = "open", rows' # rows, writer'[w].at = "idle",
                        NEW r \in BaseHash, rows'[r] # rows[r]
                 PROVE  \/ r \in writer[w].raced
                        \/ \E t \in tasks' \ tasks : /\ t.row = r /\ t.from = w
                                                     /\ t.content = rows'[r]
      OBVIOUS
    <2>1. PICK v \in Writer : Commit(v)
      BY DEF PublicationNext, ReadForUpdate, Write, Rollback, WriterStops, RunTask, PublishFails
    <2>2. v = w
      BY <2>1, CommitEffect
    <2>3. /\ r \in DOMAIN writer[w].wrote /\ rows'[r] = writer[w].wrote[r]
          /\ tasks' = tasks \cup Queued(w)
      BY <2>1, <2>2, CommitEffect
    <2>4. WriteIsTold(w) /\ SessionOK(w) /\ AnnouncedOK
      BY DEF PublicationInv
    <2>5. ASSUME NEW e \in Queued(w) PROVE e \notin tasks /\ e.from = w
      BY <2>4 DEF SessionOK, AnnouncedOK
    <2> QED BY <2>3, <2>4, <2>5 DEF WriteIsTold
  <1> QED BY <1>1, <1>2, PublicationInvariant, PTL
          DEF PublicationSpec, EventsTellCommits, ChangesAnnounced

-----------------------------------------------------------------------------
(* Live events: what a client was given runs up to what it is owed.         *)

(* What a client has received, what waits for it and what is being sent are *)
(* read as runs of the bus that continue each other (UpTo); a client that   *)
(* is dropped gets nothing after.                                           *)

LiveSpec == LiveInit /\ [][LiveNext]_live

Number == Nat \ {0}
Events == Seq(Number)
Client == Socket \cup Feed

\* part is what whole holds before the position after end
UpTo(part, whole, end) ==
    /\ end \in 0 .. Len(whole) /\ Len(part) <= end
    /\ \A k \in 1 .. Len(part) : part[k] = whole[end - Len(part) + k]

\* events the listener has taken from its subscription
Heard == Len(bus) - Len(inbox)

LiveTyped ==
    /\ published \in Nat /\ bus \in Events /\ inbox \in Events /\ current \in Nat
    /\ listener \in {"up", "down"}
    /\ sending \subseteq Socket /\ dropped \subseteq Socket /\ registered \subseteq Socket
    /\ socket \in [Socket -> {"away", "accepted", "open", "gone"}]
    /\ feed \in [Feed -> {"away", "open", "gone"}]
    /\ mailbox \in [Feed -> Events] /\ received \in [Client -> Events]

ClientsInOrder == \A c \in Client : \E end \in 0 .. Len(bus) : UpTo(received[c], bus, end)

FeedsCurrent == \A f \in Feed :
    /\ feed[f] = "away" => received[f] = <<>> /\ mailbox[f] = <<>>
    /\ feed[f] = "open" => /\ UpTo(mailbox[f], bus, Len(bus))
                           /\ UpTo(received[f], bus, Len(bus) - Len(mailbox[f]))

ListenerInOrder ==
    /\ listener = "up" => UpTo(inbox, bus, Len(bus))
    /\ current # 0 => listener = "up" /\ Heard > 0 /\ current = bus[Heard]

SocketsCurrent == \A s \in registered \ dropped :
    listener = "up" => UpTo(received[s], bus, IF s \in sending THEN Heard - 1 ELSE Heard)

SocketsCounted ==
    /\ \A s \in registered : socket[s] = "open"
    /\ \A s \in sending : s \notin dropped /\ (socket[s] = "gone" \/ s \in registered)
    /\ current = 0 => sending = {} /\ dropped = {}
    /\ \A s \in Socket : socket[s] \in {"away", "accepted"} => received[s] = <<>>

LiveInv ==
    LiveTyped /\ ClientsInOrder /\ FeedsCurrent /\ ListenerInOrder /\ SocketsCurrent /\ SocketsCounted

LEMMA NothingIsUpTo ==
    ASSUME NEW whole \in Events, NEW end \in 0 .. Len(whole)
    PROVE  UpTo(<<>>, whole, end)
  BY DEF UpTo, Events

LEMMA UpToLonger ==
    ASSUME NEW whole \in Events, NEW part \in Events, NEW end, UpTo(part, whole, end), NEW x \in Number
    PROVE  UpTo(part, Append(whole, x), end)
  BY DEF UpTo, Events

LEMMA UpToNext ==
    ASSUME NEW whole \in Events, NEW part \in Events, NEW end, UpTo(part, whole, end), end < Len(whole)
    PROVE  UpTo(Append(part, whole[end + 1]), whole, end + 1)
  <1> DEFINE x == whole[end + 1]
  <1>1. x \in Number /\ end \in Nat /\ Len(part) \in Nat
    BY DEF UpTo, Events
  <1> HIDE DEF x
  <1>2. /\ Append(part, x) \in Events /\ Len(Append(part, x)) = Len(part) + 1
        /\ \A k \in 1 .. Len(part) : Append(part, x)[k] = part[k]
        /\ Append(part, x)[Len(part) + 1] = x
    BY <1>1 DEF Events
  <1>3. end + 1 \in 0 .. Len(whole)
    BY DEF UpTo, Events
  <1> DEFINE longer == Append(part, x)
  <1>4. PICK p \in Nat : p = Len(part)
    BY <1>1
  <1> HIDE DEF longer
  <1>5. Len(longer) = p + 1 /\ longer[p + 1] = x /\ \A k \in 1 .. p : longer[k] = part[k]
    BY <1>2, <1>4 DEF longer
  <1>6. p <= end /\ \A k \in 1 .. p : part[k] = whole[end - p + k]
    BY <1>4 DEF UpTo
  <1>7. p + 1 <= end + 1 /\ \A k \in 1 .. p + 1 : longer[k] = whole[(end + 1) - (p + 1) + k]
    <2>1. ASSUME NEW k \in 1 .. p + 1 PROVE longer[k] = whole[(end + 1) - (p + 1) + k]
      <3>1. (end + 1) - (p + 1) + k = end - p + k
        BY <1>1, <1>4
      <3>2. CASE k = p + 1
        <4>1. end - p + k = end + 1
          BY <1>1, <1>4, <3>2
        <4> QED BY <1>5, <3>1, <3>2, <4>1 DEF x
      <3>3. CASE k \in 1 .. p
        BY <1>5, <1>6, <3>1, <3>3
      <3> QED BY <2>1, <3>2, <3>3, <1>4
    <2> QED BY <1>1, <1>6, <2>1, <1>4
  <1>8. Len(longer) <= end + 1 /\ \A k \in 1 .. Len(longer) : longer[k] = whole[(end + 1) - Len(longer) + k]
    BY <1>5, <1>7
  <1>9. UpTo(longer, whole, end + 1)
    BY <1>3, <1>8 DEF UpTo
  <1> QED BY <1>9 DEF longer, x

LEMMA UpToBoth ==
    ASSUME NEW whole \in Events, NEW part \in Events, UpTo(part, whole, Len(whole)), NEW x \in Number
    PROVE  UpTo(Append(part, x), Append(whole, x), Len(whole) + 1)
  <1>1. /\ Len(Append(part, x)) = Len(part) + 1 /\ Len(Append(whole, x)) = Len(whole) + 1
        /\ \A k \in 1 .. Len(part) : Append(part, x)[k] = part[k]
        /\ Append(part, x)[Len(part) + 1] = x
        /\ \A k \in 1 .. Len(whole) : Append(whole, x)[k] = whole[k]
        /\ Append(whole, x)[Len(whole) + 1] = x
        /\ Len(part) \in Nat /\ Len(whole) \in Nat
    BY DEF Events
  <1> QED BY <1>1 DEF UpTo

LEMMA UpToRest ==
    ASSUME NEW whole \in Events, NEW part \in Events, NEW end, UpTo(part, whole, end), part # <<>>
    PROVE  /\ UpTo(Tail(part), whole, end) /\ Len(Tail(part)) = Len(part) - 1
           /\ Head(part) = whole[end - Len(part) + 1]
           /\ Head(part) \in Number /\ Tail(part) \in Events /\ Len(part) \in 1 .. Len(whole)
  <1>1. /\ Len(part) \in Nat \ {0} /\ Tail(part) \in Events /\ Len(Tail(part)) = Len(part) - 1
        /\ \A k \in 1 .. Len(part) - 1 : Tail(part)[k] = part[k + 1]
        /\ Head(part) = part[1] /\ part[1] \in Number /\ Len(whole) \in Nat
    BY DEF Events
  <1> QED BY <1>1 DEF UpTo

LEMMA UpToIsConsecutive ==
    ASSUME NEW whole \in Events, NEW part \in Events, NEW end, UpTo(part, whole, end)
    PROVE  Consecutive(part, whole)
  <1> DEFINE i == end - Len(part)
  <1>1. Len(part) \in Nat /\ Len(whole) \in Nat /\ end \in 0 .. Len(whole) /\ Len(part) <= end
    BY DEF UpTo, Events
  <1>2. i \in 0 .. Len(whole) - Len(part)
    BY <1>1
  <1>3. part = SubSeq(whole, i + 1, i + Len(part))
    <2>1. PICK a \in Int : a = i + 1
      BY <1>1
    <2>2. PICK b \in Int : b = i + Len(part)
      BY <1>1
    <2>3. \A k \in a .. b : whole[k] \in Number
      BY <1>1, <1>2, <2>1, <2>2 DEF Events
    <2>4. /\ SubSeq(whole, a, b) \in Seq(Number)
          /\ Len(SubSeq(whole, a, b)) = IF a <= b THEN b - a + 1 ELSE 0
          /\ \A k \in 1 .. b - a + 1 : SubSeq(whole, a, b)[k] = whole[a + k - 1]
      BY <2>3, SubSeqProperties
    <2>5. \A k \in 1 .. Len(part) : part[k] = whole[i + k]
      BY DEF UpTo
    <2> HIDE DEF i
    <2>6. /\ Len(SubSeq(whole, a, b)) = Len(part)
          /\ \A k \in 1 .. Len(part) : SubSeq(whole, a, b)[k] = whole[i + k]
      BY <1>1, <1>2, <2>1, <2>2, <2>4
    <2>7. part = SubSeq(whole, a, b)
      BY <2>4, <2>5, <2>6, SeqEqual DEF Events
    <2> QED BY <2>1, <2>2, <2>7
  <1> QED BY <1>2, <1>3 DEF Consecutive

-----------------------------------------------------------------------------
LEMMA LiveInitially == LiveInit => LiveInv
  <1> SUFFICES ASSUME LiveInit PROVE LiveInv
    OBVIOUS
  <1>1. LiveTyped
    BY DEF LiveInit, LiveTyped, Events, Client
  <1>2. bus = <<>> /\ inbox = <<>> /\ \A c \in Client : received[c] = <<>>
    BY DEF LiveInit, Client
  <1>3. ClientsInOrder
    BY <1>1, <1>2, NothingIsUpTo DEF ClientsInOrder, LiveTyped
  <1>4. FeedsCurrent
    BY <1>2 DEF LiveInit, FeedsCurrent, Client
  <1>5. ListenerInOrder
    BY <1>1, <1>2, NothingIsUpTo DEF LiveInit, ListenerInOrder, LiveTyped
  <1>6. SocketsCurrent /\ SocketsCounted
    BY <1>2 DEF LiveInit, SocketsCurrent, SocketsCounted, Client
  <1> QED BY <1>1, <1>3, <1>4, <1>5, <1>6 DEF LiveInv

LEMMA PublishKeeps ==
    ASSUME LiveInv, NEW reaches \in BOOLEAN, PublishJobEvent(reaches)
    PROVE  LiveInv'
  <1>1. /\ LiveTyped /\ published + 1 \in Number
        /\ UNCHANGED <<listener, sending, current, dropped, registered, socket, feed, received>>
    BY DEF LiveInv, LiveTyped, PublishJobEvent, Number, Round
  <1>2. CASE ~reaches
    <2>1. UNCHANGED <<bus, inbox, mailbox>> /\ published' \in Nat
      BY <1>1, <1>2 DEF PublishJobEvent, LiveTyped
    <2>2. LiveTyped'
      BY <1>1, <2>1 DEF LiveTyped
    <2> QED BY <1>1, <2>1, <2>2
        DEF LiveInv, ClientsInOrder, FeedsCurrent, ListenerInOrder, SocketsCurrent, SocketsCounted, Heard
  <1>3. CASE reaches
    <2> DEFINE x == published + 1
    <2>1. /\ bus' = Append(bus, x)
          /\ inbox' = IF listener = "up" THEN Append(inbox, x) ELSE inbox
          /\ mailbox' = [f \in Feed |-> IF feed[f] = "open" THEN Append(mailbox[f], x) ELSE mailbox[f]]
          /\ published' \in Nat
      BY <1>1, <1>3 DEF PublishJobEvent, LiveTyped
    <2>2. bus \in Events /\ inbox \in Events /\ x \in Number /\ mailbox \in [Feed -> Events]
          /\ received \in [Client -> Events] /\ Len(bus) \in Nat /\ Len(inbox) \in Nat
      BY <1>1 DEF LiveTyped, Events
    <2> HIDE DEF x
    <2>3. /\ bus' \in Events /\ Len(bus') = Len(bus) + 1
          /\ \A k \in 1 .. Len(bus) : bus'[k] = bus[k]
      BY <2>1, <2>2 DEF Events
    <2>4. LiveTyped'
      <3>1. \A part \in Events : Append(part, x) \in Events
        BY <2>2 DEF Events
      <3>2. inbox' \in Events /\ mailbox' \in [Feed -> Events]
        BY <2>1, <2>2, <3>1
      <3> QED BY <1>1, <2>1, <2>3, <3>2 DEF LiveTyped
    <2>5. \A part \in Events : \A end : UpTo(part, bus, end) => UpTo(part, bus', end)
      BY <2>1, <2>2, UpToLonger
    <2>6. ClientsInOrder'
      BY <1>1, <2>2, <2>3, <2>5 DEF LiveInv, ClientsInOrder
    <2>7. FeedsCurrent'
      <3>1. SUFFICES ASSUME NEW f \in Feed
                     PROVE /\ feed[f] = "away" => received[f] = <<>> /\ mailbox'[f] = <<>>
                           /\ feed[f] = "open" => /\ UpTo(mailbox'[f], bus', Len(bus'))
                                                  /\ UpTo(received[f], bus', Len(bus') - Len(mailbox'[f]))
        BY <1>1 DEF FeedsCurrent
      <3>2. feed[f] = "away" => received[f] = <<>> /\ mailbox'[f] = <<>>
        BY <2>1 DEF LiveInv, FeedsCurrent
      <3>3. ASSUME feed[f] = "open"
            PROVE  UpTo(mailbox'[f], bus', Len(bus')) /\ UpTo(received[f], bus', Len(bus') - Len(mailbox'[f]))
        <4>1. /\ mailbox'[f] = Append(mailbox[f], x) /\ mailbox[f] \in Events /\ received[f] \in Events
              /\ UpTo(mailbox[f], bus, Len(bus)) /\ UpTo(received[f], bus, Len(bus) - Len(mailbox[f]))
          BY <2>1, <2>2, <3>3 DEF LiveInv, FeedsCurrent, Client
        <4>2. UpTo(mailbox'[f], bus', Len(bus'))
          BY <2>1, <2>2, <2>3, <4>1, UpToBoth
        <4>3. Len(bus') - Len(mailbox'[f]) = Len(bus) - Len(mailbox[f])
          BY <2>2, <2>3, <4>1 DEF Events
        <4> QED BY <2>5, <4>1, <4>2, <4>3
      <3> QED BY <3>2, <3>3
    <2>8. listener = "up" => Heard' = Heard
      BY <2>1, <2>2, <2>3 DEF Heard, Events
    <2>9. ListenerInOrder'
      <3>1. listener = "up" => UpTo(inbox', bus', Len(bus'))
        BY <2>1, <2>2, <2>3, UpToBoth DEF LiveInv, ListenerInOrder
      <3>2. Heard \in Int /\ Heard <= Len(bus)
        BY <2>2 DEF Heard
      <3>3. current # 0 => listener = "up" /\ Heard' > 0 /\ current = bus'[Heard']
        BY <2>3, <2>8, <3>2 DEF LiveInv, ListenerInOrder
      <3> QED BY <1>1, <3>1, <3>3 DEF ListenerInOrder
    <2>10. SocketsCurrent'
      <3>1. \A s \in registered : received[s] \in Events
        BY <1>1 DEF LiveTyped, Client
      <3> QED BY <1>1, <2>5, <2>8, <3>1 DEF LiveInv, SocketsCurrent
    <2> QED BY <1>1, <2>4, <2>6, <2>7, <2>9, <2>10 DEF LiveInv, SocketsCounted
  <1> QED BY <1>2, <1>3

LEMMA BroadcastKeeps == LiveInv /\ Broadcast => LiveInv'
  <1> SUFFICES ASSUME LiveInv, Broadcast PROVE LiveInv'
    OBVIOUS
  <1>1. /\ LiveTyped /\ listener = "up" /\ inbox # <<>> /\ current = 0
        /\ inbox' = Tail(inbox) /\ current' = Head(inbox) /\ sending' = registered /\ dropped' = {}
        /\ UNCHANGED <<published, bus, listener, registered, socket, feed, mailbox, received>>
    BY DEF LiveInv, Broadcast, IdleListener
  <1>2. /\ UpTo(Tail(inbox), bus, Len(bus)) /\ Len(Tail(inbox)) = Len(inbox) - 1
        /\ Head(inbox) = bus[Len(bus) - Len(inbox) + 1]
        /\ Head(inbox) \in Number /\ Tail(inbox) \in Events /\ Len(inbox) \in 1 .. Len(bus)
        /\ Len(bus) \in Nat
    BY <1>1, UpToRest DEF LiveInv, ListenerInOrder, LiveTyped, Events
  <1>3. Heard' = Heard + 1 /\ Heard \in Nat
    BY <1>1, <1>2 DEF Heard
  <1>4. LiveTyped'
    BY <1>1, <1>2 DEF LiveTyped, Number
  <1>5. ListenerInOrder'
    BY <1>1, <1>2, <1>3 DEF ListenerInOrder, Heard
  <1>6. SocketsCurrent'
    BY <1>1, <1>3 DEF LiveInv, SocketsCurrent, SocketsCounted
  <1>7. ClientsInOrder' /\ FeedsCurrent'
    BY <1>1 DEF LiveInv, ClientsInOrder, FeedsCurrent
  <1>8. SocketsCounted'
    BY <1>1, <1>2 DEF LiveInv, SocketsCounted, Number
  <1> QED BY <1>4, <1>5, <1>6, <1>7, <1>8 DEF LiveInv

\* the next event of the bus goes to a socket that had all before
LEMMA GotNext ==
    ASSUME LiveInv, NEW s \in sending, socket[s] = "open"
    PROVE  /\ s \in registered \ dropped /\ s \in Socket /\ Heard \in Number /\ current = bus[Heard]
           /\ listener = "up" /\ current \in Number
           /\ UpTo(Append(received[s], current), bus, Heard)
           /\ Got(s, current) \in [Client -> Events]
           /\ \A c \in Client : Got(s, current)[c] = IF c = s THEN Append(received[s], current) ELSE received[c]
  <1>1. /\ s \in registered \ dropped /\ current # 0 /\ s \in Socket
        /\ listener = "up" /\ Heard > 0 /\ current = bus[Heard]
        /\ bus \in Events /\ inbox \in Events /\ received \in [Client -> Events] /\ current \in Number
    BY DEF LiveInv, SocketsCounted, ListenerInOrder, LiveTyped, Number
  <1>2. Heard \in Number /\ Heard <= Len(bus) /\ Len(bus) \in Nat
    BY <1>1 DEF Heard, Events, Number
  <1>3. UpTo(received[s], bus, Heard - 1) /\ received[s] \in Events
    BY <1>1 DEF LiveInv, SocketsCurrent, Client
  <1>4. UpTo(Append(received[s], bus[Heard - 1 + 1]), bus, Heard - 1 + 1)
    BY <1>1, <1>2, <1>3, UpToNext DEF Number
  <1>5. Heard - 1 + 1 = Heard
    BY <1>2 DEF Number
  <1>6. Append(received[s], current) \in Events
    BY <1>1, <1>3 DEF Events
  <1> QED BY <1>1, <1>2, <1>4, <1>5, <1>6 DEF Got, Client

LEMMA SendKeeps ==
    ASSUME LiveInv, NEW s \in Socket, Delivered(s) \/ SendFails(s)
    PROVE  LiveInv'
  <1>1. /\ LiveTyped /\ s \in sending /\ sending' = sending \ {s}
        /\ UNCHANGED <<published, bus, listener, inbox, feed, mailbox, current, registered, socket>>
        /\ dropped' = dropped \/ dropped' = dropped \cup {s}
        /\ \/ received' = received /\ s \in dropped'
           \/ socket[s] = "open" /\ received' = Got(s, current)
    BY DEF LiveInv, Delivered, SendFails, Taken
  <1>2. bus \in Events /\ Len(bus) \in Nat /\ Heard' = Heard
    BY <1>1 DEF LiveTyped, Events, Heard
  <1>3. CASE received' = received /\ s \in dropped'
    <2>1. LiveTyped'
      BY <1>1, <1>3 DEF LiveTyped
    <2>2. SocketsCurrent' /\ SocketsCounted'
      BY <1>1, <1>2, <1>3 DEF LiveInv, SocketsCurrent, SocketsCounted, LiveTyped, ListenerInOrder
    <2> QED BY <1>1, <1>2, <1>3, <2>1, <2>2 DEF LiveInv, ClientsInOrder, FeedsCurrent, ListenerInOrder
  <1>4. CASE socket[s] = "open" /\ received' = Got(s, current)
    <2>1. /\ s \in registered \ dropped /\ Heard \in Number /\ listener = "up"
          /\ UpTo(received'[s], bus, Heard)
          /\ received' \in [Client -> Events]
          /\ \A c \in Client : c # s => received'[c] = received[c]
          /\ s \in Client
      BY <1>1, <1>4, GotNext DEF Client
    <2>2. LiveTyped'
      BY <1>1, <2>1 DEF LiveTyped
    <2>3. ClientsInOrder'
      <3>1. \E end \in 0 .. Len(bus) : UpTo(received'[s], bus, end)
        BY <1>2, <2>1 DEF UpTo
      <3> QED BY <1>1, <2>1, <3>1 DEF LiveInv, ClientsInOrder
    <2>4. FeedsCurrent'
      BY <1>1, <2>1, LiveAssumption DEF LiveInv, FeedsCurrent, Client
    <2>5. SocketsCurrent'
      BY <1>1, <1>2, <2>1 DEF LiveInv, SocketsCurrent, LiveTyped, Client
    <2>6. SocketsCounted'
      BY <1>1, <1>4, <2>1 DEF LiveInv, SocketsCounted, LiveTyped, Client, ListenerInOrder
    <2> QED BY <1>1, <1>2, <2>2, <2>3, <2>4, <2>5, <2>6 DEF LiveInv, ListenerInOrder
  <1> QED BY <1>1, <1>3, <1>4

LEMMA EndBroadcastKeeps == LiveInv /\ EndBroadcast => LiveInv'
  <1> SUFFICES ASSUME LiveInv, EndBroadcast PROVE LiveInv'
    OBVIOUS
  <1>1. /\ LiveTyped /\ current # 0 /\ sending = {} /\ current' = 0 /\ dropped' = {}
        /\ registered' = registered \ dropped
        /\ UNCHANGED <<published, bus, listener, inbox, feed, mailbox, sending, received>>
    BY DEF LiveInv, EndBroadcast, Taken, Kept
  <1>2. PICK closed \in SUBSET dropped :
          socket' = [s \in Socket |-> IF s \in closed THEN "gone" ELSE socket[s]]
    BY DEF EndBroadcast
  <1>3. LiveTyped' /\ Heard' = Heard
    BY <1>1, <1>2 DEF LiveTyped, Heard
  <1>4. SocketsCurrent' /\ SocketsCounted'
    BY <1>1, <1>2, <1>3 DEF LiveInv, SocketsCurrent, SocketsCounted, LiveTyped
  <1> QED BY <1>1, <1>3, <1>4 DEF LiveInv, ClientsInOrder, FeedsCurrent, ListenerInOrder

LEMMA ListenerDiesKeeps == LiveInv /\ ListenerDies => LiveInv'
  <1> SUFFICES ASSUME LiveInv, ListenerDies PROVE LiveInv'
    OBVIOUS
  <1>1. /\ LiveTyped /\ current = 0 /\ listener' = "down" /\ inbox' = <<>>
        /\ UNCHANGED <<published, bus, sending, current, dropped, registered, socket, feed, mailbox, received>>
    BY DEF LiveInv, ListenerDies, Round, IdleListener
  <1>2. LiveTyped'
    BY <1>1 DEF LiveTyped, Events
  <1> QED BY <1>1, <1>2 DEF LiveInv, ClientsInOrder, FeedsCurrent, ListenerInOrder, SocketsCurrent, SocketsCounted

LEMMA ConnectionKeeps ==
    ASSUME LiveInv, NEW s \in Socket, Accept(s) \/ Register(s) \/ Disconnect(s)
    PROVE  LiveInv'
  <1>1. /\ LiveTyped
        /\ UNCHANGED <<published, bus, listener, inbox, feed, mailbox, sending, current, dropped, received>>
    BY DEF LiveInv, Accept, Register, Disconnect, Taken, Round
  <1>2. Heard' = Heard
    BY <1>1 DEF Heard
  <1>3. \/ socket[s] = "away" /\ socket' = [socket EXCEPT ![s] = "accepted"] /\ registered' = registered
        \/ socket[s] = "accepted" /\ socket' = [socket EXCEPT ![s] = "open"] /\ registered' = registered \cup {s}
        \/ socket[s] = "open" /\ socket' = [socket EXCEPT ![s] = "gone"] /\ registered' = registered \ {s}
    BY DEF Accept, Register, Disconnect
  <1>4. LiveTyped'
    BY <1>1, <1>3 DEF LiveTyped
  <1>5. SocketsCounted'
    BY <1>1, <1>3 DEF LiveInv, LiveTyped, SocketsCounted
  <1>6. SocketsCurrent'
    <2>1. CASE socket[s] = "accepted" /\ registered' = registered \cup {s}
      <3>1. received[s] = <<>> /\ s \notin sending
        BY <1>1, <2>1 DEF LiveInv, SocketsCounted
      <3>2. listener = "up" => Heard \in 0 .. Len(bus) /\ bus \in Events
        BY <1>1 DEF LiveInv, ListenerInOrder, UpTo, Heard, LiveTyped, Events
      <3>3. listener = "up" => UpTo(received[s], bus, Heard)
        BY <3>1, <3>2, NothingIsUpTo
      <3> QED BY <1>1, <1>2, <2>1, <3>1, <3>3 DEF LiveInv, SocketsCurrent
    <2>2. CASE registered' \subseteq registered
      BY <1>1, <1>2, <2>2 DEF LiveInv, SocketsCurrent
    <2> QED BY <1>3, <2>1, <2>2
  <1> QED BY <1>1, <1>2, <1>4, <1>5, <1>6 DEF LiveInv, ClientsInOrder, FeedsCurrent, ListenerInOrder

LEMMA FeedKeeps ==
    ASSUME LiveInv, NEW f \in Feed, Subscribe(f) \/ Yield(f) \/ Unsubscribe(f)
    PROVE  LiveInv'
  <1>1. /\ LiveTyped
        /\ UNCHANGED <<published, bus, listener, inbox, sending, current, dropped, registered, socket>>
    BY DEF LiveInv, Subscribe, Yield, Unsubscribe, Round
  <1>2. /\ Heard' = Heard /\ bus \in Events /\ Len(bus) \in Nat
        /\ mailbox \in [Feed -> Events] /\ received \in [Client -> Events]
        /\ feed \in [Feed -> {"away", "open", "gone"}] /\ f \in Client
    BY <1>1 DEF Heard, LiveTyped, Events, Client
  <1>3. CASE Subscribe(f)
    <2>1. /\ feed[f] = "away" /\ feed' = [feed EXCEPT ![f] = "open"] /\ UNCHANGED <<mailbox, received>>
          /\ received[f] = <<>> /\ mailbox[f] = <<>>
      BY <1>3 DEF Subscribe, LiveInv, FeedsCurrent
    <2>2. UpTo(<<>>, bus, Len(bus)) /\ Len(bus) - Len(<<>>) = Len(bus)
      BY <1>2, NothingIsUpTo
    <2>3. FeedsCurrent'
      BY <1>1, <1>2, <2>1, <2>2 DEF LiveInv, FeedsCurrent
    <2>4. LiveTyped'
      BY <1>1, <1>2, <2>1 DEF LiveTyped
    <2> QED BY <1>1, <1>2, <2>1, <2>3, <2>4
        DEF LiveInv, ClientsInOrder, ListenerInOrder, SocketsCurrent, SocketsCounted
  <1>4. CASE Yield(f)
    <2>1. /\ feed[f] = "open" /\ mailbox[f] # <<>> /\ UNCHANGED feed
          /\ mailbox' = [mailbox EXCEPT ![f] = Tail(mailbox[f])]
          /\ received' = [received EXCEPT ![f] = Append(received[f], Head(mailbox[f]))]
      BY <1>2, <1>4 DEF Yield, Got
    <2>2. /\ mailbox[f] \in Events /\ received[f] \in Events
          /\ UpTo(mailbox[f], bus, Len(bus)) /\ UpTo(received[f], bus, Len(bus) - Len(mailbox[f]))
      BY <1>2, <2>1 DEF LiveInv, FeedsCurrent
    <2>3. /\ UpTo(Tail(mailbox[f]), bus, Len(bus)) /\ Len(Tail(mailbox[f])) = Len(mailbox[f]) - 1
          /\ Head(mailbox[f]) = bus[Len(bus) - Len(mailbox[f]) + 1]
          /\ Head(mailbox[f]) \in Number /\ Tail(mailbox[f]) \in Events /\ Len(mailbox[f]) \in 1 .. Len(bus)
      BY <1>2, <2>1, <2>2, UpToRest
    <2>4. UpTo(Append(received[f], Head(mailbox[f])), bus, Len(bus) - Len(Tail(mailbox[f])))
      <3>1. PICK end \in Nat : end = Len(bus) - Len(mailbox[f])
        BY <1>2, <2>3
      <3>2. UpTo(Append(received[f], bus[end + 1]), bus, end + 1)
        BY <1>2, <2>2, <2>3, <3>1, UpToNext
      <3>3. end + 1 = Len(bus) - Len(Tail(mailbox[f]))
        <4>1. PICK n \in Nat : n = Len(mailbox[f])
          BY <1>2, <2>3
        <4>2. Len(Tail(mailbox[f])) = n - 1
          BY <2>3, <4>1
        <4>3. Len(bus) \in Nat /\ end = Len(bus) - n
          BY <1>2, <3>1, <4>1
        <4>4. \A m : m = n - 1 => end + 1 = Len(bus) - m
          BY <4>3
        <4> QED BY <4>2, <4>4
      <3> QED BY <2>3, <3>1, <3>2, <3>3
    <2>5. Append(received[f], Head(mailbox[f])) \in Events
      BY <2>2, <2>3 DEF Events
    <2>6. LiveTyped'
      BY <1>1, <1>2, <2>1, <2>3, <2>5 DEF LiveTyped
    <2>7. FeedsCurrent'
      BY <1>1, <1>2, <2>1, <2>3, <2>4 DEF LiveInv, FeedsCurrent, Client
    <2>8. ClientsInOrder'
      <3>1. \E end \in 0 .. Len(bus) : UpTo(Append(received[f], Head(mailbox[f])), bus, end)
        BY <1>2, <2>4 DEF UpTo
      <3> QED BY <1>1, <1>2, <2>1, <3>1 DEF LiveInv, ClientsInOrder
    <2>9. \A s \in Socket : received'[s] = received[s]
      BY <1>2, <2>1, LiveAssumption DEF Client
    <2>10. SocketsCurrent' /\ SocketsCounted'
      BY <1>1, <1>2, <2>9 DEF LiveInv, SocketsCurrent, SocketsCounted, LiveTyped
    <2> QED BY <1>1, <1>2, <2>6, <2>7, <2>8, <2>10 DEF LiveInv, ListenerInOrder
  <1>5. CASE Unsubscribe(f)
    <2>1. /\ feed' = [feed EXCEPT ![f] = "gone"] /\ mailbox' = [mailbox EXCEPT ![f] = <<>>]
          /\ UNCHANGED received
      BY <1>5 DEF Unsubscribe
    <2>2. LiveTyped'
      BY <1>1, <1>2, <2>1 DEF LiveTyped, Events
    <2>3. FeedsCurrent'
      BY <1>1, <1>2, <2>1 DEF LiveInv, FeedsCurrent
    <2> QED BY <1>1, <1>2, <2>1, <2>2, <2>3
        DEF LiveInv, ClientsInOrder, ListenerInOrder, SocketsCurrent, SocketsCounted
  <1> QED BY <1>3, <1>4, <1>5

LEMMA LiveStep == LiveInv /\ [LiveNext]_live => LiveInv'
  <1> SUFFICES ASSUME LiveInv, [LiveNext]_live PROVE LiveInv'
    OBVIOUS
  <1>1. CASE LiveNext
    <2>1. ASSUME NEW reaches \in BOOLEAN, PublishJobEvent(reaches) PROVE LiveInv'
      BY <2>1, PublishKeeps
    <2>2. Broadcast \/ EndBroadcast \/ ListenerDies => LiveInv'
      BY BroadcastKeeps, EndBroadcastKeeps, ListenerDiesKeeps
    <2>3. ASSUME NEW s \in Socket, Delivered(s) \/ SendFails(s) \/ Accept(s) \/ Register(s) \/ Disconnect(s)
          PROVE  LiveInv'
      BY <2>3, SendKeeps, ConnectionKeeps
    <2>4. ASSUME NEW f \in Feed, Subscribe(f) \/ Yield(f) \/ Unsubscribe(f) PROVE LiveInv'
      BY <2>4, FeedKeeps
    <2> QED BY <1>1, <2>1, <2>2, <2>3, <2>4 DEF LiveNext
  <1>2. CASE UNCHANGED live
    BY <1>2 DEF live, Taken, Round, LiveInv, LiveTyped, ClientsInOrder, FeedsCurrent, ListenerInOrder,
                SocketsCurrent, SocketsCounted, Heard
  <1> QED BY <1>1, <1>2

LEMMA LiveOrder == LiveInv => NoGaps
  BY UpToIsConsecutive DEF LiveInv, ClientsInOrder, LiveTyped, NoGaps, Client

(* RealtimePublisher and the live routes: whatever clients join, leave, time *)
(* out or are dropped during a broadcast, what one has received is a run of  *)
(* consecutive events of the bus.                                            *)
THEOREM ClientsGetNoGaps == LiveSpec => []NoGaps
  BY LiveInitially, LiveStep, LiveOrder, PTL DEF LiveSpec
=============================================================================
