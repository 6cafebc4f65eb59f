----------------------- MODULE DiscoveryMatchingProofs -----------------------
(***************************************************************************)
(* Theorems about DiscoveryMatching: a discovery is listed in one recap of *)
(* a subscriber, matches as it was committed, and is missed by no window   *)
(* that was open at its commit.                                            *)
(***************************************************************************)
EXTENDS DiscoveryMatching, TLAPS

-----------------------------------------------------------------------------
(* Cutoffs                                                                   *)

(* The days of a zone: today's cutoff is the one a whole number of days from *)
(* the first.                                                                *)
LEMMA Today ==
    ASSUME NEW t \in Nat
    PROVE  /\ t % DayLength \in 0 .. DayLength - 1
           /\ \E k \in Int : t - (t % DayLength) = DayLength * k
  <1>1. DayLength \in Nat /\ DayLength > 0
    BY ZoneAssumption
  <1>2. t % DayLength \in 0 .. DayLength - 1
    BY <1>1
  <1>3. t = DayLength * (t \div DayLength) + (t % DayLength) /\ t \div DayLength \in Int
    BY <1>1
  <1> QED BY <1>1, <1>2, <1>3

(* NextCutoff() is later than t by a day at most.                            *)
LEMMA CutoffFollows ==
    ASSUME NEW t \in Nat, NEW z \in Zone
    PROVE  /\ NextCutoff(t, z) \in Nat
           /\ t < NextCutoff(t, z) /\ NextCutoff(t, z) <= t + DayLength
           /\ \E k \in Int : NextCutoff(t, z) = DayLength * k + CutoffOf[z]
  <1>1. DayLength \in Nat /\ DayLength > 0 /\ CutoffOf[z] \in 0 .. DayLength - 1
    BY ZoneAssumption
  <1>2. PICK k \in Int : t - (t % DayLength) = DayLength * k
    BY Today
  <1>3. t % DayLength \in 0 .. DayLength - 1
    BY Today
  <1> DEFINE r == t % DayLength
             today == t - r + CutoffOf[z]
  <1>4. NextCutoff(t, z) = IF today <= t THEN today + DayLength ELSE today
    BY DEF NextCutoff
  <1>5. today = DayLength * k + CutoffOf[z]
    BY <1>2
  <1>6. today + DayLength = DayLength * (k + 1) + CutoffOf[z]
    BY <1>5, <1>1
  <1>7. r \in 0 .. DayLength - 1 /\ t - r >= 0
    <2>1. t - r = DayLength * k
      BY <1>2
    <2>2. k >= 0
      <3> SUFFICES ASSUME k < 0 PROVE FALSE
        OBVIOUS
      <3>1. DayLength * k <= -DayLength
        BY <1>1
      <3> QED BY <2>1, <3>1, <1>3, <1>1
    <2> QED BY <2>1, <2>2, <1>3, <1>1
  <1> HIDE DEF r
  <1>8. /\ NextCutoff(t, z) \in Nat
        /\ t < NextCutoff(t, z) /\ NextCutoff(t, z) <= t + DayLength
    BY <1>1, <1>4, <1>7
  <1>9. \E j \in Int : NextCutoff(t, z) = DayLength * j + CutoffOf[z]
    BY <1>4, <1>5, <1>6
  <1> QED BY <1>8, <1>9

(* Of the cutoffs of a zone only one follows t within a day.                 *)
LEMMA OneCutoffADay ==
    ASSUME NEW t \in Int, NEW z \in Zone, NEW j \in Int, NEW k \in Int,
           t < DayLength * j + CutoffOf[z], DayLength * j + CutoffOf[z] <= t + DayLength,
           t < DayLength * k + CutoffOf[z], DayLength * k + CutoffOf[z] <= t + DayLength
    PROVE  j = k
  <1>1. DayLength \in Nat /\ DayLength > 0 /\ CutoffOf[z] \in Int
    BY ZoneAssumption
  <1>2. ASSUME NEW a \in Int, NEW b \in Int, a < b
        PROVE  DayLength * a + DayLength <= DayLength * b
    BY <1>1, <1>2
  <1>3. DayLength * j \in Int /\ DayLength * k \in Int
    BY <1>1
  <1>4. CASE j < k
    <2>1. DayLength * j + DayLength <= DayLength * k
      BY <1>2, <1>4
    <2> QED BY <2>1, <1>1, <1>3
  <1>5. CASE k < j
    <2>1. DayLength * k + DayLength <= DayLength * j
      BY <1>2, <1>5
    <2> QED BY <2>1, <1>1, <1>3
  <1> QED BY <1>4, <1>5

(* So a time within a day before a cutoff is followed by that cutoff.        *)
LEMMA CutoffIs ==
    ASSUME NEW t \in Nat, NEW z \in Zone, NEW k \in Int,
           t < DayLength * k + CutoffOf[z], DayLength * k + CutoffOf[z] <= t + DayLength
    PROVE  NextCutoff(t, z) = DayLength * k + CutoffOf[z]
  <1>1. PICK j \in Int : NextCutoff(t, z) = DayLength * j + CutoffOf[z]
    BY CutoffFollows
  <1>2. t < NextCutoff(t, z) /\ NextCutoff(t, z) <= t + DayLength
    BY CutoffFollows
  <1>3. j = k
    BY <1>1, <1>2, OneCutoffADay
  <1> QED BY <1>1, <1>3

(* make_recaps() always finds the end of a due window: the last cutoff past, *)
(* or next_recap itself if the zone has changed since.                       *)
LEMMA WindowEnds ==
    ASSUME NEW u \in User, usr[u].next \in Nat, usr[u].next > 0, now \in Nat,
           usr[u].next <= now, usr[u].zone \in Zone
    PROVE  /\ WindowEnd(u) \in Nat
           /\ usr[u].next <= WindowEnd(u) /\ WindowEnd(u) <= now
           /\ NextCutoff(WindowEnd(u), usr[u].zone) > now
  <1> DEFINE z == usr[u].zone
             first == usr[u].next
             coming == NextCutoff(now, z)
             last == coming - DayLength
             Ends(t) == /\ t = first \/ NextCutoff(t - 1, z) = t
                        /\ NextCutoff(t, z) > now
  <1>1. DayLength \in Nat /\ DayLength > 0 /\ CutoffOf[z] \in Nat
    BY ZoneAssumption
  <1>2. coming \in Nat /\ now < coming /\ coming <= now + DayLength
    BY CutoffFollows
  <1>3. PICK k \in Int : coming = DayLength * k + CutoffOf[z]
    BY CutoffFollows
  <1>4. last \in Int /\ last <= now
    BY <1>1, <1>2
  <1>5. \E t \in first .. now : Ends(t)
    <2>1. CASE first > last
      <3>1. first < DayLength * k + CutoffOf[z] /\ DayLength * k + CutoffOf[z] <= first + DayLength
        <4>1. first < coming
          BY <1>2
        <4>2. coming <= first + DayLength
          BY <1>1, <1>2, <2>1
        <4> QED BY <4>1, <4>2, <1>3
      <3>2. NextCutoff(first, z) = coming
        BY <3>1, <1>3, CutoffIs
      <3>3. Ends(first)
        BY <3>2, <1>2
      <3>4. first \in first .. now
        OBVIOUS
      <3> QED BY <3>3, <3>4
    <2>2. CASE first <= last
      <3>1. last = DayLength * (k - 1) + CutoffOf[z] /\ k - 1 \in Int
        BY <1>1, <1>3
      <3>2. last \in Nat /\ last - 1 \in Nat
        BY <1>4, <2>2
      <3>3. NextCutoff(last - 1, z) = last
        <4>1. last - 1 < last /\ last <= last - 1 + DayLength
          BY <1>1, <3>2
        <4> HIDE DEF last
        <4> QED BY <3>1, <3>2, <4>1, CutoffIs
      <3>4. NextCutoff(last, z) = coming
        <4>1. last < coming /\ coming <= last + DayLength
          BY <1>1, <1>2
        <4> HIDE DEF last, coming
        <4> QED BY <1>3, <3>2, <4>1, CutoffIs
      <3>5. Ends(last)
        BY <3>3, <3>4, <1>2
      <3>6. last \in first .. now
        BY <1>4, <2>2
      <3> QED BY <3>5, <3>6
    <2> QED BY <2>1, <2>2, <1>4
  <1>6. WindowEnd(u) = CHOOSE t \in first .. now : Ends(t)
    BY DEF WindowEnd
  <1> HIDE DEF Ends
  <1>7. WindowEnd(u) \in first .. now /\ Ends(WindowEnd(u))
    BY <1>5, <1>6
  <1> QED BY <1>7 DEF Ends

-----------------------------------------------------------------------------
(* Typing, and the windows of a subscriber                                   *)

\* a window begins in the past, and its next cutoff is later
WindowOK(u) ==
    /\ usr[u].start <= now
    /\ usr[u].recap => usr[u].start < usr[u].next

TypeInv ==
    /\ TypeOK
    /\ recaps \in [User -> SUBSET RecapType]
    /\ \A u \in User : WindowOK(u)

MatchType == [user : User, occ : Occurrence, at : Nat]
EventType == [state : {"absent", "new", "processed"}, at : Nat]

(* What matching a batch writes is typed.                                    *)
LEMMA MatchingTyped ==
    ASSUME TypeOK, NEW batch \in SUBSET Occurrence
    PROVE  /\ Processed(batch) \in [Occurrence -> EventType]
           /\ MatchesWith(batch) \subseteq MatchType
           /\ AlertsWith(batch) \in [User \X Occurrence -> AlertStates]
  <1>1. Processed(batch) \in [Occurrence -> EventType]
    BY DEF TypeOK, Processed, EventType
  <1>2. ASSUME NEW p \in MatchPairs(batch)
        PROVE  [user |-> p[1], occ |-> p[2], at |-> event[p[2]].at] \in MatchType
    <2>1. p[1] \in User /\ p[2] \in Occurrence
      BY <1>2 DEF MatchPairs
    <2>2. event[p[2]].at \in Nat
      BY <2>1 DEF TypeOK
    <2> QED BY <2>1, <2>2 DEF MatchType
  <1>3. MatchesWith(batch) \subseteq MatchType
    BY <1>2 DEF TypeOK, MatchesWith, MatchType
  <1>4. AlertsWith(batch) \in [User \X Occurrence -> AlertStates]
    BY DEF TypeOK, AlertsWith, AlertStates
  <1> QED BY <1>1, <1>3, <1>4

(* Cancelling the mail of a subscriber keeps the rows typed.                 *)
LEMMA CancellingTyped ==
    ASSUME NEW u \in User, recaps \in [User -> SUBSET RecapType],
           NEW rows \in [User \X Occurrence -> AlertStates]
    PROVE  /\ CancelledAlerts(rows, u) \in [User \X Occurrence -> AlertStates]
           /\ CancelledRecaps(u) \in SUBSET RecapType
  <1>1. CancelledAlerts(rows, u) \in [User \X Occurrence -> AlertStates]
    BY DEF CancelledAlerts, AlertStates
  <1>2. ASSUME NEW r \in recaps[u] PROVE [r EXCEPT !.status = "gone"] \in RecapType
    BY DEF RecapType
  <1>3. CancelledRecaps(u) \in SUBSET RecapType
    BY <1>2 DEF CancelledRecaps
  <1> QED BY <1>1, <1>3

(* What make_recaps() finds of a due window: its end is past, not before the *)
(* cutoff it waited for, and the cutoff after it is still to come.           *)
LEMMA DueWindow ==
    ASSUME TypeInv, NEW u \in User, Due(u)
    PROVE  /\ WindowEnd(u) \in Nat
           /\ usr[u].start < WindowEnd(u) /\ WindowEnd(u) <= now
           /\ NextCutoff(WindowEnd(u), usr[u].zone) \in Nat
           /\ now < NextCutoff(WindowEnd(u), usr[u].zone)
  <1>1. /\ usr[u].recap /\ usr[u].next <= now
        /\ usr[u].next \in Nat /\ usr[u].start \in Nat /\ now \in Nat /\ usr[u].zone \in Zone
    BY DEF TypeInv, TypeOK, UserType, Due
  <1>2. usr[u].start < usr[u].next
    BY <1>1 DEF TypeInv, WindowOK
  <1>3. /\ WindowEnd(u) \in Nat
        /\ usr[u].next <= WindowEnd(u) /\ WindowEnd(u) <= now
        /\ NextCutoff(WindowEnd(u), usr[u].zone) > now
    BY <1>1, <1>2, WindowEnds
  <1>4. NextCutoff(WindowEnd(u), usr[u].zone) \in Nat
    BY <1>1, <1>3, CutoffFollows
  <1> QED BY <1>1, <1>2, <1>3, <1>4

(* The occurrences and rows of a closed window are typed.                    *)
LEMMA RecapTyped ==
    ASSUME TypeInv, NEW u \in User, Due(u)
    PROVE  WithRecap(u) \in SUBSET RecapType
  <1>1. WindowOccs(u) \subseteq Occurrence
    BY DEF TypeInv, TypeOK, WindowOccs, WindowMatches
  <1>2. WindowEnd(u) \in Nat
    BY DueWindow
  <1>3. recaps[u] \subseteq RecapType
    BY DEF TypeInv
  <1>4. ASSUME NEW r \in recaps[u]
        PROVE  [r EXCEPT !.end = WindowEnd(u), !.occs = r.occs \cup WindowOccs(u)] \in RecapType
    <2>1. r \in RecapType
      BY <1>3
    <2> QED BY <1>1, <1>2, <2>1 DEF RecapType
  <1>5. [key |-> RecapKey(u), end |-> WindowEnd(u), occs |-> WindowOccs(u),
         status |-> "unsent"] \in RecapType
    BY <1>1, <1>2 DEF RecapType, RecapKey
  <1> QED BY <1>3, <1>4, <1>5 DEF WithRecap

(* make_recaps() moves the windows of due subscribers, and of no others.     *)
LEMMA RecapMoves ==
    ASSUME TypeInv, MakeRecaps, NEW u \in User
    PROVE  /\ usr'[u] \in UserType
           /\ usr'[u] = [usr[u] EXCEPT !.start = usr'[u].start, !.next = usr'[u].next]
           /\ Due(u) => /\ usr'[u].start = WindowEnd(u)
                        /\ usr'[u].next = NextCutoff(WindowEnd(u), usr[u].zone)
           /\ ~Due(u) => usr'[u] = usr[u]
  <1>1. usr[u] \in UserType
    BY DEF TypeInv, TypeOK
  <1>2. usr'[u] = IF Due(u)
                    THEN [usr[u] EXCEPT !.start = WindowEnd(u),
                                        !.next = NextCutoff(WindowEnd(u), usr[u].zone)]
                    ELSE usr[u]
    BY DEF MakeRecaps
  <1>3. CASE Due(u)
    <2>1. WindowEnd(u) \in Nat /\ NextCutoff(WindowEnd(u), usr[u].zone) \in Nat
      BY <1>3, DueWindow
    <2> QED BY <1>1, <1>2, <1>3, <2>1 DEF UserType
  <1>4. CASE ~Due(u)
    BY <1>1, <1>2, <1>4 DEF UserType
  <1> QED BY <1>3, <1>4

(* put_settings() on the row of its subscriber: a recap that begins starts   *)
(* its window now, one that goes on keeps it.                                *)
LEMMA SettingsMove ==
    ASSUME TypeInv, NEW u \in User, NEW alerts \in BOOLEAN, NEW recap \in BOOLEAN,
           NEW topics \in SUBSET Topic, NEW zone \in Zone,
           PutSettings(u, alerts, recap, topics, zone)
    PROVE  /\ usr'[u] \in UserType
           /\ usr'[u].recap = recap
           /\ (recap /\ ~usr[u].recap) => usr'[u].start = now /\ usr'[u].enrolled = now
           /\ ~(recap /\ ~usr[u].recap) => /\ usr'[u].start = usr[u].start
                                           /\ usr'[u].enrolled = usr[u].enrolled
           /\ recap => usr'[u].start < usr'[u].next
           /\ \A w \in User \ {u} : usr'[w] = usr[w]
  <1>1. usr \in [User -> UserType] /\ now \in Nat
    BY DEF TypeInv, TypeOK
  <1> DEFINE old == usr[u]
             starting == (alerts \/ recap) /\ ~(old.alerts \/ old.recap)
             enrolling == recap /\ ~old.recap
             rezoning == recap /\ ~enrolling /\ zone # old.zone
             opted == IF starting THEN now ELSE old.opted
             start == IF enrolling THEN now ELSE old.start
             enrolled == IF enrolling THEN now ELSE old.enrolled
             next == IF ~recap THEN 0
                     ELSE IF enrolling \/ rezoning THEN NextCutoff(now, zone) ELSE old.next
             new == [old EXCEPT !.alerts = alerts, !.recap = recap, !.topics = topics,
                                !.zone = zone, !.opted = opted, !.start = start,
                                !.enrolled = enrolled, !.next = next]
  <1>2. usr' = [usr EXCEPT ![u] = new]
    BY DEF PutSettings
  <1>3. NextCutoff(now, zone) \in Nat /\ now < NextCutoff(now, zone)
    BY <1>1, CutoffFollows
  <1>4. old \in UserType
    BY <1>1
  <1>5. opted \in Nat /\ start \in Nat /\ enrolled \in Nat /\ next \in Nat
    BY <1>1, <1>3, <1>4 DEF UserType
  <1>6. recap => start < next
    <2>1. old.start <= now /\ (old.recap => old.start < old.next)
      BY DEF TypeInv, WindowOK
    <2>2. old.start \in Nat /\ old.next \in Nat /\ old.recap \in BOOLEAN
      BY <1>4 DEF UserType
    <2> QED BY <1>1, <1>3, <2>1, <2>2
  <1>7. \A w \in User \ {u} : usr'[w] = usr[w]
    BY <1>1, <1>2
  <1>8. usr'[u] = new
    BY <1>1, <1>2
  <1> HIDE DEF old, opted, start, enrolled, next
  <1>9. /\ new \in UserType
        /\ new.recap = recap /\ new.start = start /\ new.enrolled = enrolled /\ new.next = next
    BY <1>4, <1>5 DEF UserType
  <1> HIDE DEF new
  <1> QED BY <1>6, <1>7, <1>8, <1>9 DEF start, enrolled, old

(* Every step keeps the rows typed and the windows in order.                 *)
LEMMA TypeStep == TypeInv /\ [Next]_vars => TypeInv'
  <1> SUFFICES ASSUME TypeInv, [Next]_vars PROVE TypeInv'
    OBVIOUS
  <1> DEFINE Typed == /\ now' \in Nat
                      /\ event' \in [Occurrence -> EventType]
                      /\ open' \subseteq Occurrence
                      /\ usr' \in [User -> UserType]
                      /\ match' \subseteq MatchType
                      /\ alert' \in [User \X Occurrence -> AlertStates]
                      /\ recaps' \in [User -> SUBSET RecapType]
                      /\ wanted' \subseteq User \X Occurrence
                      /\ late' \subseteq User \X Occurrence
             Windows == \A u \in User : /\ usr'[u].start <= now'
                                        /\ usr'[u].recap => usr'[u].start < usr'[u].next
  <1>0. /\ now \in Nat
        /\ event \in [Occurrence -> EventType]
        /\ open \subseteq Occurrence
        /\ usr \in [User -> UserType]
        /\ match \subseteq MatchType
        /\ alert \in [User \X Occurrence -> AlertStates]
        /\ recaps \in [User -> SUBSET RecapType]
        /\ wanted \subseteq User \X Occurrence
        /\ late \subseteq User \X Occurrence
    BY DEF TypeInv, TypeOK, EventType, MatchType
  <1>w. \A u \in User : usr[u].start <= now /\ (usr[u].recap => usr[u].start < usr[u].next)
    BY DEF TypeInv, WindowOK
  <1> SUFFICES Typed /\ Windows
    BY DEF TypeInv, TypeOK, WindowOK, EventType, MatchType
  <1>1. CASE MatchEvents
    <2>1. PICK batch \in SUBSET Occurrence : /\ event' = Processed(batch)
                                             /\ match' = MatchesWith(batch)
                                             /\ alert' = AlertsWith(batch)
      BY <1>1 DEF MatchEvents, Batches, Unprocessed
    <2>2. Typed
      BY <1>0, <1>1, <2>1, MatchingTyped DEF MatchEvents, TypeInv
    <2>3. Windows
      BY <1>w, <1>1 DEF MatchEvents
    <2> QED BY <2>2, <2>3
  <1>2. CASE MakeRecaps
    <2>1. usr' \in [User -> UserType]
      <3>1. usr' = [u \in User |-> usr'[u]]
        BY <1>2 DEF MakeRecaps
      <3>2. \A u \in User : usr'[u] \in UserType
        BY <1>2, RecapMoves
      <3> QED BY <3>1, <3>2
    <2>2. recaps' \in [User -> SUBSET RecapType]
      BY <1>0, <1>2, RecapTyped DEF MakeRecaps
    <2>3. alert' \in [User \X Occurrence -> AlertStates]
      BY <1>0, <1>2 DEF MakeRecaps, AlertStates
    <2>4. Windows
      <3> SUFFICES ASSUME NEW u \in User
                   PROVE  usr'[u].start <= now' /\ (usr'[u].recap => usr'[u].start < usr'[u].next)
        OBVIOUS
      <3>1. now' = now
        BY <1>2 DEF MakeRecaps
      <3>2. CASE Due(u)
        <4>1. usr'[u].start = WindowEnd(u) /\ usr'[u].next = NextCutoff(WindowEnd(u), usr[u].zone)
          BY <1>2, <3>2, RecapMoves
        <4>2. /\ WindowEnd(u) \in Nat /\ WindowEnd(u) <= now
              /\ NextCutoff(WindowEnd(u), usr[u].zone) \in Nat
              /\ now < NextCutoff(WindowEnd(u), usr[u].zone)
          BY <3>2, DueWindow
        <4> QED BY <1>0, <3>1, <4>1, <4>2
      <3>3. CASE ~Due(u)
        <4>1. usr'[u] = usr[u]
          BY <1>2, <3>3, RecapMoves
        <4> QED BY <1>w, <3>1, <4>1
      <3> QED BY <3>2, <3>3
    <2> QED BY <1>0, <1>2, <2>1, <2>2, <2>3, <2>4 DEF MakeRecaps
  <1>3. CASE Tick
    <2>1. now' \in Nat /\ now <= now'
      BY <1>0, <1>3, BoundAssumption DEF Tick
    <2>2. Typed
      BY <1>0, <1>3, <2>1 DEF Tick
    <2>3. Windows
      <3>1. usr' = usr /\ \A u \in User : usr[u].start \in Nat
        BY <1>0, <1>3 DEF Tick, UserType
      <3> QED BY <1>0, <1>w, <2>1, <3>1
    <2> QED BY <2>2, <2>3
  <1>4. ASSUME NEW o \in Occurrence, Discover(o) \/ Close(o) PROVE Typed /\ Windows
    <2>1. CASE Close(o)
      BY <1>0, <1>w, <2>1 DEF Close
    <2>2. CASE Discover(o)
      <3>1. PICK lag \in Lags :
              /\ now - lag > 0
              /\ event' = [event EXCEPT ![o] = [state |-> "new", at |-> now - lag]]
              /\ wanted' = wanted \cup ({u \in User : Admits(u, o, now - lag)} \X {o})
              /\ late' = late \cup ({u \in User : now - lag < usr[u].start} \X {o})
        BY <2>2 DEF Discover
      <3>2. now - lag \in Nat
        BY <1>0, <3>1, BoundAssumption
      <3>3. event' \in [Occurrence -> EventType]
        BY <1>0, <3>1, <3>2 DEF EventType
      <3>4. wanted' \subseteq User \X Occurrence
        BY <1>0, <3>1
      <3>5. late' \subseteq User \X Occurrence
        BY <1>0, <3>1
      <3> QED BY <1>0, <1>w, <2>2, <3>3, <3>4, <3>5 DEF Discover
    <2> QED BY <1>4, <2>1, <2>2
  <1>5. ASSUME NEW u \in User, Unsubscribe(u) PROVE Typed /\ Windows
    <2>1. usr' = [usr EXCEPT ![u] = [usr[u] EXCEPT !.alerts = FALSE, !.recap = FALSE, !.next = 0]]
      BY <1>5 DEF Unsubscribe
    <2>2. /\ usr' \in [User -> UserType] /\ usr'[u].start = usr[u].start /\ ~usr'[u].recap
          /\ \A w \in User \ {u} : usr'[w] = usr[w]
      BY <1>0, <2>1 DEF UserType
    <2>3. alert' \in [User \X Occurrence -> AlertStates] /\ recaps' \in [User -> SUBSET RecapType]
      BY <1>0, <1>5, CancellingTyped DEF Unsubscribe
    <2>4. now' = now
      BY <1>5 DEF Unsubscribe
    <2>5. Windows
      BY <1>w, <2>2, <2>4
    <2> QED BY <1>0, <1>5, <2>2, <2>3, <2>5 DEF Unsubscribe
  <1>6. ASSUME NEW u \in User, ReachChanges(u) PROVE Typed /\ Windows
    <2>1. usr' = [usr EXCEPT ![u].reachable = ~@]
      BY <1>6 DEF ReachChanges
    <2>2. /\ usr' \in [User -> UserType]
          /\ \A w \in User : /\ usr'[w].start = usr[w].start /\ usr'[w].recap = usr[w].recap
                             /\ usr'[w].next = usr[w].next
      BY <1>0, <2>1 DEF UserType
    <2>3. now' = now
      BY <1>6 DEF ReachChanges
    <2>4. Windows
      BY <1>w, <2>2, <2>3
    <2> QED BY <1>0, <1>6, <2>2, <2>4 DEF ReachChanges
  <1>7. ASSUME NEW u \in User, NEW p \in Preferences, NEW topics \in TopicChoices,
               NEW zone \in Zone, PutSettings(u, p[1], p[2], topics, zone)
        PROVE  Typed /\ Windows
    <2>1. p[1] \in BOOLEAN /\ p[2] \in BOOLEAN /\ topics \in SUBSET Topic
      BY TopicAssumption
    <2>2. /\ usr'[u] \in UserType /\ usr'[u].recap = p[2]
          /\ usr'[u].start = now \/ usr'[u].start = usr[u].start
          /\ p[2] => usr'[u].start < usr'[u].next
          /\ \A w \in User \ {u} : usr'[w] = usr[w]
      BY <1>7, <2>1, SettingsMove
    <2>3. usr' \in [User -> UserType]
      <3>1. \A w \in User : usr'[w] \in UserType
        BY <1>0, <2>2
      <3>2. usr' = [w \in User |-> usr'[w]]
        BY <1>0, <1>7 DEF PutSettings
      <3> QED BY <3>1, <3>2
    <2>4. Backlog \in SUBSET Occurrence
      BY DEF Backlog, Unprocessed
    <2>5. /\ event' \in [Occurrence -> EventType] /\ match' \subseteq MatchType
          /\ AlertsWith(Backlog) \in [User \X Occurrence -> AlertStates]
      BY <1>7, <2>4, MatchingTyped DEF PutSettings, TypeInv
    <2>6. alert' \in [User \X Occurrence -> AlertStates]
      BY <1>0, <1>7, <2>5, CancellingTyped DEF PutSettings
    <2>7. recaps' \in [User -> SUBSET RecapType]
      BY <1>0, <1>7, CancellingTyped DEF PutSettings
    <2>8. now' = now
      BY <1>7 DEF PutSettings
    <2>9. Windows
      BY <1>0, <1>w, <2>2, <2>8
    <2> QED BY <1>0, <1>7, <2>3, <2>5, <2>6, <2>7, <2>9 DEF PutSettings
  <1>8. ASSUME NEW u \in User, NEW o \in Occurrence, SendAlert(u, o) PROVE Typed /\ Windows
    <2>1. alert' \in [User \X Occurrence -> AlertStates]
      BY <1>0, <1>8 DEF SendAlert, AlertStates
    <2> QED BY <1>0, <1>w, <1>8, <2>1 DEF SendAlert
  <1>9. ASSUME NEW u \in User, NEW r \in recaps[u], SendRecap(u, r) PROVE Typed /\ Windows
    <2>1. PICK s \in {"attempted", "gone"} :
            recaps' = [recaps EXCEPT ![u] = (@ \ {r}) \cup {[r EXCEPT !.status = s]}]
      BY <1>9 DEF SendRecap
    <2>2. r \in RecapType
      BY <1>0
    <2>3. [r EXCEPT !.status = s] \in RecapType
      BY <2>2 DEF RecapType
    <2>4. recaps' \in [User -> SUBSET RecapType]
      BY <1>0, <2>1, <2>3
    <2> QED BY <1>0, <1>w, <1>9, <2>4 DEF SendRecap
  <1>10. CASE UNCHANGED vars
    BY <1>0, <1>w, <1>10 DEF vars
  <1> HIDE DEF Typed, Windows
  <1> QED BY <1>1, <1>2, <1>3, <1>4, <1>5, <1>6, <1>7, <1>8, <1>9, <1>10 DEF Next

(* The declared shape holds initially.                                       *)
LEMMA TypeInit == Init => TypeInv
  BY ZoneAssumption DEF Init, TypeInv, TypeOK, WindowOK, UserType, AlertStates, RecapType

-----------------------------------------------------------------------------
(* Recaps                                                                    *)

\* a match is made once
MatchesOK == \A m, n \in match : m.user = n.user /\ m.occ = n.occ => m = n

\* o was matched in a window of u that is closed
Passed(u, o) == \E m \in match : m.user = u /\ m.occ = o /\ m.at < usr[u].start

\* the recaps of a subscriber list closed windows, and one at most is unsent
RowsOK(u) ==
    /\ \A r \in recaps[u] : r.key <= usr[u].start
    /\ \A r \in recaps[u] : \A o \in r.occs : Passed(u, o)
    /\ \A r, q \in recaps[u] : r.status = "unsent" /\ q.status = "unsent" => r = q

RecapInv ==
    /\ TypeInv
    /\ MatchesOK
    /\ \A u \in User : RowsOK(u)
    /\ OneRecapEach
    /\ RecapKeysUnique
    /\ FoldedIsListed

\* the rows of old with another status: none is new, lost or unsent again
Restatused(old, new) ==
    /\ \A q \in new : \E r \in old : /\ q.key = r.key /\ q.occs = r.occs
                                     /\ q.status = "unsent" => q = r
    /\ \A q, s \in new : q.key = s.key => q = s
    /\ \A r \in old : \E q \in new : q.occs = r.occs

(* Matching a batch keeps every match, and makes none twice.                 *)
LEMMA MatchedOnce ==
    ASSUME TypeOK, MatchesOK, NEW batch \in SUBSET Occurrence, match' = MatchesWith(batch)
    PROVE  /\ match \subseteq match'
           /\ MatchesOK'
           /\ \A m \in match' \ match :
                 /\ m.user \in User /\ m.occ \in batch /\ m.at = event[m.occ].at
                 /\ Admits(m.user, m.occ, m.at)
  <1> DEFINE Row(p) == [user |-> p[1], occ |-> p[2], at |-> event[p[2]].at]
             fresh == {Row(p) : p \in MatchPairs(batch)}
  <1>1. match' = match \cup fresh
    BY DEF MatchesWith
  <1>2. ASSUME NEW m \in fresh
        PROVE  /\ m.user \in User /\ m.occ \in batch /\ m.at = event[m.occ].at
               /\ Admits(m.user, m.occ, m.at)
               /\ m = [user |-> m.user, occ |-> m.occ, at |-> event[m.occ].at]
               /\ \A n \in match : ~(n.user = m.user /\ n.occ = m.occ)
    <2>1. PICK p \in User \X batch :
            /\ m = Row(p)
            /\ Admits(p[1], p[2], event[p[2]].at)
            /\ \A n \in match : <<n.user, n.occ>> # p
      BY DEF MatchPairs
    <2>2. p = <<p[1], p[2]>> /\ p[1] \in User /\ p[2] \in batch
      BY <2>1
    <2>3. m.user = p[1] /\ m.occ = p[2] /\ m.at = event[p[2]].at
      BY <2>1
    <2>4. \A n \in match : ~(n.user = m.user /\ n.occ = m.occ)
      BY <2>1, <2>2, <2>3
    <2> QED BY <2>1, <2>2, <2>3, <2>4
  <1> HIDE DEF fresh
  <1>3. MatchesOK'
    <2> SUFFICES ASSUME NEW m \in match', NEW n \in match', m.user = n.user, m.occ = n.occ
                 PROVE  m = n
      BY DEF MatchesOK
    <2>1. CASE m \in match /\ n \in match
      BY <2>1 DEF MatchesOK
    <2>2. CASE m \in fresh /\ n \in fresh
      BY <2>2, <1>2
    <2>3. CASE (m \in fresh /\ n \in match) \/ (m \in match /\ n \in fresh)
      BY <2>3, <1>2
    <2> QED BY <1>1, <2>1, <2>2, <2>3
  <1> QED BY <1>1, <1>2, <1>3

(* An alert folded stays folded or is matched anew: matching folds none.     *)
LEMMA MatchingFoldsNone ==
    ASSUME NEW batch \in SUBSET Occurrence, NEW u \in User, NEW o \in Occurrence,
           AlertsWith(batch)[<<u, o>>] = "recap_only"
    PROVE  alert[<<u, o>>] = "recap_only"
  BY DEF AlertsWith

(* Rows left as they are keep their status.                                  *)
LEMMA SameRows ==
    ASSUME NEW u \in User, RecapKeysUnique PROVE Restatused(recaps[u], recaps[u])
  BY DEF Restatused, RecapKeysUnique

(* Cancelling changes nothing but the status of unsent recaps.               *)
LEMMA CancellingRestatuses ==
    ASSUME RecapInv, NEW u \in User
    PROVE  Restatused(recaps[u], CancelledRecaps(u))
  <1> DEFINE Cancelled(r) == IF r.status = "unsent" THEN [r EXCEPT !.status = "gone"] ELSE r
  <1>1. CancelledRecaps(u) = {Cancelled(r) : r \in recaps[u]}
    BY DEF CancelledRecaps
  <1>2. \A r \in recaps[u] : r \in RecapType
    BY DEF RecapInv, TypeInv
  <1>3. ASSUME NEW r \in recaps[u]
        PROVE  /\ Cancelled(r).key = r.key /\ Cancelled(r).occs = r.occs
               /\ Cancelled(r).status # "unsent"
    BY <1>2 DEF RecapType
  <1> HIDE DEF Cancelled
  <1>4. \A r, q \in recaps[u] : r.key = q.key => r = q
    BY DEF RecapInv, RecapKeysUnique
  <1> QED BY <1>1, <1>3, <1>4 DEF Restatused

(* Neither does the sender.                                                  *)
LEMMA SendingRestatuses ==
    ASSUME RecapInv, NEW u \in User, NEW r \in recaps[u], NEW s \in {"attempted", "gone"}
    PROVE  Restatused(recaps[u], (recaps[u] \ {r}) \cup {[r EXCEPT !.status = s]})
  <1> DEFINE new == [r EXCEPT !.status = s]
  <1>1. r \in RecapType
    BY DEF RecapInv, TypeInv
  <1>2. new.key = r.key /\ new.occs = r.occs /\ new.status # "unsent"
    BY <1>1 DEF RecapType
  <1> HIDE DEF new
  <1>3. \A p, q \in recaps[u] : p.key = q.key => p = q
    BY DEF RecapInv, RecapKeysUnique
  <1> DEFINE rows == (recaps[u] \ {r}) \cup {new}
  <1>4. \A q \in rows : \E p \in recaps[u] : /\ q.key = p.key /\ q.occs = p.occs
                                             /\ q.status = "unsent" => q = p
    BY <1>2
  <1>5. \A q, p \in rows : q.key = p.key => q = p
    BY <1>2, <1>3
  <1>6. \A p \in recaps[u] : \E q \in rows : q.occs = p.occs
    BY <1>2
  <1> HIDE DEF rows
  <1>7. Restatused(recaps[u], rows)
    BY <1>4, <1>5, <1>6 DEF Restatused
  <1> QED BY <1>7 DEF rows, new

(* A step that writes no recap but their status, drops no match, reopens no  *)
(* window and folds no alert keeps the recaps apart.                         *)
LEMMA QuietStep ==
    ASSUME RecapInv, TypeInv', MatchesOK', match \subseteq match',
           \A u \in User : /\ Restatused(recaps[u], recaps'[u])
                           /\ usr[u].start <= usr'[u].start,
           \A u \in User, o \in Occurrence :
               alert'[<<u, o>>] = "recap_only" => alert[<<u, o>>] = "recap_only"
    PROVE  RecapInv'
  <1>0. \A u \in User : usr[u].start \in Nat /\ usr'[u].start \in Nat
    BY DEF RecapInv, TypeInv, TypeOK, UserType
  <1>a. \A m \in match : m.at \in Nat
    BY DEF RecapInv, TypeInv, TypeOK
  <1>1. ASSUME NEW u \in User PROVE RowsOK(u)'
    <2>1. RowsOK(u) /\ Restatused(recaps[u], recaps'[u]) /\ usr[u].start <= usr'[u].start
      BY DEF RecapInv
    <2>2. \A r \in recaps[u] : r.key \in Nat
      BY DEF RecapInv, TypeInv, RecapType
    <2>3. \A r \in recaps'[u] : r.key <= usr'[u].start
      <3> SUFFICES ASSUME NEW r \in recaps'[u] PROVE r.key <= usr'[u].start
        OBVIOUS
      <3>1. PICK q \in recaps[u] : r.key = q.key
        BY <2>1 DEF Restatused
      <3>2. q.key <= usr[u].start /\ q.key \in Nat
        BY <2>1, <2>2 DEF RowsOK
      <3> QED BY <1>0, <2>1, <3>1, <3>2
    <2>4. ASSUME NEW o \in Occurrence, Passed(u, o) PROVE Passed(u, o)'
      BY <1>0, <1>a, <2>1, <2>4 DEF Passed
    <2>5. \A r \in recaps'[u] : \A o \in r.occs : Passed(u, o)'
      <3> SUFFICES ASSUME NEW r \in recaps'[u], NEW o \in r.occs PROVE Passed(u, o)'
        OBVIOUS
      <3>1. PICK q \in recaps[u] : q.occs = r.occs
        BY <2>1 DEF Restatused
      <3>2. Passed(u, o) /\ o \in Occurrence
        BY <2>1, <3>1 DEF RowsOK, RecapInv, TypeInv, RecapType
      <3> QED BY <2>4, <3>2
    <2>6. \A r, q \in recaps'[u] : r.status = "unsent" /\ q.status = "unsent" => r = q
      BY <2>1 DEF RowsOK, Restatused
    <2> QED BY <2>3, <2>5, <2>6 DEF RowsOK
  <1>2. OneRecapEach'
    <2> SUFFICES ASSUME NEW u \in User, NEW r \in recaps'[u], NEW q \in recaps'[u], r # q
                 PROVE  r.occs \cap q.occs = {}
      BY DEF OneRecapEach
    <2>1. Restatused(recaps[u], recaps'[u])
      OBVIOUS
    <2>2. r.key # q.key
      BY <2>1 DEF Restatused
    <2>3. PICK x \in recaps[u], y \in recaps[u] : /\ x.key = r.key /\ x.occs = r.occs
                                                  /\ y.key = q.key /\ y.occs = q.occs
      BY <2>1 DEF Restatused
    <2> QED BY <2>2, <2>3 DEF RecapInv, OneRecapEach
  <1>3. RecapKeysUnique'
    BY DEF RecapKeysUnique, Restatused
  <1>4. FoldedIsListed'
    <2> SUFFICES ASSUME NEW u \in User, NEW o \in Occurrence, alert'[<<u, o>>] = "recap_only"
                 PROVE  \E r \in recaps'[u] : o \in r.occs
      BY DEF FoldedIsListed
    <2>1. alert[<<u, o>>] = "recap_only"
      OBVIOUS
    <2>2. PICK r \in recaps[u] : o \in r.occs
      BY <2>1 DEF RecapInv, FoldedIsListed
    <2> QED BY <2>2 DEF Restatused
  <1> QED BY <1>1, <1>2, <1>3, <1>4 DEF RecapInv

(* The window a recap closes lists nothing an earlier one listed, for it     *)
(* begins where those ended.                                                 *)
LEMMA WindowIsNew ==
    ASSUME RecapInv, NEW u \in User, Due(u), NEW r \in recaps[u]
    PROVE  r.occs \cap WindowOccs(u) = {} /\ r.key # RecapKey(u)
  <1>1. usr[u].start \in Nat
    BY DEF RecapInv, TypeInv, TypeOK, UserType
  <1>2. RowsOK(u)
    BY DEF RecapInv
  <1>3. ASSUME NEW o \in r.occs, o \in WindowOccs(u) PROVE FALSE
    <2>1. PICK m \in match : m.user = u /\ m.occ = o /\ m.at < usr[u].start
      BY <1>2 DEF RowsOK, Passed
    <2>2. PICK n \in match : n.user = u /\ n.occ = o /\ n.at >= usr[u].start
      BY <1>3 DEF WindowOccs, WindowMatches
    <2>3. m = n
      BY <2>1, <2>2 DEF RecapInv, MatchesOK
    <2>4. m.at \in Nat
      BY DEF RecapInv, TypeInv, TypeOK
    <2> QED BY <1>1, <2>1, <2>2, <2>3, <2>4
  <1>4. usr[u].start < WindowEnd(u) /\ WindowEnd(u) \in Nat
    BY DueWindow DEF RecapInv
  <1>5. r.key <= usr[u].start /\ r.key \in Nat
    BY <1>2 DEF RowsOK, RecapInv, TypeInv, RecapType
  <1> QED BY <1>1, <1>3, <1>4, <1>5 DEF RecapKey

(* A recap that takes a new window keeps its key.                            *)
LEMMA Taking ==
    ASSUME RecapInv, NEW u \in User, NEW r \in recaps[u]
    PROVE  LET q == [r EXCEPT !.end = WindowEnd(u), !.occs = r.occs \cup WindowOccs(u)]
           IN  q.key = r.key /\ q.occs = r.occs \cup WindowOccs(u) /\ q.status = r.status
  <1>1. r \in RecapType
    BY DEF RecapInv, TypeInv
  <1> QED BY <1>1 DEF RecapType

(* The recaps of a subscriber after a closed window: the ones before, of     *)
(* which one may have taken it, or one more with a key and a list of its own.*)
LEMMA RecapRows ==
    ASSUME RecapInv, NEW u \in User, Due(u)
    PROVE  /\ \A q \in WithRecap(u) :
                 \/ q \in recaps[u] /\ q.status # "unsent"
                 \/ /\ q.status = "unsent" /\ q.key = RecapKey(u) /\ Unsent(u) = {}
                    /\ q.occs = WindowOccs(u)
                 \/ \E r \in Unsent(u) : /\ q.status = "unsent" /\ q.key = r.key
                                         /\ q.occs = r.occs \cup WindowOccs(u)
           /\ \A r \in recaps[u] : \E q \in WithRecap(u) : r.occs \subseteq q.occs
           /\ \E q \in WithRecap(u) : WindowOccs(u) \subseteq q.occs
           /\ \A q, s \in WithRecap(u) : q.status = "unsent" /\ s.status = "unsent" => q = s
  <1> DEFINE new == [key |-> RecapKey(u), end |-> WindowEnd(u), occs |-> WindowOccs(u),
                     status |-> "unsent"]
             Taken(r) == [r EXCEPT !.end = WindowEnd(u), !.occs = r.occs \cup WindowOccs(u)]
             After(r) == IF r \in Unsent(u) THEN Taken(r) ELSE r
  <1>1. WithRecap(u) = IF Unsent(u) = {} THEN recaps[u] \cup {new}
                                         ELSE {After(r) : r \in recaps[u]}
    BY DEF WithRecap
  <1>2. /\ new.key = RecapKey(u) /\ new.occs = WindowOccs(u) /\ new.status = "unsent"
    OBVIOUS
  <1>3. ASSUME NEW r \in Unsent(u)
        PROVE  /\ Taken(r).key = r.key /\ Taken(r).occs = r.occs \cup WindowOccs(u)
               /\ Taken(r).status = "unsent" /\ r \in recaps[u]
    BY Taking DEF Unsent
  <1>4. \A r \in recaps[u] : r.status = "unsent" <=> r \in Unsent(u)
    BY DEF Unsent
  <1>5. \A r, q \in Unsent(u) : r = q
    BY DEF Unsent, RecapInv, RowsOK
  <1> HIDE DEF new, Taken
  <1>6. CASE Unsent(u) = {}
    BY <1>1, <1>2, <1>4, <1>6
  <1>7. CASE Unsent(u) # {}
    <2>1. PICK one \in Unsent(u) : TRUE
      BY <1>7
    <2>2. one \in recaps[u]
      BY <2>1 DEF Unsent
    <2>3. \A q \in WithRecap(u) : \E r \in recaps[u] : q = After(r)
      BY <1>1, <1>7
    <2>4. \A q \in WithRecap(u) :
                 \/ q \in recaps[u] /\ q.status # "unsent"
                 \/ \E r \in Unsent(u) : /\ q.status = "unsent" /\ q.key = r.key
                                         /\ q.occs = r.occs \cup WindowOccs(u)
      BY <1>3, <1>4, <2>3
    <2>5. \A r \in recaps[u] : After(r) \in WithRecap(u) /\ r.occs \subseteq After(r).occs
      BY <1>1, <1>3, <1>7
    <2>6. WindowOccs(u) \subseteq After(one).occs
      BY <1>3, <2>1
    <2>7. \A q \in WithRecap(u) : q.status = "unsent" => q = Taken(one)
      BY <1>4, <1>5, <2>1, <2>3
    <2> QED BY <2>2, <2>4, <2>5, <2>6, <2>7
  <1> QED BY <1>6, <1>7

(* make_recaps() keeps the recaps apart: the window it closes begins where   *)
(* every row's last one ended.                                               *)
LEMMA RecapStep == ASSUME RecapInv, TypeInv', MakeRecaps PROVE RecapInv'
  <1> DEFINE Mailed(u) == Due(u) /\ WindowMatches(u) # {}
  <1>0. /\ \A u \in User : usr[u].start \in Nat /\ usr'[u].start \in Nat
        /\ \A m \in match : m.at \in Nat
        /\ \A u \in User : \A r \in recaps[u] : r.key \in Nat /\ r.occs \subseteq Occurrence
    BY DEF RecapInv, TypeInv, TypeOK, UserType, RecapType
  <1>1. /\ match' = match
        /\ \A u \in User : recaps'[u] = IF Mailed(u) THEN WithRecap(u) ELSE recaps[u]
        /\ \A u \in User, o \in Occurrence :
              alert'[<<u, o>>] = IF Mailed(u) /\ Stale(u, o) THEN "recap_only" ELSE alert[<<u, o>>]
    BY DEF MakeRecaps
  <1>2. ASSUME NEW u \in User
        PROVE  /\ usr[u].start <= usr'[u].start
               /\ Due(u) => /\ usr'[u].start = WindowEnd(u) /\ WindowEnd(u) \in Nat
                            /\ usr[u].start < WindowEnd(u)
    <2>1. TypeInv
      BY DEF RecapInv
    <2>2. CASE Due(u)
      <3>1. usr'[u].start = WindowEnd(u)
        BY <2>1, <2>2, RecapMoves
      <3>2. WindowEnd(u) \in Nat /\ usr[u].start < WindowEnd(u)
        BY <2>1, <2>2, DueWindow
      <3> QED BY <1>0, <3>1, <3>2
    <2>3. CASE ~Due(u)
      <3>1. usr'[u] = usr[u]
        BY <2>1, <2>3, RecapMoves
      <3> QED BY <1>0, <2>3, <3>1
    <2> QED BY <2>2, <2>3
  <1>3. ASSUME NEW u \in User, NEW o \in Occurrence, Passed(u, o) PROVE Passed(u, o)'
    BY <1>0, <1>1, <1>2, <1>3 DEF Passed
  <1>4. ASSUME NEW u \in User, Due(u), NEW o \in WindowOccs(u)
        PROVE  Passed(u, o)' /\ o \in Occurrence
    <2>1. PICK m \in match : m.user = u /\ m.occ = o /\ m.at < WindowEnd(u)
      BY <1>4 DEF WindowOccs, WindowMatches
    <2> QED BY <1>1, <1>2, <1>4, <2>1 DEF Passed, RecapInv, TypeInv, TypeOK
  <1> HIDE DEF Mailed
  <1>m. \A u \in User : Mailed(u) => Due(u)
    BY DEF Mailed
  <1>5. ASSUME NEW u \in User PROVE RowsOK(u)'
    <2>1. RowsOK(u)
      BY DEF RecapInv
    <2>2. CASE Mailed(u)
      <3>1. recaps'[u] = WithRecap(u) /\ Due(u)
        BY <1>1, <1>m, <2>2
      <3>2. \A r \in Unsent(u) : r \in recaps[u]
        BY DEF Unsent
      <3>3. RecapKey(u) = WindowEnd(u)
        BY DEF RecapKey
      <3>4. \A r \in recaps'[u] : r.key <= usr'[u].start
        <4> SUFFICES ASSUME NEW r \in WithRecap(u) PROVE r.key <= usr'[u].start
          BY <3>1
        <4>1. r.key = RecapKey(u) \/ \E q \in recaps[u] : r.key = q.key
          BY <3>1, <3>2, RecapRows
        <4>2. \A q \in recaps[u] : q.key <= usr[u].start
          BY <2>1 DEF RowsOK
        <4> QED BY <1>0, <1>2, <3>1, <3>3, <4>1, <4>2
      <3>5. \A r \in recaps'[u] : \A o \in r.occs : Passed(u, o)'
        <4> SUFFICES ASSUME NEW r \in WithRecap(u), NEW o \in r.occs PROVE Passed(u, o)'
          BY <3>1
        <4>1. o \in WindowOccs(u) \/ \E q \in recaps[u] : o \in q.occs
          BY <3>1, <3>2, RecapRows
        <4>2. CASE o \in WindowOccs(u)
          BY <1>4, <3>1, <4>2
        <4>3. CASE \E q \in recaps[u] : o \in q.occs
          <5>1. Passed(u, o) /\ o \in Occurrence
            BY <1>0, <2>1, <4>3 DEF RowsOK
          <5> QED BY <1>3, <5>1
        <4> QED BY <4>1, <4>2, <4>3
      <3>6. \A r, q \in recaps'[u] : r.status = "unsent" /\ q.status = "unsent" => r = q
        BY <3>1, RecapRows
      <3> QED BY <3>4, <3>5, <3>6 DEF RowsOK
    <2>3. CASE ~Mailed(u)
      <3>1. recaps'[u] = recaps[u]
        BY <1>1, <2>3
      <3>2. \A r \in recaps'[u] : r.key <= usr'[u].start
        BY <1>0, <1>2, <2>1, <3>1 DEF RowsOK
      <3>3. \A r \in recaps'[u] : \A o \in r.occs : Passed(u, o)'
        BY <1>0, <1>3, <2>1, <3>1 DEF RowsOK
      <3>4. \A r, q \in recaps'[u] : r.status = "unsent" /\ q.status = "unsent" => r = q
        BY <2>1, <3>1 DEF RowsOK
      <3> QED BY <3>2, <3>3, <3>4 DEF RowsOK
    <2> QED BY <2>2, <2>3
  <1>6. ASSUME NEW u \in User, NEW r \in recaps'[u], NEW q \in recaps'[u], r # q
        PROVE  r.occs \cap q.occs = {} /\ r.key # q.key
    <2>0. \A x, y \in recaps[u] : x # y => x.occs \cap y.occs = {} /\ x.key # y.key
      BY DEF RecapInv, OneRecapEach, RecapKeysUnique
    <2>1. CASE ~Mailed(u)
      BY <1>1, <1>6, <2>0, <2>1
    <2>2. CASE Mailed(u)
      <3>1. recaps'[u] = WithRecap(u) /\ Due(u)
        BY <1>1, <1>m, <2>2
      <3>2. ASSUME NEW x \in recaps[u], x.status # "unsent", NEW y \in WithRecap(u), x # y
            PROVE  x.occs \cap y.occs = {} /\ x.key # y.key
        <4>1. x.occs \cap WindowOccs(u) = {} /\ x.key # RecapKey(u)
          BY <3>1, WindowIsNew
        <4>2. CASE y \in recaps[u]
          BY <2>0, <3>2, <4>2
        <4>3. CASE y.key = RecapKey(u) /\ y.occs = WindowOccs(u)
          BY <4>1, <4>3
        <4>4. ASSUME NEW z \in Unsent(u), y.key = z.key, y.occs = z.occs \cup WindowOccs(u)
              PROVE  x.occs \cap y.occs = {} /\ x.key # y.key
          <5>1. z \in recaps[u] /\ z # x
            BY <3>2, <4>4 DEF Unsent
          <5> QED BY <2>0, <4>1, <4>4, <5>1
        <4> QED BY <3>1, <4>2, <4>3, <4>4, RecapRows
      <3>3. CASE r.status = "unsent" /\ q.status = "unsent"
        BY <1>6, <3>1, <3>3, RecapRows
      <3>4. CASE r.status # "unsent"
        <4>1. r \in recaps[u]
          BY <3>1, <3>4, RecapRows
        <4> QED BY <1>6, <3>1, <3>2, <3>4, <4>1
      <3>5. CASE q.status # "unsent"
        <4>1. q \in recaps[u]
          BY <3>1, <3>5, RecapRows
        <4>2. q.occs \cap r.occs = {} /\ q.key # r.key
          BY <1>6, <3>1, <3>2, <3>5, <4>1
        <4> QED BY <4>2
      <3> QED BY <3>3, <3>4, <3>5
    <2> QED BY <2>1, <2>2
  <1>7. OneRecapEach' /\ RecapKeysUnique'
    BY <1>6 DEF OneRecapEach, RecapKeysUnique
  <1>8. FoldedIsListed'
    <2> SUFFICES ASSUME NEW u \in User, NEW o \in Occurrence, alert'[<<u, o>>] = "recap_only"
                 PROVE  \E r \in recaps'[u] : o \in r.occs
      BY DEF FoldedIsListed
    <2>1. CASE Mailed(u) /\ Stale(u, o)
      <3>1. o \in WindowOccs(u) /\ Due(u) /\ recaps'[u] = WithRecap(u)
        BY <1>1, <1>m, <2>1 DEF Stale
      <3> QED BY <3>1, RecapRows
    <2>2. CASE ~(Mailed(u) /\ Stale(u, o))
      <3>1. alert[<<u, o>>] = "recap_only"
        BY <1>1, <2>2
      <3>2. PICK r \in recaps[u] : o \in r.occs
        BY <3>1 DEF RecapInv, FoldedIsListed
      <3>3. recaps'[u] = recaps[u] \/ (recaps'[u] = WithRecap(u) /\ Due(u))
        BY <1>1, <1>m
      <3> QED BY <3>2, <3>3, RecapRows
    <2> QED BY <2>1, <2>2
  <1>9. MatchesOK'
    BY <1>1 DEF RecapInv, MatchesOK
  <1> QED BY <1>5, <1>7, <1>8, <1>9 DEF RecapInv

(* Every step keeps the recaps apart.                                        *)
LEMMA ApartStep == RecapInv /\ [Next]_vars => RecapInv'
  <1> SUFFICES ASSUME RecapInv, [Next]_vars PROVE RecapInv'
    OBVIOUS
  <1>t. TypeInv /\ TypeInv' /\ TypeOK /\ MatchesOK /\ RecapKeysUnique
    BY TypeStep DEF RecapInv, TypeInv
  <1>0. /\ recaps \in [User -> SUBSET RecapType]
        /\ alert \in [User \X Occurrence -> AlertStates]
        /\ usr \in [User -> UserType] /\ now \in Nat
        /\ \A u \in User : usr[u].start \in Nat /\ usr[u].start <= now
    BY DEF RecapInv, TypeInv, TypeOK, WindowOK, UserType
  <1> DEFINE SameWindows == \A u \in User : usr[u].start <= usr'[u].start
             SameLists == \A u \in User : Restatused(recaps[u], recaps'[u])
             NoFold == \A u \in User, o \in Occurrence :
                           alert'[<<u, o>>] = "recap_only" => alert[<<u, o>>] = "recap_only"
             Matched == MatchesOK' /\ match \subseteq match'
  <1>q. SameWindows /\ SameLists /\ NoFold /\ Matched => RecapInv'
    BY <1>t, QuietStep
  <1>w. usr' = usr => SameWindows
    BY <1>0
  <1>l. recaps' = recaps => SameLists
    BY <1>t, SameRows
  <1>f. alert' = alert => NoFold
    OBVIOUS
  <1>m. match' = match => Matched
    BY <1>t DEF MatchesOK
  <1> HIDE DEF SameWindows, SameLists, NoFold, Matched
  <1>1. CASE MatchEvents
    <2>1. PICK batch \in SUBSET Occurrence : match' = MatchesWith(batch) /\ alert' = AlertsWith(batch)
      BY <1>1 DEF MatchEvents, Batches, Unprocessed
    <2>2. Matched
      BY <1>t, <2>1, MatchedOnce DEF Matched
    <2>3. NoFold
      BY <2>1, MatchingFoldsNone DEF NoFold
    <2>4. usr' = usr /\ recaps' = recaps
      BY <1>1 DEF MatchEvents
    <2> QED BY <1>q, <1>w, <1>l, <2>2, <2>3, <2>4
  <1>2. CASE MakeRecaps
    BY <1>t, <1>2, RecapStep
  <1>3. CASE Tick
    BY <1>3, <1>q, <1>w, <1>l, <1>f, <1>m DEF Tick
  <1>4. ASSUME NEW o \in Occurrence, Discover(o) \/ Close(o) PROVE RecapInv'
    BY <1>4, <1>q, <1>w, <1>l, <1>f, <1>m DEF Discover, Close
  <1>5. ASSUME NEW u \in User, Unsubscribe(u) PROVE RecapInv'
    <2>1. SameWindows
      <3>1. usr' = [usr EXCEPT ![u] = [usr[u] EXCEPT !.alerts = FALSE, !.recap = FALSE, !.next = 0]]
        BY <1>5 DEF Unsubscribe
      <3>2. \A w \in User : usr'[w].start = usr[w].start
        BY <1>0, <3>1 DEF UserType
      <3> QED BY <1>0, <3>2 DEF SameWindows
    <2>2. SameLists
      <3>1. recaps' = [recaps EXCEPT ![u] = CancelledRecaps(u)]
        BY <1>5 DEF Unsubscribe
      <3>2. \A w \in User : recaps'[w] = IF w = u THEN CancelledRecaps(u) ELSE recaps[w]
        BY <1>0, <3>1
      <3> QED BY <1>t, <3>2, SameRows, CancellingRestatuses DEF SameLists
    <2>3. NoFold
      BY <1>5 DEF Unsubscribe, CancelledAlerts, NoFold
    <2>4. match' = match
      BY <1>5 DEF Unsubscribe
    <2> QED BY <1>q, <1>m, <2>1, <2>2, <2>3, <2>4
  <1>6. ASSUME NEW u \in User, ReachChanges(u) PROVE RecapInv'
    <2>1. SameWindows
      <3>1. usr' = [usr EXCEPT ![u].reachable = ~@]
        BY <1>6 DEF ReachChanges
      <3>2. \A w \in User : usr'[w].start = usr[w].start
        BY <1>0, <3>1 DEF UserType
      <3> QED BY <1>0, <3>2 DEF SameWindows
    <2>2. recaps' = recaps /\ alert' = alert /\ match' = match
      BY <1>6 DEF ReachChanges
    <2> QED BY <1>q, <1>l, <1>f, <1>m, <2>1, <2>2
  <1>7. ASSUME NEW u \in User, NEW p \in Preferences, NEW topics \in TopicChoices,
               NEW zone \in Zone, PutSettings(u, p[1], p[2], topics, zone)
        PROVE  RecapInv'
    <2>1. SameWindows
      <3>1. p[1] \in BOOLEAN /\ p[2] \in BOOLEAN /\ topics \in SUBSET Topic
        BY TopicAssumption
      <3>2. /\ usr'[u].start = now \/ usr'[u].start = usr[u].start
            /\ \A w \in User \ {u} : usr'[w] = usr[w]
        BY <1>t, <1>7, <3>1, SettingsMove
      <3> QED BY <1>0, <3>2 DEF SameWindows
    <2>2. SameLists
      <3>1. recaps' = recaps \/ recaps' = [recaps EXCEPT ![u] = CancelledRecaps(u)]
        BY <1>7 DEF PutSettings
      <3>2. CASE recaps' = [recaps EXCEPT ![u] = CancelledRecaps(u)]
        <4>1. \A w \in User : recaps'[w] = IF w = u THEN CancelledRecaps(u) ELSE recaps[w]
          BY <1>0, <3>2
        <4> QED BY <1>t, <4>1, SameRows, CancellingRestatuses DEF SameLists
      <3> QED BY <1>l, <3>1, <3>2
    <2>3. Backlog \in SUBSET Occurrence
      BY DEF Backlog, Unprocessed
    <2>4. NoFold
      <3>1. alert' = AlertsWith(Backlog) \/ alert' = CancelledAlerts(AlertsWith(Backlog), u)
        BY <1>7 DEF PutSettings
      <3>2. ASSUME NEW w \in User, NEW o \in Occurrence, alert'[<<w, o>>] = "recap_only"
            PROVE  AlertsWith(Backlog)[<<w, o>>] = "recap_only"
        BY <3>1, <3>2 DEF CancelledAlerts
      <3> QED BY <2>3, <3>2, MatchingFoldsNone DEF NoFold
    <2>5. Matched
      BY <1>t, <1>7, <2>3, MatchedOnce DEF PutSettings, Matched
    <2> QED BY <1>q, <2>1, <2>2, <2>4, <2>5
  <1>8. ASSUME NEW u \in User, NEW o \in Occurrence, SendAlert(u, o) PROVE RecapInv'
    <2>1. NoFold
      BY <1>0, <1>8 DEF SendAlert, NoFold
    <2> QED BY <1>8, <1>q, <1>w, <1>l, <1>m, <2>1 DEF SendAlert
  <1>9. ASSUME NEW u \in User, NEW r \in recaps[u], SendRecap(u, r) PROVE RecapInv'
    <2>1. PICK s \in {"attempted", "gone"} :
            recaps' = [recaps EXCEPT ![u] = (@ \ {r}) \cup {[r EXCEPT !.status = s]}]
      BY <1>9 DEF SendRecap
    <2> DEFINE rows == (recaps[u] \ {r}) \cup {[r EXCEPT !.status = s]}
    <2>2. \A w \in User : recaps'[w] = IF w = u THEN rows ELSE recaps[w]
      BY <1>0, <2>1
    <2>3. Restatused(recaps[u], rows)
      BY SendingRestatuses
    <2> HIDE DEF rows
    <2>4. SameLists
      BY <1>t, <2>2, <2>3, SameRows DEF SameLists
    <2> QED BY <1>9, <1>q, <1>w, <1>f, <1>m, <2>4 DEF SendRecap
  <1>10. CASE UNCHANGED vars
    BY <1>10, <1>q, <1>w, <1>l, <1>f, <1>m DEF vars
  <1> QED BY <1>1, <1>2, <1>3, <1>4, <1>5, <1>6, <1>7, <1>8, <1>9, <1>10 DEF Next

(* The recaps are apart in every reachable state.                            *)
LEMMA RecapInvariant == Spec => []RecapInv
  <1>1. Init => RecapInv
    <2> SUFFICES ASSUME Init PROVE RecapInv
      OBVIOUS
    <2>1. TypeInv
      BY TypeInit
    <2>2. match = {} /\ (\A u \in User : recaps[u] = {})
          /\ \A u \in User, o \in Occurrence : alert[<<u, o>>] = "none"
      BY DEF Init
    <2>3. \A u \in User : RowsOK(u)
      BY <2>2 DEF RowsOK
    <2> QED BY <2>1, <2>2, <2>3
            DEF RecapInv, MatchesOK, OneRecapEach, RecapKeysUnique, FoldedIsListed
  <1> QED BY <1>1, ApartStep, PTL DEF Spec

(* make_recaps() lists a discovery in one recap of a subscriber at most,     *)
(* never takes a dedupe key twice, and folds no alert it does not list,      *)
(* whatever windows are missed, merged, cancelled, restarted or moved.       *)
THEOREM ListedOnce == Spec => []RecapsAreApart
  <1>1. RecapInv => RecapsAreApart
    BY DEF RecapInv, TypeInv, RecapsAreApart
  <1> QED BY <1>1, RecapInvariant, PTL

-----------------------------------------------------------------------------
(* From a commit to its match and its recap                                  *)

\* an event not yet matched: who wants it, and who has closed its window, is on record
EventOK(u, o) == event[o].state = "new" =>
    /\ Admits(u, o, event[o].at) => <<u, o>> \in wanted
    /\ event[o].at < usr[u].start => <<u, o>> \in late

CommitInv ==
    /\ RecapInv
    /\ \A u \in User, o \in Occurrence : EventOK(u, o)
    /\ NothingMissed

(* Matching a batch finds the preferences of the commits, and misses only    *)
(* discoveries committed behind a window.                                    *)
LEMMA MatchingMissesNone ==
    ASSUME CommitInv, NEW batch \in SUBSET Unprocessed, match' = MatchesWith(batch),
           wanted' = wanted, late' = late
    PROVE  /\ MatchedAsCommitted'
           /\ \A u \in User, m \in match' \ match :
                 m.user = u /\ m.at < usr[u].start => <<u, m.occ>> \in late
  <1>1. batch \in SUBSET Occurrence /\ TypeOK /\ MatchesOK
    BY DEF Unprocessed, CommitInv, RecapInv, TypeInv
  <1>2. ASSUME NEW m \in match' \ match
        PROVE  /\ m.user \in User /\ m.occ \in Occurrence /\ m.at = event[m.occ].at
               /\ event[m.occ].state = "new" /\ Admits(m.user, m.occ, m.at)
    BY <1>1, <1>2, MatchedOnce DEF Unprocessed
  <1>3. \A m \in match : <<m.user, m.occ>> \in wanted
    BY DEF CommitInv, NothingMissed, MatchedAsCommitted
  <1>4. \A m \in match' \ match : <<m.user, m.occ>> \in wanted
    BY <1>2 DEF CommitInv, EventOK
  <1>5. \A u \in User, m \in match' \ match :
                 m.user = u /\ m.at < usr[u].start => <<u, m.occ>> \in late
    BY <1>2 DEF CommitInv, EventOK
  <1> QED BY <1>3, <1>4, <1>5 DEF MatchedAsCommitted

(* A subscriber misses nothing more if the match is not in a window closed   *)
(* since, or was missed before.                                              *)
LEMMA StillComplete ==
    ASSUME CommitInv, late \subseteq late',
           \A u \in User : \A m \in Missed(u)' : m \in Missed(u) \/ <<u, m.occ>> \in late
    PROVE  WindowComplete'
  BY DEF WindowComplete, CommitInv, NothingMissed

(* The subscriber's row, windows, matches and lists being the same, so is    *)
(* what it missed.                                                           *)
LEMMA SameMissed ==
    ASSUME NEW u \in User, match' = match,
           usr'[u].recap => /\ usr[u].recap
                            /\ usr'[u].start = usr[u].start /\ usr'[u].enrolled = usr[u].enrolled
                            /\ Restatused(recaps[u], recaps'[u])
    PROVE  Missed(u)' \subseteq Missed(u)
  <1> SUFFICES ASSUME NEW m \in match, m.user = u, usr'[u].recap,
                      usr'[u].enrolled <= m.at, m.at < usr'[u].start,
                      \A r \in recaps'[u] : m.occ \notin r.occs
               PROVE  m \in Missed(u)
    BY DEF Missed
  <1>1. \A r \in recaps[u] : m.occ \notin r.occs
    BY DEF Restatused
  <1> QED BY <1>1 DEF Missed

(* A window that closes lists every match in it.                             *)
LEMMA ClosingMissesNone ==
    ASSUME CommitInv, MakeRecaps, NEW u \in User
    PROVE  Missed(u)' \subseteq Missed(u)
  <1>0. /\ RecapInv /\ TypeInv
        /\ usr[u] \in UserType /\ usr[u].start \in Nat
        /\ \A m \in match : m.at \in Nat
    BY DEF CommitInv, RecapInv, TypeInv, TypeOK, UserType
  <1>1. /\ match' = match
        /\ recaps'[u] = IF Due(u) /\ WindowMatches(u) # {} THEN WithRecap(u) ELSE recaps[u]
    BY DEF MakeRecaps
  <1>2. /\ usr'[u].recap = usr[u].recap /\ usr'[u].enrolled = usr[u].enrolled
        /\ Due(u) => usr'[u].start = WindowEnd(u)
        /\ ~Due(u) => usr'[u].start = usr[u].start
    <2>1. /\ usr'[u] = [usr[u] EXCEPT !.start = usr'[u].start, !.next = usr'[u].next]
          /\ Due(u) => usr'[u].start = WindowEnd(u)
          /\ ~Due(u) => usr'[u] = usr[u]
      BY <1>0, RecapMoves
    <2>2. ASSUME NEW r, NEW s, NEW n, r = [usr[u] EXCEPT !.start = s, !.next = n]
          PROVE  r.recap = usr[u].recap /\ r.enrolled = usr[u].enrolled
      BY <1>0, <2>2 DEF UserType
    <2>3. usr'[u].recap = usr[u].recap /\ usr'[u].enrolled = usr[u].enrolled
      BY <2>1, <2>2
    <2> QED BY <2>1, <2>3
  <1>3. \A r \in recaps[u] : \E q \in recaps'[u] : r.occs \subseteq q.occs
    BY <1>0, <1>1, RecapRows
  <1> SUFFICES ASSUME NEW m \in match, m.user = u, usr[u].recap,
                      usr[u].enrolled <= m.at, m.at < usr'[u].start,
                      \A r \in recaps'[u] : m.occ \notin r.occs
               PROVE  m \in Missed(u)
    BY <1>1, <1>2 DEF Missed
  <1>4. m.at < usr[u].start
    <2> SUFFICES ASSUME ~(m.at < usr[u].start) PROVE FALSE
      OBVIOUS
    <2>1. Due(u) /\ m.at < WindowEnd(u)
      BY <1>2
    <2>2. m \in WindowMatches(u)
      BY <1>0, <2>1 DEF WindowMatches
    <2>3. m.occ \in WindowOccs(u) /\ recaps'[u] = WithRecap(u)
      BY <1>1, <2>1, <2>2 DEF WindowOccs
    <2> QED BY <1>0, <2>1, <2>3, RecapRows
  <1>5. \A r \in recaps[u] : m.occ \notin r.occs
    BY <1>3
  <1> QED BY <1>4, <1>5 DEF Missed

(* Settings match the backlog first and list what they cancel; a recap that  *)
(* begins misses nothing, for it starts with its window.                     *)
LEMMA SettingsMissNone ==
    ASSUME CommitInv, NEW u \in User, NEW alerts \in BOOLEAN, NEW recap \in BOOLEAN,
           NEW topics \in SUBSET Topic, NEW zone \in Zone,
           PutSettings(u, alerts, recap, topics, zone)
    PROVE  /\ \A w \in User, o \in Occurrence : EventOK(w, o)'
           /\ NothingMissed'
  <1>1. /\ event' = Processed(Unprocessed) /\ match' = MatchesWith(Unprocessed)
        /\ wanted' = wanted /\ late' = late
    BY DEF PutSettings, Backlog
  <1>t. RecapInv /\ TypeInv /\ TypeOK /\ MatchesOK /\ Unprocessed \in SUBSET Occurrence
    BY DEF CommitInv, RecapInv, TypeInv, Unprocessed
  <1>2. ASSUME NEW o \in Occurrence PROVE event'[o].state # "new"
    <2>1. event[o] \in EventType
      BY <1>t DEF TypeOK, EventType
    <2>2. CASE o \in Unprocessed
      <3>1. event'[o] = [event[o] EXCEPT !.state = "processed"]
        BY <1>1, <2>2 DEF Processed
      <3> QED BY <2>1, <3>1 DEF EventType
    <2>3. CASE o \notin Unprocessed
      BY <1>1, <2>3 DEF Processed, Unprocessed
    <2> QED BY <2>2, <2>3
  <1>3. \A w \in User, o \in Occurrence : EventOK(w, o)'
    BY <1>2 DEF EventOK
  <1>4. MatchedAsCommitted' /\ \A w \in User, m \in match' \ match :
                 m.user = w /\ m.at < usr[w].start => <<w, m.occ>> \in late
    BY <1>1, MatchingMissesNone
  <1>5. /\ usr'[u].recap = recap
        /\ (recap /\ ~usr[u].recap) => usr'[u].start = now /\ usr'[u].enrolled = now
        /\ ~(recap /\ ~usr[u].recap) => /\ usr'[u].start = usr[u].start
                                        /\ usr'[u].enrolled = usr[u].enrolled
        /\ \A w \in User \ {u} : usr'[w] = usr[w]
    BY <1>t, SettingsMove
  <1>6. \A w \in User : usr'[w].recap => recaps'[w] = recaps[w]
    <2>1. recaps' = IF recap THEN recaps ELSE [recaps EXCEPT ![u] = CancelledRecaps(u)]
      BY DEF PutSettings
    <2>2. recaps \in [User -> SUBSET RecapType]
      BY <1>t DEF TypeInv
    <2> QED BY <1>5, <2>1, <2>2
  <1>7. now \in Nat /\ \A m \in match' : m.at \in Nat
    <2>1. match' \subseteq MatchType
      BY <1>1, <1>t, MatchingTyped
    <2> QED BY <1>t, <2>1 DEF TypeOK, MatchType
  <1>8. ASSUME NEW w \in User, NEW m \in Missed(w)'
        PROVE  m \in Missed(w) \/ <<w, m.occ>> \in late
    <2>1. /\ m \in match' /\ m.user = w /\ usr'[w].recap
          /\ usr'[w].enrolled <= m.at /\ m.at < usr'[w].start
          /\ \A r \in recaps'[w] : m.occ \notin r.occs
      BY <1>8 DEF Missed
    <2>2. /\ usr[w].recap /\ usr'[w].start = usr[w].start
          /\ usr'[w].enrolled = usr[w].enrolled
      <3>1. CASE w = u /\ recap /\ ~usr[u].recap
        <4>1. now <= m.at /\ m.at < now
          BY <1>5, <2>1, <3>1
        <4> QED BY <1>7, <2>1, <4>1
      <3>2. CASE ~(w = u /\ recap /\ ~usr[u].recap)
        BY <1>5, <2>1, <3>2
      <3> QED BY <3>1, <3>2
    <2>3. CASE m \in match
      BY <1>6, <2>1, <2>2, <2>3 DEF Missed
    <2>4. CASE m \notin match
      BY <1>4, <2>1, <2>2, <2>4
    <2> QED BY <2>3, <2>4
  <1>9. WindowComplete'
    BY <1>1, <1>8, StillComplete
  <1> QED BY <1>3, <1>4, <1>9 DEF NothingMissed

(* Every step keeps what was wanted and what was late on record.             *)
LEMMA CommitStep == CommitInv /\ [Next]_vars => CommitInv'
  <1> SUFFICES ASSUME CommitInv, [Next]_vars PROVE CommitInv'
    OBVIOUS
  <1>t. RecapInv /\ RecapInv' /\ TypeInv /\ TypeOK /\ RecapKeysUnique /\ MatchesOK
    BY ApartStep DEF CommitInv, RecapInv, TypeInv
  <1>0. /\ usr \in [User -> UserType] /\ now \in Nat
        /\ event \in [Occurrence -> EventType]
        /\ recaps \in [User -> SUBSET RecapType]
    BY <1>t DEF TypeInv, TypeOK, EventType
  <1>e. \A u \in User, o \in Occurrence : EventOK(u, o)
    BY DEF CommitInv
  <1>s. \A u \in User : Restatused(recaps[u], recaps[u])
    BY <1>t, SameRows
  <1> DEFINE Events == \A u \in User, o \in Occurrence : EventOK(u, o)'
  <1> SUFFICES Events /\ NothingMissed'
    BY <1>t DEF CommitInv
  <1>m. ASSUME match' = match, wanted \subseteq wanted', late \subseteq late',
               \A u \in User : Missed(u)' \subseteq Missed(u)
        PROVE  NothingMissed'
    <2>1. MatchedAsCommitted'
      BY <1>m DEF CommitInv, NothingMissed, MatchedAsCommitted
    <2>2. WindowComplete'
      BY <1>m, StillComplete
    <2> QED BY <2>1, <2>2 DEF NothingMissed
  <1>u. ASSUME usr' = usr, event' = event, wanted \subseteq wanted', late \subseteq late'
        PROVE  Events
    <2> SUFFICES ASSUME NEW u \in User, NEW o \in Occurrence PROVE EventOK(u, o)'
      OBVIOUS
    <2>1. EventOK(u, o)
      BY <1>e
    <2> QED BY <1>u, <2>1 DEF EventOK, Admits
  <1>v. ASSUME usr' = usr, recaps' = recaps, match' = match
        PROVE  \A u \in User : Missed(u)' \subseteq Missed(u)
    BY <1>v DEF Missed
  <1> HIDE DEF Events
  <1>1. CASE MatchEvents
    <2>1. PICK batch \in SUBSET Unprocessed : event' = Processed(batch) /\ match' = MatchesWith(batch)
      BY <1>1 DEF MatchEvents, Batches
    <2>2. usr' = usr /\ recaps' = recaps /\ wanted' = wanted /\ late' = late
      BY <1>1 DEF MatchEvents
    <2>3. /\ MatchedAsCommitted'
          /\ \A u \in User, m \in match' \ match :
                 m.user = u /\ m.at < usr[u].start => <<u, m.occ>> \in late
      BY <2>1, <2>2, MatchingMissesNone
    <2>4. \A u \in User : \A m \in Missed(u)' : m \in Missed(u) \/ <<u, m.occ>> \in late
      BY <2>2, <2>3 DEF Missed
    <2>5. WindowComplete'
      BY <2>2, <2>4, StillComplete
    <2>6. Events
      <3> SUFFICES ASSUME NEW u \in User, NEW o \in Occurrence PROVE EventOK(u, o)'
        BY DEF Events
      <3>1. event'[o].state = "new" => event'[o] = event[o]
        <4>1. event'[o] = IF o \in batch THEN [event[o] EXCEPT !.state = "processed"] ELSE event[o]
          BY <2>1 DEF Processed
        <4>2. [event[o] EXCEPT !.state = "processed"].state = "processed"
          BY <1>0 DEF EventType
        <4> QED BY <4>1, <4>2
      <3>2. EventOK(u, o)
        BY <1>e
      <3> QED BY <2>2, <3>1, <3>2 DEF EventOK, Admits
    <2> QED BY <2>3, <2>5, <2>6 DEF NothingMissed
  <1>2. CASE MakeRecaps
    <2>1. /\ Unprocessed = {} /\ event' = event /\ match' = match
          /\ wanted' = wanted /\ late' = late
      BY <1>2 DEF MakeRecaps
    <2>2. Events
      BY <2>1 DEF Events, EventOK, Unprocessed
    <2>3. \A u \in User : Missed(u)' \subseteq Missed(u)
      BY <1>2, ClosingMissesNone
    <2> QED BY <1>m, <2>1, <2>2, <2>3
  <1>3. CASE Tick
    BY <1>3, <1>m, <1>u, <1>v DEF Tick
  <1>4. ASSUME NEW o \in Occurrence, Discover(o) \/ Close(o) PROVE Events /\ NothingMissed'
    <2>1. CASE Close(o)
      BY <2>1, <1>m, <1>u, <1>v DEF Close
    <2>2. CASE Discover(o)
      <3> DEFINE Commits(at) ==
                  /\ event' = [event EXCEPT ![o] = [state |-> "new", at |-> at]]
                  /\ wanted' = wanted \cup ({u \in User : Admits(u, o, at)} \X {o})
                  /\ late' = late \cup ({u \in User : at < usr[u].start} \X {o})
      <3>0. PICK lag \in Lags : Commits(now - lag)
        BY <2>2 DEF Discover
      <3> HIDE DEF Commits
      <3>a. PICK at : Commits(at)
        BY <3>0
      <3>1. /\ event' = [event EXCEPT ![o] = [state |-> "new", at |-> at]]
            /\ wanted' = wanted \cup ({u \in User : Admits(u, o, at)} \X {o})
            /\ late' = late \cup ({u \in User : at < usr[u].start} \X {o})
        BY <3>a DEF Commits
      <3>2. usr' = usr /\ recaps' = recaps /\ match' = match
        BY <2>2 DEF Discover
      <3>3. Events
        <4> SUFFICES ASSUME NEW u \in User, NEW x \in Occurrence PROVE EventOK(u, x)'
          BY DEF Events
        <4>1. CASE x = o
          <5>1. event'[x] = [state |-> "new", at |-> at]
            BY <1>0, <3>1, <4>1
          <5>2. Admits(u, x, at)' => <<u, x>> \in wanted'
            BY <3>1, <3>2, <4>1 DEF Admits
          <5>3. at < usr'[u].start => <<u, x>> \in late'
            BY <3>1, <3>2, <4>1
          <5> QED BY <5>1, <5>2, <5>3 DEF EventOK, Admits
        <4>2. CASE x # o
          <5>1. event'[x] = event[x]
            BY <1>0, <3>1, <4>2
          <5>2. EventOK(u, x)
            BY <1>e
          <5> QED BY <3>1, <3>2, <5>1, <5>2 DEF EventOK, Admits
        <4> QED BY <4>1, <4>2
      <3> QED BY <1>m, <1>v, <3>1, <3>2, <3>3
    <2> QED BY <1>4, <2>1, <2>2
  <1>5. ASSUME NEW u \in User, Unsubscribe(u) PROVE Events /\ NothingMissed'
    <2>1. /\ event' = event /\ match' = match /\ wanted' = wanted /\ late' = late
          /\ usr' = [usr EXCEPT ![u] = [usr[u] EXCEPT !.alerts = FALSE, !.recap = FALSE, !.next = 0]]
          /\ recaps' = [recaps EXCEPT ![u] = CancelledRecaps(u)]
      BY <1>5 DEF Unsubscribe
    <2>2. /\ ~usr'[u].recap /\ ~usr'[u].alerts /\ usr'[u].start = usr[u].start
          /\ \A w \in User \ {u} : usr'[w] = usr[w] /\ recaps'[w] = recaps[w]
      BY <1>0, <2>1 DEF UserType
    <2>3. Events
      <3> SUFFICES ASSUME NEW w \in User, NEW o \in Occurrence PROVE EventOK(w, o)'
        BY DEF Events
      <3>1. EventOK(w, o)
        BY <1>e
      <3> QED BY <2>1, <2>2, <3>1 DEF EventOK, Admits
    <2>4. \A w \in User : Missed(w)' \subseteq Missed(w)
      BY <2>1, <2>2 DEF Missed
    <2> QED BY <1>m, <2>1, <2>3, <2>4
  <1>6. ASSUME NEW u \in User, ReachChanges(u) PROVE Events /\ NothingMissed'
    <2>1. /\ event' = event /\ match' = match /\ wanted' = wanted /\ late' = late
          /\ recaps' = recaps /\ usr' = [usr EXCEPT ![u].reachable = ~@]
      BY <1>6 DEF ReachChanges
    <2>2. \A w \in User : /\ usr'[w].start = usr[w].start /\ usr'[w].recap = usr[w].recap
                          /\ usr'[w].alerts = usr[w].alerts /\ usr'[w].opted = usr[w].opted
                          /\ usr'[w].topics = usr[w].topics /\ usr'[w].enrolled = usr[w].enrolled
      BY <1>0, <2>1 DEF UserType
    <2>3. Events
      <3> SUFFICES ASSUME NEW w \in User, NEW o \in Occurrence PROVE EventOK(w, o)'
        BY DEF Events
      <3>1. EventOK(w, o)
        BY <1>e
      <3> QED BY <2>1, <2>2, <3>1 DEF EventOK, Admits
    <2>4. \A w \in User : Missed(w)' \subseteq Missed(w)
      BY <2>1, <2>2 DEF Missed
    <2> QED BY <1>m, <2>1, <2>3, <2>4
  <1>7. ASSUME NEW u \in User, NEW p \in Preferences, NEW topics \in TopicChoices,
               NEW zone \in Zone, PutSettings(u, p[1], p[2], topics, zone)
        PROVE  Events /\ NothingMissed'
    <2>1. p[1] \in BOOLEAN /\ p[2] \in BOOLEAN /\ topics \in SUBSET Topic
      BY TopicAssumption
    <2> QED BY <1>7, <2>1, SettingsMissNone DEF Events
  <1>8. ASSUME NEW u \in User, NEW o \in Occurrence, SendAlert(u, o)
        PROVE  Events /\ NothingMissed'
    BY <1>8, <1>m, <1>u, <1>v DEF SendAlert
  <1>9. ASSUME NEW u \in User, NEW r \in recaps[u], SendRecap(u, r)
        PROVE  Events /\ NothingMissed'
    <2>1. PICK s \in {"attempted", "gone"} :
            recaps' = [recaps EXCEPT ![u] = (@ \ {r}) \cup {[r EXCEPT !.status = s]}]
      BY <1>9 DEF SendRecap
    <2> DEFINE rows == (recaps[u] \ {r}) \cup {[r EXCEPT !.status = s]}
    <2>2. \A w \in User : recaps'[w] = IF w = u THEN rows ELSE recaps[w]
      BY <1>0, <2>1
    <2>3. Restatused(recaps[u], rows)
      BY <1>t, SendingRestatuses
    <2> HIDE DEF rows
    <2>4. usr' = usr /\ match' = match /\ event' = event /\ wanted' = wanted /\ late' = late
      BY <1>9 DEF SendRecap
    <2>5. \A w \in User : Missed(w)' \subseteq Missed(w)
      BY <1>s, <2>2, <2>3, <2>4, SameMissed
    <2> QED BY <1>m, <1>u, <2>4, <2>5
  <1>10. CASE UNCHANGED vars
    BY <1>10, <1>m, <1>u, <1>v DEF vars
  <1> QED BY <1>1, <1>2, <1>3, <1>4, <1>5, <1>6, <1>7, <1>8, <1>9, <1>10 DEF Next

(* What is wanted, late and missed is on record in every reachable state.    *)
LEMMA CommitInvariant == Spec => []CommitInv
  <1>1. Init => CommitInv
    <2> SUFFICES ASSUME Init PROVE CommitInv
      OBVIOUS
    <2>1. TypeInv
      BY TypeInit
    <2>2. /\ match = {} /\ (\A u \in User : recaps[u] = {})
          /\ (\A u \in User, o \in Occurrence : alert[<<u, o>>] = "none")
          /\ \A o \in Occurrence : event[o].state = "absent"
      BY DEF Init
    <2>3. \A u \in User : RowsOK(u)
      BY <2>2 DEF RowsOK
    <2>4. RecapInv
      BY <2>1, <2>2, <2>3
         DEF RecapInv, MatchesOK, OneRecapEach, RecapKeysUnique, FoldedIsListed
    <2>5. \A u \in User, o \in Occurrence : EventOK(u, o)
      BY <2>2 DEF EventOK
    <2>6. NothingMissed
      BY <2>2 DEF NothingMissed, WindowComplete, Missed, MatchedAsCommitted
    <2> QED BY <2>4, <2>5, <2>6 DEF CommitInv
  <1> QED BY <1>1, CommitStep, PTL DEF Spec

(* A discovery matches under the preferences in force at its commit, however *)
(* late it is processed, and every match of a closed window is in its recap, *)
(* except those of discoveries committed behind the window.                  *)
THEOREM NoneMissed == Spec => []NothingMissed
  <1>1. CommitInv => NothingMissed
    BY DEF CommitInv
  <1> QED BY <1>1, CommitInvariant, PTL
=============================================================================
