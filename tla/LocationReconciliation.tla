----------------------- MODULE LocationReconciliation -----------------------
(***************************************************************************)
(* Which source's location a posting shows                                 *)
(* (app/services/location_reconciliation.py), as the pipelines and the     *)
(* repository apply it to one run after another.                           *)
(*                                                                         *)
(* Sources are numbered in the order of their names, and 0 is an           *)
(* observation without provenance.  A content hash stands for the location *)
(* it was computed from, the part of it that is decided here.              *)
(***************************************************************************)
EXTENDS Integers, Sequences, SequencesExt

CONSTANTS
    TierOf,         \* authority of each source, 0 if it is not recognised
    StatedLocations, \* locations an observation may state
    Vague,          \* "Unspecified", "Unknown", "N/A" and nothing at all
    MaxBatch,       \* bound: rows of a run
    MaxHeard        \* bound: observations

Provenance == 0 .. Len(TierOf)

ASSUME LocationAssumption ==
    /\ TierOf \in Seq(Nat) /\ Vague \subseteq StatedLocations
    /\ MaxHeard \in Nat /\ MaxBatch \in Nat

VARIABLES
    heard,          \* observations of the posting, source and location, as they were weighed
    shown,          \* location, its source and the location of the hash
    closed          \* is_closed

locations == <<heard, shown, closed>>

NoPosting == <<>>

LocationsInit == heard = <<>> /\ shown = NoPosting /\ closed = FALSE

Recognised(source) == source # 0 /\ TierOf[source] > 0
Meaningful(location) == location \notin Vague

\* a fixed order of names between sources of one tier
Alphabetical_Newest(candidate, current) == TRUE      \* mutant
Alphabetical(candidate, current) == candidate < current

Wins(candidate, current) ==
    CASE candidate = 0 -> current = 0
      [] candidate # 0 /\ current = 0 -> Recognised(candidate)
      [] candidate # 0 /\ candidate = current -> TRUE
      [] OTHER -> IF TierOf[candidate] # TierOf[current] THEN TierOf[candidate] > TierOf[current]
                  ELSE Recognised(candidate) /\ Alphabetical(candidate, current)

Taken(seen) == [location |-> seen.location, source |-> seen.source, hash |-> seen.location]

\* the hash comes with the observation, and is computed again for another location
Rehashed(current, seen) == current.location

Reconciling(current, seen) ==
    CASE current = NoPosting ->
           IF Meaningful(seen.location) THEN Taken(seen) ELSE [Taken(seen) EXCEPT !.source = 0]
      [] current # NoPosting /\ Meaningful(seen.location)
           /\ (~Meaningful(current.location) \/ Wins(seen.source, current.source)) -> Taken(seen)
      [] OTHER -> [current EXCEPT !.hash = Rehashed(current, seen)]

\* ATSPipeline merges the rows of a run that tell of one role before anything is
\* stored: the first keeps its place in the run, the best location wins
InRun(rows) == FoldLeft(Reconciling, Taken(rows[1]), Tail(rows))

\* a run discovers the posting, updates, closes or reopens it
Hear(rows) ==
    /\ Len(heard) + Len(rows) <= MaxHeard
    /\ heard' = heard \o rows
    /\ shown' = Reconciling(shown, InRun(rows))
    /\ closed' \in BOOLEAN

\* the README pipeline has reconciled a row with the posting before it stores it
Offered(rows) ==
    {InRun(rows)} \cup {Reconciling(shown, row) : row \in IF Len(rows) = 1 THEN {rows[1]} ELSE {}}

\* AMBIGUOUS_REOPEN: an open reading that proves nothing leaves the posting closed, and
\* prepare_candidate() gives it the location of the posting; its source stays
Refuse(rows) ==
    /\ Len(heard) < MaxHeard
    /\ shown # NoPosting /\ closed
    /\ \E offer \in Offered(rows) :
          LET prepared == [source |-> offer.source, location |-> shown.location]
          IN  /\ heard' = Append(heard, prepared)
              /\ shown' = Reconciling(shown, prepared)
    /\ UNCHANGED closed

LocationStatement == [source : Provenance, location : StatedLocations]

LocationsNext == \E rows \in SeqOf(LocationStatement, MaxBatch) \ {<<>>} : Hear(rows) \/ Refuse(rows)

LocationsSpec == LocationsInit /\ [][LocationsNext]_locations

-----------------------------------------------------------------------------
(* Properties                                                                *)

Better(s, t) == TierOf[s] > TierOf[t] \/ (TierOf[s] = TierOf[t] /\ s <= t)

(* In whatever order sources are polled, whether in one run or in several,   *)
(* and however often the posting is closed and reopened, it ends up with the *)
(* location the most authoritative recognised source that has stated one     *)
(* stated last: weaker sources, sources nobody knows and empty answers       *)
(* change nothing, and equals do not take turns.  A reading refused as an    *)
(* ambiguous reopen counts as its source's statement of the location that is *)
(* shown, which that source may never have stated.                           *)
LocationIsBest ==
    LET telling == {i \in DOMAIN heard :
                      Recognised(heard[i].source) /\ Meaningful(heard[i].location)}
        best == CHOOSE i \in telling : \A j \in telling :
                    /\ Better(heard[i].source, heard[j].source)
                    /\ heard[i].source = heard[j].source => j <= i
    IN  telling # {} => shown.source = heard[best].source /\ shown.location = heard[best].location

(* The content hash that classifies later observations is the one of the     *)
(* location the posting shows, also where an observation was overruled.      *)
HashOfShown == shown # NoPosting => shown.hash = shown.location

(* reconcile_location(): the best source's location, under its own hash.     *)
PlaceIsBest == LocationIsBest /\ HashOfShown
=============================================================================
