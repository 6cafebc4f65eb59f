---------------------------- MODULE RecordProofs ----------------------------
(***************************************************************************)
(* Theorems about what the stores keep of what they are told, for any      *)
(* sources, companies, postings, subscribers and workers: the places and   *)
(* facts shown for a posting, the filings shown for a company, the         *)
(* discoveries that migration 0006 moves, the commits that polls ingest,   *)
(* the verdicts that rest on statements and the tokens that buckets give   *)
(* out. The first lemmas give the folds of the community modules as        *)
(* functions over 0 .. n, for which an invariant is shown from one index   *)
(* to the next.                                                            *)
(***************************************************************************)
EXTENDS LocationReconciliation, AdvertisedFacts, EmployerHistory, OccurrenceMigration,
        Polling, Screening, Throttle, FiniteSetTheorems, SequenceTheorems,
        WellFoundedInduction, TLAPS

-----------------------------------------------------------------------------
(* Folds over sequences                                                     *)

LEMMA LeastNatural ==
    ASSUME NEW T \in SUBSET Nat, T # {}
    PROVE  \E n \in T : \A m \in T : n <= m
  <1> DEFINE R == OpToRel(<, Nat)
  <1>1. \A x, y \in Nat : x < y => <<x, y>> \in R
    BY DEF OpToRel
  <1>2. IsWellFoundedOn(R, Nat)
    BY NatLessThanWellFounded
  <1> HIDE DEF R
  <1>3. PICK n \in T : \A m \in T : ~(<<m, n>> \in R)
    BY <1>2, WFMin
  <1>4. \A m \in T : ~(m < n)
    BY <1>1, <1>3
  <1> QED BY <1>4

LEMMA SetInduction ==
    ASSUME NEW N \in Nat, NEW S, 0 \in S, \A n \in 0 .. N : n \in S /\ n < N => n + 1 \in S
    PROVE  0 .. N \subseteq S
  <1>1. SUFFICES ASSUME NEW x \in 0 .. N, x \notin S PROVE FALSE
    OBVIOUS
  <1> DEFINE T == {n \in 0 .. N : n \notin S}
  <1>4. T \in SUBSET Nat /\ T # {}
    BY <1>1
  <1>2. PICK n \in T : \A m \in T : n <= m
    <2> HIDE DEF T
    <2> QED BY <1>4, LeastNatural
  <1>3. n - 1 \in 0 .. N /\ n - 1 \in S /\ n - 1 < N
    BY <1>2
  <1> QED BY <1>2, <1>3

LEMMA LargestIndex ==
    ASSUME NEW N \in Nat, NEW s \in SUBSET (1 .. N), s # {}
    PROVE  Max(s) \in s /\ \A m \in s : m <= Max(s)
  <1> DEFINE T == {n \in Nat : \E m \in s : n = N - m}
  <1>1. T \in SUBSET Nat /\ T # {}
    <2>1. PICK m \in s : TRUE
      OBVIOUS
    <2>2. m \in 1 .. N
      OBVIOUS
    <2>3. N - m \in Nat
      BY <2>2
    <2>4. N - m \in T
      BY <2>1, <2>3
    <2> QED BY <2>4
  <1>2. PICK n \in T : \A m \in T : n <= m
    <2> HIDE DEF T
    <2> QED BY <1>1, LeastNatural
  <1>3. PICK x \in s : n = N - x
    BY <1>2
  <1>4. ASSUME NEW m \in s PROVE x >= m
    <2>1. m \in 1 .. N /\ x \in 1 .. N
      BY <1>3
    <2>2. N - m \in T
      BY <2>1
    <2>3. N - x <= N - m
      BY <1>2, <1>3, <2>2
    <2> QED BY <2>1, <2>3
  <1>5. Max(s) \in s /\ \A m \in s : Max(s) >= m
    BY <1>4 DEF Max
  <1>6. \A m \in s : m \in Int
    OBVIOUS
  <1> QED BY <1>5, <1>6

Folding(h, N, base, F) ==
    h = [s \in SUBSET (1 .. N) |-> IF s = {} THEN base ELSE F[Max(s)][h[s \ {Max(s)}]]]

LEMMA FoldExists ==
    ASSUME NEW N \in Nat, NEW A, NEW base \in A, NEW F \in [1 .. N -> [A -> A]]
    PROVE  \E h \in [SUBSET (1 .. N) -> A] : Folding(h, N, base, F)
  <1> DEFINE S == {n \in 0 .. N : \E h \in [SUBSET (1 .. n) -> A] : Folding(h, n, base, F)}
  <1>1. 0 \in S
    <2> DEFINE h == [s \in SUBSET (1 .. 0) |-> base]
    <2>1. h \in [SUBSET (1 .. 0) -> A] /\ SUBSET (1 .. 0) = {{}}
      OBVIOUS
    <2>2. Folding(h, 0, base, F)
      BY <2>1 DEF Folding
    <2> QED BY <2>1, <2>2
  <1>2. ASSUME NEW n \in 0 .. N, n \in S, n < N PROVE n + 1 \in S
    <2>1. PICK h \in [SUBSET (1 .. n) -> A] : Folding(h, n, base, F)
      BY <1>2
    <2> DEFINE Next(s) == IF n + 1 \in s THEN F[n + 1][h[s \ {n + 1}]] ELSE h[s]
               g == [s \in SUBSET (1 .. n + 1) |-> Next(s)]
    <2>2. \A s \in SUBSET (1 .. n + 1) : s \ {n + 1} \in SUBSET (1 .. n) /\ (n + 1 \notin s => s \in SUBSET (1 .. n))
      BY <1>2
    <2>3. F[n + 1] \in [A -> A] /\ n + 1 \in Nat
      BY <1>2
    <2>4. \A s \in SUBSET (1 .. n + 1) : Next(s) \in A
      BY <2>1, <2>2, <2>3
    <2>5. g \in [SUBSET (1 .. n + 1) -> A]
      BY <2>4
    <2>6. \A s \in SUBSET (1 .. n + 1) : g[s] = IF s = {} THEN base ELSE F[Max(s)][g[s \ {Max(s)}]]
      <3> TAKE s \in SUBSET (1 .. n + 1)
      <3>1. CASE n + 1 \in s
        <4>1. Max(s) = n + 1
          <5>1. Max(s) \in s /\ \A m \in s : m <= Max(s)
            BY <2>3, <3>1, LargestIndex
          <5>2. Max(s) \in 1 .. n + 1
            BY <5>1
          <5> QED BY <2>3, <3>1, <5>1, <5>2
        <4>2. g[s] = F[n + 1][h[s \ {n + 1}]]
          BY <3>1
        <4>3. s \ {n + 1} \in SUBSET (1 .. n + 1) /\ n + 1 \notin s \ {n + 1}
          OBVIOUS
        <4>4. g[s \ {n + 1}] = h[s \ {n + 1}]
          BY <4>3
        <4> QED BY <3>1, <4>1, <4>2, <4>4
      <3>2. CASE n + 1 \notin s
        <4>1. s \in SUBSET (1 .. n) /\ g[s] = h[s]
          BY <2>2, <3>2
        <4>2. h[s] = IF s = {} THEN base ELSE F[Max(s)][h[s \ {Max(s)}]]
          BY <2>1, <4>1 DEF Folding
        <4>3. s \ {Max(s)} \in SUBSET (1 .. n + 1) /\ n + 1 \notin s \ {Max(s)}
          BY <3>2
        <4>4. g[s \ {Max(s)}] = h[s \ {Max(s)}]
          BY <4>3
        <4> QED BY <4>1, <4>2, <4>4
      <3> QED BY <3>1, <3>2
    <2> HIDE DEF g
    <2>7. Folding(g, n + 1, base, F)
      BY <2>5, <2>6 DEF Folding
    <2> QED BY <1>2, <2>5, <2>7
  <1> HIDE DEF S
  <1>3. 0 .. N \subseteq S
    BY <1>1, <1>2, SetInduction
  <1>4. N \in S
    BY <1>3
  <1> QED BY <1>4 DEF S

LEMMA FirstIndices ==
    ASSUME NEW N \in Nat, NEW k \in 1 .. N
    PROVE  1 .. k \in SUBSET (1 .. N) /\ 1 .. k # {} /\ Max(1 .. k) = k /\ (1 .. k) \ {k} = 1 .. (k - 1)
  <1>1. k \in Nat /\ 1 .. k \in SUBSET (1 .. k) /\ k \in 1 .. k
    OBVIOUS
  <1>2. Max(1 .. k) \in 1 .. k /\ \A m \in 1 .. k : m <= Max(1 .. k)
    BY <1>1, LargestIndex
  <1>3. Max(1 .. k) = k
    BY <1>1, <1>2
  <1>4. (1 .. k) \ {k} = 1 .. (k - 1) /\ 1 .. k # {} /\ 1 .. k \in SUBSET (1 .. N)
    OBVIOUS
  <1> QED BY <1>3, <1>4

-----------------------------------------------------------------------------
(* Places: reconcile_location()                                             *)

Heardings == Seq(LocationStatement)
Showing == [location : StatedLocations, source : Provenance, hash : StatedLocations]

Telling(said) == {i \in DOMAIN said : Recognised(said[i].source) /\ Meaningful(said[i].location)}

\* the last word of the best source among those that tell a location
BestOf(said, i) ==
    /\ i \in Telling(said)
    /\ \A j \in Telling(said) : /\ Better(said[i].source, said[j].source)
                                /\ said[i].source = said[j].source => j <= i

\* a location that was arrived at is the best of what was told, or no source recognised told one
Sums(site, said) ==
    /\ Telling(said) = {} => ~Meaningful(site.location) \/ ~Recognised(site.source)
    /\ Telling(said) # {} =>
         /\ Meaningful(site.location)
         /\ \E i \in Telling(said) : /\ BestOf(said, i)
                                     /\ site.source = said[i].source /\ site.location = said[i].location

LocationsInv ==
    /\ heard \in Heardings
    /\ shown = NoPosting => heard = <<>>
    /\ shown # NoPosting => shown \in Showing /\ shown.hash = shown.location /\ Sums(shown, heard)

LEMMA Tiers == \A s \in Provenance : s # 0 => TierOf[s] \in Nat /\ s \in Nat
  BY LocationAssumption DEF Provenance

LEMMA TellingAfter ==
    ASSUME NEW p \in Heardings, NEW q \in Heardings
    PROVE  /\ p \o q \in Heardings
           /\ \A i \in Telling(p) : i \in Telling(p \o q) /\ i \in 1 .. Len(p) /\ (p \o q)[i] = p[i]
           /\ \A i \in Telling(q) : Len(p) + i \in Telling(p \o q) /\ i \in 1 .. Len(q) /\ (p \o q)[Len(p) + i] = q[i]
           /\ \A i \in Telling(p \o q) :
                \/ i \in Telling(p)
                \/ \E k \in Telling(q) : i = Len(p) + k
  <1>1. /\ p \o q \in Heardings /\ Len(p) \in Nat /\ Len(q) \in Nat /\ Len(p \o q) = Len(p) + Len(q)
        /\ DOMAIN p = 1 .. Len(p) /\ DOMAIN q = 1 .. Len(q) /\ DOMAIN (p \o q) = 1 .. Len(p) + Len(q)
        /\ \A i \in 1 .. Len(p) : (p \o q)[i] = p[i]
        /\ \A i \in 1 .. Len(q) : (p \o q)[Len(p) + i] = q[i]
    BY DEF Heardings
  <1>2. \A i \in Telling(p) : i \in Telling(p \o q) /\ i \in 1 .. Len(p) /\ (p \o q)[i] = p[i]
    BY <1>1 DEF Telling
  <1>3. ASSUME NEW i \in Telling(q)
        PROVE  Len(p) + i \in Telling(p \o q) /\ i \in 1 .. Len(q) /\ (p \o q)[Len(p) + i] = q[i]
    <2>1. i \in 1 .. Len(q) /\ Recognised(q[i].source) /\ Meaningful(q[i].location)
      BY <1>1 DEF Telling
    <2>2. Len(p) + i \in 1 .. Len(p) + Len(q) /\ (p \o q)[Len(p) + i] = q[i]
      BY <1>1, <2>1
    <2> QED BY <1>1, <2>1, <2>2 DEF Telling
  <1>4. ASSUME NEW i \in Telling(p \o q), i \notin Telling(p)
        PROVE  \E k \in Telling(q) : i = Len(p) + k
    <2>1. i \in 1 .. Len(p) + Len(q) /\ Recognised((p \o q)[i].source) /\ Meaningful((p \o q)[i].location)
      BY <1>1 DEF Telling
    <2>2. i \notin 1 .. Len(p)
      BY <1>1, <1>4, <2>1 DEF Telling
    <2>3. i - Len(p) \in 1 .. Len(q) /\ i = Len(p) + (i - Len(p))
      BY <1>1, <2>1, <2>2
    <2>4. q[i - Len(p)] = (p \o q)[i]
      BY <1>1, <2>3
    <2>5. i - Len(p) \in Telling(q)
      BY <1>1, <2>1, <2>3, <2>4 DEF Telling
    <2> QED BY <2>3, <2>5
  <1> QED BY <1>1, <1>2, <1>3, <1>4

\* what one location becomes when another follows it
LEMMA ShownIsPosting == \A site \in Showing : site # NoPosting
  <1> SUFFICES ASSUME NEW site \in Showing, site = NoPosting PROVE FALSE
    OBVIOUS
  <1>1. "location" \in DOMAIN site /\ DOMAIN NoPosting = 1 .. 0
    BY DEF Showing, NoPosting
  <1>2. "location" \in 1 .. 0
    BY <1>1
  <1> QED BY <1>2

LEMMA ReconcilingTwo ==
    ASSUME NEW a \in Showing, NEW b \in Showing, b.hash = b.location
    PROVE  /\ Reconciling(a, b) \in Showing
           /\ Reconciling(a, b).location = IF Meaningful(b.location) /\ (~Meaningful(a.location) \/ Wins(b.source, a.source))
                                             THEN b.location ELSE a.location
           /\ Reconciling(a, b).source = IF Meaningful(b.location) /\ (~Meaningful(a.location) \/ Wins(b.source, a.source))
                                             THEN b.source ELSE a.source
           /\ Reconciling(a, b).hash = Reconciling(a, b).location
  <1>1. a # NoPosting
    BY ShownIsPosting
  <1> QED BY <1>1 DEF Reconciling, Taken, Rehashed, Showing

\* the place of a row by itself
LEMMA SumsOne ==
    ASSUME NEW row \in LocationStatement
    PROVE  Taken(row) \in Showing /\ Taken(row).hash = Taken(row).location /\ Sums(Taken(row), <<row>>)
  <1>1. /\ Taken(row) \in Showing /\ Taken(row).hash = row.location
        /\ Taken(row).location = row.location /\ Taken(row).source = row.source
    BY DEF Taken, Showing, LocationStatement
  <1>2. DOMAIN <<row>> = {1} /\ <<row>>[1] = row
    OBVIOUS
  <1>3. Better(row.source, row.source)
    BY LocationAssumption DEF Better, LocationStatement, Provenance
  <1>4. Telling(<<row>>) = IF Recognised(row.source) /\ Meaningful(row.location) THEN {1} ELSE {}
    BY <1>2 DEF Telling
  <1>5. Telling(<<row>>) # {} => BestOf(<<row>>, 1)
    BY <1>2, <1>3, <1>4 DEF BestOf
  <1>6. Sums(Taken(row), <<row>>)
    BY <1>1, <1>2, <1>4, <1>5 DEF Sums
  <1> QED BY <1>1, <1>6

LEMMA WinsIfBetter ==
    ASSUME NEW s \in Provenance, NEW t \in Provenance
    PROVE  /\ Recognised(t) => (Wins(s, t) <=> Recognised(s) /\ Better(s, t))
           /\ Recognised(s) /\ ~Recognised(t) => Wins(s, t)
  <1>1. (s # 0 => TierOf[s] \in Nat) /\ (t # 0 => TierOf[t] \in Nat) /\ s \in Nat /\ t \in Nat
    BY Tiers DEF Provenance
  <1> QED BY <1>1 DEF Wins, Recognised, Better, Alphabetical

LEMMA BetterOrder ==
    ASSUME NEW s \in Provenance, NEW t \in Provenance, NEW u \in Provenance,
           Recognised(s), Recognised(t), Recognised(u)
    PROVE  /\ Better(s, t) /\ Better(t, u) => Better(s, u)
           /\ Better(s, t) \/ Better(t, s)
           /\ Better(s, t) /\ Better(t, s) => s = t
  <1>1. TierOf[s] \in Nat /\ TierOf[t] \in Nat /\ TierOf[u] \in Nat /\ s \in Nat /\ t \in Nat /\ u \in Nat
    BY Tiers DEF Provenance, Recognised
  <1> QED BY <1>1 DEF Better

LEMMA SumsBoth ==
    ASSUME NEW p \in Heardings, NEW q \in Heardings, NEW a \in Showing, NEW b \in Showing,
           b.hash = b.location, Sums(a, p), Sums(b, q)
    PROVE  Sums(Reconciling(a, b), p \o q)
  <1> DEFINE c == Reconciling(a, b)
             takes == Meaningful(b.location) /\ (~Meaningful(a.location) \/ Wins(b.source, a.source))
  <1>1. /\ c.location = IF takes THEN b.location ELSE a.location
        /\ c.source = IF takes THEN b.source ELSE a.source
    BY ReconcilingTwo
  <1> HIDE DEF c
  <1>2. /\ \A i \in Telling(p) : i \in Telling(p \o q) /\ i \in 1 .. Len(p) /\ (p \o q)[i] = p[i]
        /\ \A i \in Telling(q) : Len(p) + i \in Telling(p \o q) /\ i \in 1 .. Len(q) /\ (p \o q)[Len(p) + i] = q[i]
        /\ \A i \in Telling(p \o q) : i \in Telling(p) \/ \E k \in Telling(q) : i = Len(p) + k
        /\ Len(p) \in Nat /\ Len(q) \in Nat
    BY TellingAfter DEF Heardings
  <1>3. /\ \A i \in Telling(p) : p[i].source \in Provenance /\ Recognised(p[i].source)
        /\ \A i \in Telling(q) : q[i].source \in Provenance /\ Recognised(q[i].source)
    <2>1. \A said \in Heardings : \A i \in DOMAIN said : said[i] \in LocationStatement
      BY DEF Heardings
    <2> QED BY <2>1 DEF Telling, LocationStatement
  <1>4. a.source \in Provenance /\ b.source \in Provenance
    BY DEF Showing
  <1>5. CASE Telling(q) = {} /\ Telling(p) = {}
    <2>1. Telling(p \o q) = {}
      BY <1>2, <1>5
    <2> QED BY <1>1, <1>5, <2>1 DEF Sums, c
  <1>6. CASE Telling(q) = {} /\ Telling(p) # {}
    <2>1. PICK i \in Telling(p) : BestOf(p, i) /\ a.source = p[i].source /\ a.location = p[i].location
      BY <1>6 DEF Sums
    <2>2. ~takes
      BY <1>3, <1>4, <1>6, <2>1, WinsIfBetter DEF Sums
    <2>3. BestOf(p \o q, i)
      BY <1>2, <1>6, <2>1 DEF BestOf
    <2>4. Telling(p \o q) # {} /\ Meaningful(a.location)
      BY <1>2, <1>6 DEF Sums
    <2> QED BY <1>1, <1>2, <2>1, <2>2, <2>3, <2>4 DEF Sums, c
  <1>7. CASE Telling(q) # {}
    <2>1. PICK k \in Telling(q) : BestOf(q, k) /\ b.source = q[k].source /\ b.location = q[k].location
      BY <1>7 DEF Sums
    <2>2. /\ Telling(p \o q) # {} /\ Meaningful(b.location) /\ Recognised(b.source)
          /\ Len(p) + k \in Telling(p \o q) /\ (p \o q)[Len(p) + k] = q[k]
      BY <1>2, <1>3, <1>7, <2>1 DEF Sums
    <2>3. ASSUME NEW j \in Telling(q)
          PROVE  Better(q[k].source, q[j].source) /\ (q[k].source = q[j].source => j <= k)
      BY <2>1 DEF BestOf
    <2>4. CASE takes
      <3>1. \A j \in Telling(p) : Better(b.source, p[j].source)
        <4> TAKE j \in Telling(p)
        <4>1. PICK i \in Telling(p) : BestOf(p, i) /\ a.source = p[i].source /\ Meaningful(a.location)
          BY DEF Sums
        <4>2. Wins(b.source, a.source) /\ Recognised(a.source)
          BY <1>3, <2>4, <4>1
        <4>3. Better(b.source, a.source) /\ Better(a.source, p[j].source)
          BY <1>4, <4>1, <4>2, WinsIfBetter DEF BestOf
        <4> QED BY <1>3, <1>4, <2>2, <4>2, <4>3, BetterOrder
      <3>2. BestOf(p \o q, Len(p) + k)
        <4>1. ASSUME NEW j \in Telling(p \o q)
              PROVE  /\ Better((p \o q)[Len(p) + k].source, (p \o q)[j].source)
                     /\ (p \o q)[Len(p) + k].source = (p \o q)[j].source => j <= Len(p) + k
          <5>1. CASE j \in Telling(p)
            <6>1. (p \o q)[j] = p[j] /\ j \in 1 .. Len(p) /\ k \in 1 .. Len(q)
              BY <1>2, <5>1
            <6>2. j <= Len(p) + k
              BY <1>2, <6>1
            <6> QED BY <2>1, <2>2, <3>1, <5>1, <6>1, <6>2
          <5>2. ASSUME NEW m \in Telling(q), j = Len(p) + m
                PROVE  /\ Better((p \o q)[Len(p) + k].source, (p \o q)[j].source)
                       /\ (p \o q)[Len(p) + k].source = (p \o q)[j].source => j <= Len(p) + k
            <6>1. (p \o q)[j] = q[m] /\ m \in 1 .. Len(q) /\ k \in 1 .. Len(q)
              BY <1>2, <5>2
            <6>2. m <= k => j <= Len(p) + k
              BY <1>2, <5>2, <6>1
            <6> QED BY <2>2, <2>3, <6>1, <6>2
          <5> QED BY <1>2, <5>1, <5>2
        <4> QED BY <2>2, <4>1 DEF BestOf
      <3> QED BY <1>1, <2>1, <2>2, <2>4, <3>2 DEF Sums, c
    <2>5. CASE ~takes
      <3>1. Meaningful(a.location) /\ ~Wins(b.source, a.source)
        BY <2>2, <2>5
      <3>2. Telling(p) # {}
        BY <1>4, <2>2, <3>1, WinsIfBetter DEF Sums
      <3>3. PICK i \in Telling(p) : BestOf(p, i) /\ a.source = p[i].source /\ a.location = p[i].location
        BY <3>2 DEF Sums
      <3>4. Recognised(a.source) /\ ~Better(b.source, a.source)
        BY <1>3, <1>4, <2>2, <3>1, <3>3, WinsIfBetter
      <3>5. \A j \in Telling(q) : Better(a.source, q[j].source) /\ a.source # q[j].source
        <4> TAKE j \in Telling(q)
        <4>1. Better(b.source, q[j].source)
          BY <2>1, <2>3
        <4>2. Better(a.source, b.source)
          BY <1>4, <2>2, <3>4, BetterOrder
        <4> QED BY <1>3, <1>4, <2>2, <3>4, <4>1, <4>2, BetterOrder
      <3>6. BestOf(p \o q, i)
        <4>1. ASSUME NEW j \in Telling(p \o q)
              PROVE  /\ Better((p \o q)[i].source, (p \o q)[j].source)
                     /\ (p \o q)[i].source = (p \o q)[j].source => j <= i
          <5>1. CASE j \in Telling(p)
            BY <1>2, <3>3, <5>1 DEF BestOf
          <5>2. ASSUME NEW m \in Telling(q), j = Len(p) + m
                PROVE  /\ Better((p \o q)[i].source, (p \o q)[j].source)
                       /\ (p \o q)[i].source = (p \o q)[j].source => j <= i
            BY <1>2, <3>3, <3>5, <5>2
          <5> QED BY <1>2, <5>1, <5>2
        <4> QED BY <1>2, <3>3, <4>1 DEF BestOf
      <3> QED BY <1>1, <1>2, <2>2, <2>5, <3>1, <3>3, <3>6 DEF Sums, c
    <2> QED BY <2>4, <2>5
  <1> QED BY <1>5, <1>6, <1>7

\* one row after another, a run arrives at the best place of its rows
LEMMA RunSums ==
    ASSUME NEW rows \in Heardings, rows # <<>>
    PROVE  InRun(rows) \in Showing /\ InRun(rows).hash = InRun(rows).location /\ Sums(InRun(rows), rows)
  <1> DEFINE rest == Tail(rows)
             N == Len(rest)
             A == {site \in Showing : site.hash = site.location}
             F == [i \in 1 .. N |-> [site \in A |-> Reconciling(site, rest[i])]]
             base == Taken(rows[1])
  <1>1. /\ rest \in Heardings /\ N \in Nat /\ DOMAIN rest = 1 .. N /\ N = Len(rows) - 1 /\ Len(rows) \in Nat \ {0}
        /\ rows[1] \in LocationStatement /\ \A i \in 1 .. N : rest[i] \in LocationStatement /\ rest[i] = rows[i + 1]
    BY DEF Heardings
  <1>2. base \in A
    BY <1>1, SumsOne
  <1>3. \A site \in A : \A i \in 1 .. N :
          Reconciling(site, rest[i]) \in A /\ Reconciling(site, rest[i]) = Reconciling(site, Taken(rest[i]))
    <2> SUFFICES ASSUME NEW site \in A, NEW i \in 1 .. N
                 PROVE  Reconciling(site, rest[i]) \in A /\ Reconciling(site, rest[i]) = Reconciling(site, Taken(rest[i]))
      OBVIOUS
    <2>1. Taken(rest[i]) \in Showing /\ Taken(rest[i]).hash = Taken(rest[i]).location
      BY <1>1, SumsOne
    <2>2. Reconciling(site, rest[i]) = Reconciling(site, Taken(rest[i]))
      BY DEF Reconciling, Taken, Rehashed
    <2> QED BY <2>1, <2>2, ReconcilingTwo
  <1>4. F \in [1 .. N -> [A -> A]]
    BY <1>3
  <1> DEFINE Folded(it) == it = [s \in SUBSET DOMAIN rest |->
                                   IF s = {} THEN base ELSE Reconciling(it[s \ {Max(s)}], rest[Max(s)])]
  <1>5. \E it : Folded(it)
    <2> HIDE DEF A, F, base
    <2>1. PICK h \in [SUBSET (1 .. N) -> A] : Folding(h, N, base, F)
      BY <1>1, <1>2, <1>4, FoldExists
    <2>2. ASSUME NEW s \in SUBSET (1 .. N), s # {}
          PROVE  F[Max(s)][h[s \ {Max(s)}]] = Reconciling(h[s \ {Max(s)}], rest[Max(s)])
      <3>1. Max(s) \in 1 .. N /\ s \ {Max(s)} \in SUBSET (1 .. N)
        BY <1>1, <2>2, LargestIndex
      <3> QED BY <2>1, <3>1 DEF F
    <2>3. Folded(h)
      BY <1>1, <2>1, <2>2 DEF Folding
    <2> QED BY <2>3
  <1>6. PICK it : Folded(it) /\ InRun(rows) = it[1 .. N]
    <2>1. InRun(rows) = (CHOOSE it : Folded(it))[DOMAIN rest]
      BY DEF InRun, FoldLeft, MapThenFoldSet
    <2> HIDE DEF Folded
    <2>2. Folded(CHOOSE it : Folded(it))
      BY <1>5
    <2> QED BY <1>1, <2>1, <2>2
  <1>7. it[1 .. 0] = base /\ \A k \in 1 .. N : it[1 .. k] = Reconciling(it[1 .. (k - 1)], rest[k])
    <2> HIDE DEF base
    <2>1. \A s \in SUBSET (1 .. N) : it[s] = IF s = {} THEN base ELSE Reconciling(it[s \ {Max(s)}], rest[Max(s)])
      BY <1>1, <1>6
    <2>2. 1 .. 0 = {} /\ {} \in SUBSET (1 .. N)
      OBVIOUS
    <2>3. it[1 .. 0] = base
      BY <2>1, <2>2
    <2>4. ASSUME NEW k \in 1 .. N PROVE it[1 .. k] = Reconciling(it[1 .. (k - 1)], rest[k])
      <3>1. PICK s \in SUBSET (1 .. N) : s = 1 .. k /\ s # {} /\ Max(s) = k /\ s \ {k} = 1 .. (k - 1)
        BY <1>1, FirstIndices
      <3>2. it[s] = Reconciling(it[s \ {Max(s)}], rest[Max(s)])
        BY <2>1, <3>1
      <3> QED BY <3>1, <3>2
    <2> QED BY <2>3, <2>4
  <1> DEFINE S == {k \in 0 .. N : it[1 .. k] \in A /\ Sums(it[1 .. k], SubSeq(rows, 1, k + 1))}
  <1>8. 0 \in S
    <2>1. SubSeq(rows, 1, 0 + 1) = <<rows[1]>>
      <3>1. 1 \in 1 .. Len(rows) /\ 1 - 1 = 0 /\ 0 + 1 = 1
        BY <1>1
      <3>2. SubSeq(rows, 1, 1) = SubSeq(rows, 1, 1 - 1) \o <<rows[1]>>
        BY <3>1, SubSeqRecursiveSecond DEF Heardings
      <3>3. SubSeq(rows, 1, 0) = <<>>
        BY SubSeqEmpty
      <3>4. <<>> \o <<rows[1]>> = <<rows[1]>>
        BY <1>1
      <3> QED BY <3>1, <3>2, <3>3, <3>4
    <2>2. it[1 .. 0] = base /\ base \in A /\ Sums(base, <<rows[1]>>)
      BY <1>1, <1>2, <1>7, SumsOne
    <2>3. 0 \in 0 .. N
      BY <1>1
    <2> HIDE DEF A, base, N
    <2>4. Sums(it[1 .. 0], SubSeq(rows, 1, 0 + 1))
      BY <2>1, <2>2
    <2> QED BY <2>2, <2>3, <2>4
  <1>9. ASSUME NEW n \in 0 .. N, n \in S, n < N PROVE n + 1 \in S
    <2> DEFINE row == rest[n + 1]
    <2>1. n + 1 \in 1 .. N /\ (n + 1) - 1 = n /\ row \in LocationStatement /\ row = rows[n + 2]
      BY <1>1, <1>9
    <2>2. it[1 .. (n + 1)] = Reconciling(it[1 .. n], row) /\ it[1 .. n] \in A
      BY <1>7, <1>9, <2>1
    <2>3. /\ it[1 .. (n + 1)] = Reconciling(it[1 .. n], Taken(row)) /\ it[1 .. (n + 1)] \in A
      BY <1>3, <2>1, <2>2
    <2>4. SubSeq(rows, 1, n + 1) \in Heardings /\ <<row>> \in Heardings
      BY <1>1, <2>1 DEF Heardings
    <2>5. SubSeq(rows, 1, (n + 1) + 1) = SubSeq(rows, 1, n + 1) \o <<row>>
      <3>1. PICK m \in 1 .. Len(rows) : m = (n + 1) + 1 /\ m - 1 = n + 1 /\ 1 \in 1 .. Len(rows)
        BY <1>1, <2>1
      <3>2. SubSeq(rows, 1, m) = SubSeq(rows, 1, m - 1) \o <<rows[m]>>
        BY <3>1, SubSeqRecursiveSecond DEF Heardings
      <3> QED BY <1>1, <2>1, <3>1, <3>2
    <2>6. Sums(it[1 .. (n + 1)], SubSeq(rows, 1, n + 1) \o <<row>>)
      BY <1>9, <2>1, <2>2, <2>3, <2>4, SumsOne, SumsBoth
    <2>7. n + 1 \in 0 .. N /\ it[1 .. (n + 1)] \in A
      BY <1>1, <1>9, <2>3
    <2>8. Sums(it[1 .. (n + 1)], SubSeq(rows, 1, (n + 1) + 1))
      BY <2>5, <2>6
    <2> HIDE DEF A, N
    <2> QED BY <2>7, <2>8
  <1>10. N \in S
    <2> HIDE DEF S
    <2>1. N \in Nat
      BY <1>1
    <2> HIDE DEF N
    <2>2. \A n \in 0 .. N : n \in S /\ n < N => n + 1 \in S
      BY <1>9
    <2>3. 0 .. N \subseteq S
      BY <1>8, <2>1, <2>2, SetInduction
    <2> QED BY <2>1, <2>3
  <1>11. SubSeq(rows, 1, N + 1) = rows
    BY <1>1, SubSeqFull DEF Heardings
  <1> QED BY <1>6, <1>10, <1>11

-----------------------------------------------------------------------------
LEMMA HearKeeps ==
    ASSUME LocationsInv, NEW rows \in Heardings, rows # <<>>, Hear(rows)
    PROVE  LocationsInv'
  <1>1. /\ heard \in Heardings /\ heard' = heard \o rows /\ shown' = Reconciling(shown, InRun(rows))
    BY DEF LocationsInv, Hear
  <1>2. InRun(rows) \in Showing /\ InRun(rows).hash = InRun(rows).location /\ Sums(InRun(rows), rows)
    BY RunSums
  <1>3. heard' \in Heardings
    BY <1>1 DEF Heardings
  <1>4. CASE shown # NoPosting
    <2>1. shown' \in Showing /\ shown'.hash = shown'.location
      BY <1>1, <1>2, <1>4, ReconcilingTwo DEF LocationsInv
    <2>2. Sums(shown', heard')
      BY <1>1, <1>2, <1>4, SumsBoth DEF LocationsInv
    <2>3. shown' # NoPosting
      BY <2>1, ShownIsPosting
    <2> QED BY <1>3, <2>1, <2>2, <2>3 DEF LocationsInv
  <1>5. CASE shown = NoPosting
    <2>1. heard' = rows
      BY <1>1, <1>5 DEF LocationsInv, Heardings
    <2>2. /\ shown' \in Showing /\ shown'.hash = shown'.location /\ shown'.location = InRun(rows).location
          /\ Meaningful(InRun(rows).location) => shown'.source = InRun(rows).source
      BY <1>1, <1>2, <1>5 DEF Reconciling, Taken, Showing, Provenance
    <2>3. Sums(shown', heard')
      BY <1>2, <2>1, <2>2 DEF Sums
    <2>4. shown' # NoPosting
      BY <2>2, ShownIsPosting
    <2> QED BY <1>3, <2>2, <2>3, <2>4 DEF LocationsInv
  <1> QED BY <1>4, <1>5

\* a refused reading weighs the location shown under the source it came with
LEMMA RefuseKeeps ==
    ASSUME LocationsInv, NEW rows \in Heardings, rows # <<>>, Refuse(rows)
    PROVE  LocationsInv'
  <1>1. shown \in Showing /\ shown.hash = shown.location /\ Sums(shown, heard) /\ heard \in Heardings
    BY DEF LocationsInv, Refuse
  <1>2. PICK offer \in Offered(rows) :
          /\ heard' = Append(heard, [source |-> offer.source, location |-> shown.location])
          /\ shown' = Reconciling(shown, [source |-> offer.source, location |-> shown.location])
    BY DEF Refuse
  <1>3. offer.source \in Provenance
    <2>1. InRun(rows) \in Showing
      BY RunSums
    <2>2. ASSUME NEW row \in LocationStatement PROVE Reconciling(shown, row) \in Showing
      <3>1. Taken(row) \in Showing /\ Taken(row).hash = Taken(row).location
        BY SumsOne
      <3>2. Reconciling(shown, row) = Reconciling(shown, Taken(row))
        BY DEF Reconciling, Taken, Rehashed
      <3> QED BY <1>1, <3>1, <3>2, ReconcilingTwo
    <2>3. Len(rows) = 1 => rows[1] \in LocationStatement
      BY DEF Heardings
    <2>4. offer \in Showing
      BY <2>1, <2>2, <2>3 DEF Offered
    <2> QED BY <2>4 DEF Showing
  <1>4. PICK row \in LocationStatement : row = [source |-> offer.source, location |-> shown.location]
    BY <1>1, <1>3 DEF LocationStatement, Showing
  <1>5. Taken(row) \in Showing /\ Taken(row).hash = Taken(row).location /\ Sums(Taken(row), <<row>>)
    BY SumsOne
  <1>6. shown' = Reconciling(shown, Taken(row))
    BY <1>2, <1>4 DEF Reconciling, Taken, Rehashed
  <1>7. heard' = heard \o <<row>> /\ heard' \in Heardings /\ <<row>> \in Heardings
    BY <1>1, <1>2, <1>4 DEF Heardings
  <1>8. Sums(shown', heard')
    BY <1>1, <1>5, <1>6, <1>7, SumsBoth
  <1>9. shown' \in Showing /\ shown'.hash = shown'.location
    BY <1>1, <1>5, <1>6, ReconcilingTwo
  <1>10. shown' # NoPosting
    BY <1>9, ShownIsPosting
  <1> QED BY <1>7, <1>8, <1>9, <1>10 DEF LocationsInv

LEMMA LocationsStep == LocationsInv /\ [LocationsNext]_locations => LocationsInv'
  <1> SUFFICES ASSUME LocationsInv, [LocationsNext]_locations PROVE LocationsInv'
    OBVIOUS
  <1>1. CASE LocationsNext
    <2>1. PICK rows \in SeqOf(LocationStatement, MaxBatch) \ {<<>>} : Hear(rows) \/ Refuse(rows)
      BY <1>1 DEF LocationsNext
    <2>2. PICK m \in 0 .. MaxBatch : rows \in [1 .. m -> LocationStatement]
      BY <2>1 DEF SeqOf
    <2>3. rows \in Heardings
      BY <2>2, LocationAssumption DEF Heardings
    <2> QED BY <2>1, <2>3, HearKeeps, RefuseKeeps
  <1>2. CASE UNCHANGED locations
    BY <1>2 DEF locations, LocationsInv
  <1> QED BY <1>1, <1>2

LEMMA BestIsShown == LocationsInv => PlaceIsBest
  <1> SUFFICES ASSUME LocationsInv PROVE PlaceIsBest
    OBVIOUS
  <1>1. LocationIsBest
    <2> DEFINE telling == {i \in DOMAIN heard : Recognised(heard[i].source) /\ Meaningful(heard[i].location)}
               IsBest(i) == \A j \in telling : /\ Better(heard[i].source, heard[j].source)
                                               /\ heard[i].source = heard[j].source => j <= i
               best == CHOOSE i \in telling : IsBest(i)
    <2>1. SUFFICES ASSUME telling # {}
                   PROVE  shown.source = heard[best].source /\ shown.location = heard[best].location
      BY DEF LocationIsBest
    <2>2. heard # <<>> /\ heard \in Heardings /\ Telling(heard) = telling
      BY <2>1 DEF LocationsInv, Telling
    <2>3. PICK i \in telling : IsBest(i) /\ shown.source = heard[i].source /\ shown.location = heard[i].location
      BY <2>1, <2>2 DEF LocationsInv, Sums, BestOf
    <2>4. best \in telling /\ IsBest(best)
      BY <2>3
    <2> HIDE DEF best
    <2>5. /\ i \in Nat /\ best \in Nat
          /\ heard[i].source \in Provenance /\ heard[best].source \in Provenance
          /\ Recognised(heard[i].source) /\ Recognised(heard[best].source)
      <3>1. \A k \in DOMAIN heard : k \in Nat /\ heard[k] \in LocationStatement
        BY <2>2 DEF Heardings
      <3> QED BY <2>3, <2>4, <3>1 DEF LocationStatement
    <2>6. Better(heard[i].source, heard[best].source) /\ Better(heard[best].source, heard[i].source)
      BY <2>3, <2>4
    <2>7. heard[i].source = heard[best].source
      BY <2>5, <2>6, BetterOrder
    <2>8. best <= i /\ i <= best
      BY <2>3, <2>4, <2>7
    <2>9. best = i
      BY <2>5, <2>8
    <2> QED BY <2>3, <2>9
  <1> QED BY <1>1 DEF PlaceIsBest, HashOfShown, LocationsInv

(* reconcile_location(): after any runs over any batches, and any closures,  *)
(* reopenings and refused readings in between, a posting shows the location  *)
(* of the best source that was ever heard, ties by the alphabet, under its *)
(* own hash; a refused reading counts as a statement of the location shown.  *)
THEOREM PlacesAreBest == LocationsSpec => []PlaceIsBest
  <1>1. LocationsInit => LocationsInv
    BY DEF LocationsInit, LocationsInv, Heardings
  <1> QED BY <1>1, LocationsStep, BestIsShown, PTL DEF LocationsSpec

-----------------------------------------------------------------------------
(* Advertised facts: merge_details()                                        *)

facts == <<details, told>>
FactsSpec == FactsInit /\ [][FactsNext]_facts

LEMMA AmongIsSeq ==
    ASSUME NEW X, NEW lines \in Seq(X), NEW S
    PROVE  Among(lines, S) \in Seq(X)
  <1> DEFINE N == Len(lines)
             F == [i \in 1 .. N |-> [held \in Seq(X) |-> IF lines[i] \in S THEN Append(held, lines[i]) ELSE held]]
             Folded(it) == it = [s \in SUBSET DOMAIN lines |->
                                   IF s = {} THEN <<>>
                                   ELSE IF lines[Max(s)] \in S THEN Append(it[s \ {Max(s)}], lines[Max(s)])
                                        ELSE it[s \ {Max(s)}]]
  <1>1. N \in Nat /\ DOMAIN lines = 1 .. N /\ <<>> \in Seq(X) /\ \A i \in 1 .. N : lines[i] \in X
    OBVIOUS
  <1>2. F \in [1 .. N -> [Seq(X) -> Seq(X)]]
    BY <1>1
  <1>3. PICK h \in [SUBSET (1 .. N) -> Seq(X)] : Folding(h, N, <<>>, F)
    <2> HIDE DEF F, N
    <2> QED BY <1>1, <1>2, FoldExists
  <1>4. ASSUME NEW s \in SUBSET (1 .. N), s # {}
        PROVE  F[Max(s)][h[s \ {Max(s)}]] = IF lines[Max(s)] \in S THEN Append(h[s \ {Max(s)}], lines[Max(s)])
                                            ELSE h[s \ {Max(s)}]
    <2> HIDE DEF N
    <2>1. Max(s) \in 1 .. N /\ s \ {Max(s)} \in SUBSET (1 .. N)
      BY <1>1, <1>4, LargestIndex
    <2> QED BY <1>3, <2>1 DEF F
  <1>5. Folded(h)
    <2> HIDE DEF F, N
    <2> QED BY <1>1, <1>3, <1>4 DEF Folding
  <1>6. Among(lines, S) = (CHOOSE it : Folded(it))[DOMAIN lines]
    BY DEF Among, FoldLeft, MapThenFoldSet
  <1> HIDE DEF Folded, F, N
  <1>7. PICK it : Folded(it) /\ Among(lines, S) = it[1 .. N]
    <2>1. Folded(CHOOSE it : Folded(it))
      BY <1>5
    <2> QED BY <1>1, <1>6, <2>1
  <1>8. 0 .. N \subseteq {k \in 0 .. N : it[1 .. k] \in Seq(X)}
    <2> DEFINE T == {k \in 0 .. N : it[1 .. k] \in Seq(X)}
    <2>1. 0 \in T
      <3>1. it[{}] = <<>> /\ 1 .. 0 = {}
        BY <1>7 DEF Folded
      <3>2. 0 \in 0 .. N /\ it[1 .. 0] = <<>>
        BY <1>1, <3>1
      <3> QED BY <1>1, <3>2
    <2>2. ASSUME NEW k \in 0 .. N, k \in T, k < N PROVE k + 1 \in T
      <3>1. PICK s \in SUBSET (1 .. N) : s = 1 .. (k + 1) /\ s # {} /\ Max(s) = k + 1 /\ s \ {k + 1} = 1 .. k
        <4>1. k + 1 \in 1 .. N /\ (k + 1) - 1 = k
          BY <1>1, <2>2
        <4> QED BY <1>1, <4>1, FirstIndices
      <3>2. it[s] = IF lines[k + 1] \in S THEN Append(it[1 .. k], lines[k + 1]) ELSE it[1 .. k]
        BY <1>1, <1>7, <3>1 DEF Folded
      <3>3. lines[k + 1] \in X /\ it[1 .. k] \in Seq(X) /\ k + 1 \in 0 .. N
        BY <1>1, <2>2
      <3>4. it[s] \in Seq(X)
        BY <3>2, <3>3
      <3> QED BY <3>1, <3>3, <3>4
    <2> HIDE DEF T
    <2>3. 0 .. N \subseteq T
      BY <1>1, <2>1, <2>2, SetInduction
    <2> QED BY <2>3 DEF T
  <1>9. N \in 0 .. N
    BY <1>1
  <1> QED BY <1>7, <1>8, <1>9

\* an observation says nothing of a topic, or gives a fact of its own excerpts
LEMMA KeptFact ==
    ASSUME NEW o, NEW n \in Nat \ {0}
    PROVE  LET held == Kept([i \in 1 .. n |-> ExcerptOf(o)])
           IN  held \in Seq({ExcerptOf(o)}) /\ Len(held) >= 1
  <1> DEFINE all == [i \in 1 .. n |-> ExcerptOf(o)]
  <1>1. all \in Seq({ExcerptOf(o)}) /\ Len(all) = n
    OBVIOUS
  <1> HIDE DEF all
  <1>2. CASE Len(all) <= MaxEvidence
    BY <1>1, <1>2 DEF Kept
  <1>3. CASE ~(Len(all) <= MaxEvidence)
    <2>1. SubSeq(all, 1, MaxEvidence) \in Seq({ExcerptOf(o)}) /\ Len(SubSeq(all, 1, MaxEvidence)) = MaxEvidence
      BY <1>1, <1>3, FeedAssumption
    <2> QED BY <1>3, <2>1, FeedAssumption DEF Kept
  <1> QED BY <1>2, <1>3 DEF all

SaidBy(o, fact) == fact.evidence \in Seq({ExcerptOf(o)}) /\ Len(fact.evidence) >= 1

LEMMA FactIsSaid ==
    ASSUME NEW o, NEW X, NEW lines \in Seq(X)
    PROVE  FactOf(o, lines) = NoFact \/ SaidBy(o, FactOf(o, lines))
  <1>1. CASE lines = <<>>
    BY <1>1 DEF FactOf
  <1>2. CASE lines # <<>>
    <2>1. Len(lines) \in Nat \ {0}
      BY <1>2
    <2>2. FactOf(o, lines).evidence = Kept([i \in 1 .. Len(lines) |-> ExcerptOf(o)])
      BY <1>2 DEF FactOf
    <2> QED BY <2>1, <2>2, KeptFact DEF SaidBy
  <1> QED BY <1>1, <1>2

LEMMA SaidSources ==
    ASSUME NEW o \in Observation, NEW fact, SaidBy(o, fact)
    PROVE  /\ SourcesOf(fact) = {o.source} /\ RankOf(fact) = Rank(o.source) /\ NewestOf(fact) = o.at
           /\ fact # NoFact
  <1>1. /\ Len(fact.evidence) \in Nat /\ Len(fact.evidence) >= 1 /\ o.at \in Nat
        /\ \A i \in 1 .. Len(fact.evidence) : fact.evidence[i].source = o.source /\ fact.evidence[i].at = o.at
    BY FeedAssumption DEF SaidBy, ExcerptOf
  <1>2. 1 \in 1 .. Len(fact.evidence)
    BY <1>1
  <1>3. SourcesOf(fact) = {o.source} /\ {fact.evidence[i].at : i \in 1 .. Len(fact.evidence)} = {o.at}
    BY <1>1, <1>2 DEF SourcesOf
  <1>4. \A x \in Int : Greatest({x}) = x
    BY DEF Greatest
  <1>5. {Rank(s) : s \in SourcesOf(fact)} = {Rank(o.source)} /\ Rank(o.source) \in Int
    BY <1>3 DEF Rank
  <1>6. fact # NoFact
    <2>1. Len(NoFact.evidence) = 0
      BY DEF NoFact
    <2> QED BY <1>1, <2>1
  <1> QED BY <1>1, <1>3, <1>4, <1>5, <1>6 DEF RankOf, NewestOf

LEMMA AdvertisedIsSaid ==
    ASSUME NEW o \in Observation, NEW t \in Topic
    PROVE  Advertised(o)[t] = NoFact \/ SaidBy(o, Advertised(o)[t])
  <1> DEFINE lines == o.payload.lines
             sponsorship == StatedLines(o.payload, "sponsorship")
  <1>1. lines \in Seq(ToSet(lines))
    BY FeedAssumption
  <1>2. \A topic : StatedLines(o.payload, topic) \in Seq(ToSet(lines))
    BY <1>1, AmongIsSeq DEF StatedLines
  <1>3. Kept(sponsorship) \in Seq(ToSet(lines))
    <2> HIDE DEF sponsorship, lines
    <2>1. sponsorship \in Seq(ToSet(lines))
      BY <1>2 DEF sponsorship, lines
    <2>2. CASE Len(sponsorship) <= MaxEvidence
      BY <2>1, <2>2 DEF Kept
    <2>3. CASE ~(Len(sponsorship) <= MaxEvidence)
      <3>1. SubSeq(sponsorship, 1, MaxEvidence) \in Seq(ToSet(lines))
        BY <2>1, <2>3, FeedAssumption
      <3> QED BY <2>3, <3>1 DEF Kept
    <2> QED BY <2>2, <2>3
  <1>4. \A S : Among(Kept(sponsorship), S) \in Seq(ToSet(lines))
    BY <1>3, AmongIsSeq
  <1>5. SaidBy(o, DeniedBy(o))
    BY DEF SaidBy, DeniedBy, ExcerptOf
  <1> DEFINE FutureFact == FactOf(o, Among(Kept(sponsorship), {l \in ToSet(sponsorship) : l.future}))
             OwnFact == FactOf(o, StatedLines(o.payload, t))
  <1>6. Advertised(o)[t] \in {DeniedBy(o), FutureFact, OwnFact}
    BY DEF Advertised, Topic
  <1> HIDE DEF sponsorship, lines
  <1>7. FutureFact = NoFact \/ SaidBy(o, FutureFact)
    BY <1>4, FactIsSaid
  <1>8. OwnFact = NoFact \/ SaidBy(o, OwnFact)
    BY <1>2, FactIsSaid DEF lines
  <1> HIDE DEF FutureFact, OwnFact
  <1> QED BY <1>5, <1>6, <1>7, <1>8

\* an observation said nothing of a topic: it is no fact
NotSpoken(o, t) == Advertised(o)[t] = NoFact

SpokenOf(seen, t) == {o \in seen : Speaks(o, t)}

\* what is shown of a topic rests on sources of one rank, the best that spoke
OfRank(fact, r) ==
    /\ fact.evidence \in Seq([source : Source, at : Nat]) /\ Len(fact.evidence) >= 1
    /\ \A i \in 1 .. Len(fact.evidence) : Rank(fact.evidence[i].source) = r

BestShown(fact, seen, t) ==
    /\ fact = NoFact <=> SpokenOf(seen, t) = {}
    /\ fact # NoFact =>
         \E r \in 1 .. 3 : OfRank(fact, r) /\ \A o \in SpokenOf(seen, t) : Rank(o.source) <= r

\* while one source alone has spoken it is the newest of what it said
NewestShown(fact, seen, t) ==
    SpokenOf(seen, t) # {} /\ (\E s \in Source : \A o \in SpokenOf(seen, t) : o.source = s) =>
      \E o \in SpokenOf(seen, t) : (\A q \in SpokenOf(seen, t) : q.at <= o.at) /\ fact = Advertised(o)[t]

PaidOf(seen) == {o \in seen : o.source \in Direct /\ AdvertisedPay(o) # {}}
PayShown(pay, seen) ==
    /\ pay = {} <=> PaidOf(seen) = {}
    /\ pay # {} => \E o \in PaidOf(seen) : (\A q \in PaidOf(seen) : q.at <= o.at) /\ pay = AdvertisedPay(o)

FactsInv ==
    /\ told \subseteq Observation
    /\ \A t \in Topic : BestShown(details.policies[t], told, t) /\ NewestShown(details.policies[t], told, t)
    /\ PayShown(details.pay, told)

LEMMA Ranks == \A s : Rank(s) \in 1 .. 3
  BY DEF Rank

LEMMA OfRankRanks ==
    ASSUME NEW fact, NEW r \in 1 .. 3, OfRank(fact, r)
    PROVE  RankOf(fact) = r /\ fact # NoFact
  <1>1. Len(fact.evidence) \in Nat /\ 1 \in 1 .. Len(fact.evidence) /\ fact # NoFact
    <2>1. Len(NoFact.evidence) = 0
      BY DEF NoFact
    <2>2. Len(fact.evidence) \in Nat /\ Len(fact.evidence) >= 1
      BY DEF OfRank
    <2> QED BY <2>1, <2>2
  <1>2. {Rank(s) : s \in SourcesOf(fact)} = {r}
    BY <1>1 DEF OfRank, SourcesOf
  <1>3. Greatest({r}) = r
    BY DEF Greatest
  <1> QED BY <1>1, <1>2, <1>3 DEF RankOf

LEMMA NoFactRanks == RankOf(NoFact) = 0
  <1>1. SourcesOf(NoFact) = {}
    BY DEF SourcesOf, NoFact
  <1>2. {Rank(s) : s \in {}} = {}
    OBVIOUS
  <1> QED BY <1>1, <1>2 DEF RankOf, Greatest

LEMMA SaidIsOfRank ==
    ASSUME NEW o \in Observation, NEW fact, SaidBy(o, fact)
    PROVE  OfRank(fact, Rank(o.source))
  <1>1. ExcerptOf(o) \in [source : Source, at : Nat]
    BY FeedAssumption DEF ExcerptOf
  <1>2. fact.evidence \in Seq([source : Source, at : Nat])
    <2>1. fact.evidence \in Seq({ExcerptOf(o)}) /\ {ExcerptOf(o)} \subseteq [source : Source, at : Nat]
      BY <1>1 DEF SaidBy
    <2> QED BY <2>1, SeqMonotonic
  <1>3. \A i \in 1 .. Len(fact.evidence) : fact.evidence[i] = ExcerptOf(o)
    BY DEF SaidBy
  <1>4. Len(fact.evidence) >= 1 /\ \A i \in 1 .. Len(fact.evidence) : fact.evidence[i].source = o.source
    BY <1>3 DEF SaidBy, ExcerptOf
  <1> QED BY <1>2, <1>4 DEF OfRank

LEMMA BothEvidences ==
    ASSUME NEW E, NEW s \in Seq(E), NEW u \in Seq(E)
    PROVE  /\ s \o u \in Seq(E) /\ Len(s) \in Nat /\ Len(u) \in Nat
           /\ \A i \in 1 .. Len(s \o u) :
                \/ i \in 1 .. Len(s) /\ (s \o u)[i] = s[i]
                \/ \E k \in 1 .. Len(u) : (s \o u)[i] = u[k]
           /\ Len(s) >= 1 => Len(s \o u) >= 1
  <1>1. PICK p \in Nat : p = Len(s)
    OBVIOUS
  <1>2. PICK q \in Nat : q = Len(u)
    OBVIOUS
  <1>3. s \o u \in Seq(E) /\ Len(s \o u) = p + q
    BY <1>1, <1>2
  <1>4. p \in Nat /\ q \in Nat
    BY <1>1, <1>2
  <1>5. ASSUME NEW i \in 1 .. p + q
        PROVE  \/ i \in 1 .. p /\ (s \o u)[i] = s[i]
               \/ \E k \in 1 .. q : (s \o u)[i] = u[k]
    <2>1. (s \o u)[i] = IF i <= p THEN s[i] ELSE u[i - p]
      BY <1>1, <1>2, <1>5
    <2>2. CASE i <= p
      BY <1>4, <1>5, <2>1, <2>2
    <2>3. CASE ~(i <= p)
      <3>1. i - p \in 1 .. q
        BY <1>4, <1>5, <2>3
      <3> QED BY <2>1, <2>3, <3>1
    <2> QED BY <2>2, <2>3
  <1>6. p >= 1 => p + q >= 1
    BY <1>4
  <1> QED BY <1>1, <1>2, <1>3, <1>5, <1>6

\* the latter part of a longer evidence
LEMMA LatterPart ==
    ASSUME NEW E, NEW all \in Seq(E), Len(all) >= 1
    PROVE  /\ Latter(all) \in Seq(E) /\ Len(Latter(all)) >= 1
           /\ \A i \in 1 .. Len(Latter(all)) : \E k \in 1 .. Len(all) : Latter(all)[i] = all[k]
  <1>1. CASE Len(all) <= MaxEvidence
    BY <1>1 DEF Latter
  <1>2. CASE ~(Len(all) <= MaxEvidence)
    <2>1. PICK n \in Nat : n = Len(all)
      OBVIOUS
    <2>2. n \in Nat /\ MaxEvidence \in Nat \ {0} /\ MaxEvidence < n
      BY <1>2, <2>1, FeedAssumption
    <2>3. PICK m \in 1 .. n : m = n - MaxEvidence + 1
      BY <2>2
    <2>4. m \in Int /\ n \in Int /\ m <= n /\ n - m + 1 = MaxEvidence
      BY <2>2, <2>3
    <2>5. \A i \in m .. n : i \in 1 .. n
      BY <2>2, <2>3
    <2>6. \A i \in m .. n : all[i] \in E
      BY <2>1, <2>5
    <2>7. /\ SubSeq(all, m, n) \in Seq(E) /\ Len(SubSeq(all, m, n)) = MaxEvidence
          /\ \A i \in 1 .. MaxEvidence : SubSeq(all, m, n)[i] = all[m + i - 1]
      BY <2>4, <2>6, SubSeqProperties
    <2>8. \A i \in 1 .. MaxEvidence : m + i - 1 \in 1 .. n
      BY <2>2, <2>3
    <2>9. Latter(all) = SubSeq(all, m, n)
      BY <1>2, <2>1, <2>3 DEF Latter
    <2>10. Len(Latter(all)) = MaxEvidence /\ Latter(all) \in Seq(E)
      BY <2>7, <2>9
    <2>11. \A i \in 1 .. MaxEvidence : m + i - 1 \in 1 .. Len(all) /\ Latter(all)[i] = all[m + i - 1]
      BY <2>1, <2>7, <2>8, <2>9
    <2>12. \A i \in 1 .. MaxEvidence : \E k \in 1 .. Len(all) : Latter(all)[i] = all[k]
      BY <2>11
    <2> QED BY <2>2, <2>10, <2>12
  <1> QED BY <1>1, <1>2

LEMMA DisputedIsOfRank ==
    ASSUME NEW before, NEW fact, NEW r \in 1 .. 3, OfRank(before, r), OfRank(fact, r)
    PROVE  OfRank(Disputed(before, fact), r)
  <1> DEFINE E == [source : Source, at : Nat]
             all == before.evidence \o fact.evidence
  <1>1. /\ before.evidence \in Seq(E) /\ fact.evidence \in Seq(E) /\ Len(before.evidence) >= 1
        /\ \A i \in 1 .. Len(before.evidence) : Rank(before.evidence[i].source) = r
        /\ \A i \in 1 .. Len(fact.evidence) : Rank(fact.evidence[i].source) = r
    BY DEF OfRank
  <1> HIDE DEF E
  <1>2. /\ all \in Seq(E) /\ Len(all) >= 1
        /\ \A i \in 1 .. Len(all) : \/ i \in 1 .. Len(before.evidence) /\ all[i] = before.evidence[i]
                                    \/ \E k \in 1 .. Len(fact.evidence) : all[i] = fact.evidence[k]
    <2>1. PICK s \in Seq(E), u \in Seq(E) : s = before.evidence /\ u = fact.evidence
      BY <1>1
    <2>2. Len(s) >= 1
      BY <1>1, <2>1
    <2>3. /\ s \o u \in Seq(E) /\ Len(s \o u) >= 1
          /\ \A i \in 1 .. Len(s \o u) : \/ i \in 1 .. Len(s) /\ (s \o u)[i] = s[i]
                                         \/ \E k \in 1 .. Len(u) : (s \o u)[i] = u[k]
      <3>1. s \in Seq(E) /\ u \in Seq(E)
        BY <2>1
      <3>2. s \o u \in Seq(E) /\ (Len(s) >= 1 => Len(s \o u) >= 1)
        BY <3>1, BothEvidences, Zenon
      <3>3. \A i \in 1 .. Len(s \o u) : \/ i \in 1 .. Len(s) /\ (s \o u)[i] = s[i]
                                        \/ \E k \in 1 .. Len(u) : (s \o u)[i] = u[k]
        BY <3>1, BothEvidences
      <3> QED BY <2>2, <3>2, <3>3
    <2> QED BY <2>1, <2>3
  <1> HIDE DEF all
  <1>3. \A i \in 1 .. Len(all) : Rank(all[i].source) = r
    BY <1>1, <1>2
  <1>4. /\ Latter(all) \in Seq(E) /\ Len(Latter(all)) >= 1
        /\ \A i \in 1 .. Len(Latter(all)) : \E k \in 1 .. Len(all) : Latter(all)[i] = all[k]
    BY <1>2, LatterPart
  <1>5. \A i \in 1 .. Len(Latter(all)) : Rank(Latter(all)[i].source) = r
    BY <1>3, <1>4
  <1>6. Disputed(before, fact).evidence = Latter(all)
    BY DEF Disputed, all
  <1> QED BY <1>4, <1>5, <1>6 DEF OfRank, E

\* what a merge keeps
LEMMA MergeKeeps ==
    ASSUME NEW before, NEW seen \in SUBSET Observation, NEW t \in Topic, NEW o \in Observation,
           BestShown(before, seen, t), NewestShown(before, seen, t)
    PROVE  LET fact == MergedPolicy(before, Advertised(o)[t])
           IN  BestShown(fact, seen \cup {o}, t) /\ NewestShown(fact, seen \cup {o}, t)
  <1> DEFINE said == Advertised(o)[t]
             fact == MergedPolicy(before, said)
             old == SpokenOf(seen, t)
             new == SpokenOf(seen \cup {o}, t)
  <1>1. new = IF said = NoFact THEN old ELSE old \cup {o}
    BY DEF SpokenOf, Speaks
  <1>2. said = NoFact \/ SaidBy(o, said)
    BY AdvertisedIsSaid
  <1>3. Rank(o.source) \in 1 .. 3 /\ o.source \in Source /\ o.at \in Nat
    BY Ranks, FeedAssumption
  <1>4. \A q \in old : q \in Observation /\ q.at \in Nat /\ q.source \in Source /\ SaidBy(q, Advertised(q)[t])
                       /\ Rank(q.source) \in 1 .. 3
    BY AdvertisedIsSaid, Ranks, FeedAssumption DEF SpokenOf, Speaks
  <1>5. /\ before = NoFact <=> old = {}
        /\ before # NoFact => \E r \in 1 .. 3 : OfRank(before, r) /\ \A q \in old : Rank(q.source) <= r
        /\ old # {} /\ (\E s \in Source : \A q \in old : q.source = s) =>
             \E q \in old : (\A p \in old : p.at <= q.at) /\ before = Advertised(q)[t]
    BY DEF BestShown, NewestShown
  <1> SUFFICES /\ fact = NoFact <=> new = {}
               /\ fact # NoFact => \E r \in 1 .. 3 : OfRank(fact, r) /\ \A q \in new : Rank(q.source) <= r
               /\ new # {} /\ (\E s \in Source : \A q \in new : q.source = s) =>
                    \E q \in new : (\A p \in new : p.at <= q.at) /\ fact = Advertised(q)[t]
    BY DEF BestShown, NewestShown
  <1>6. CASE said = NoFact
    <2>1. fact = before /\ new = old
      BY <1>1, <1>6 DEF MergedPolicy
    <2> HIDE DEF fact, old, new, said
    <2> QED BY <1>5, <2>1
  <1>7. CASE said # NoFact
    <2> DEFINE r0 == Rank(o.source)
    <2>1. /\ SaidBy(o, said) /\ SourcesOf(said) = {o.source} /\ RankOf(said) = r0 /\ NewestOf(said) = o.at
          /\ OfRank(said, r0) /\ new = old \cup {o}
      BY <1>1, <1>2, <1>7, SaidSources, SaidIsOfRank
    <2>2. CASE before = NoFact
      <3>1. RankOf(before) = 0
        BY <2>2, NoFactRanks
      <3>2. fact = said
        BY <1>3, <1>7, <2>1, <2>2, <3>1 DEF MergedPolicy
      <3>3. new = {o}
        BY <1>5, <2>1, <2>2
      <3> HIDE DEF fact, old, new, said
      <3> QED BY <1>3, <1>7, <2>1, <3>2, <3>3 DEF said
    <2>3. CASE before # NoFact
      <3>1. PICK r \in 1 .. 3 : OfRank(before, r) /\ \A q \in old : Rank(q.source) <= r
        BY <1>5, <2>3
      <3>2. RankOf(before) = r
        BY <3>1, OfRankRanks
      <3>3. old # {}
        BY <1>5, <2>3
      <3>4. new # {}
        BY <2>1
      <3>5. \/ fact = before /\ r0 <= r
            \/ fact = said /\ r0 >= r
            \/ fact = Disputed(before, said) /\ r0 = r
        BY <1>3, <1>7, <2>1, <2>3, <3>1, <3>2 DEF MergedPolicy, Reobserved
      <3>6. \E r1 \in 1 .. 3 : OfRank(fact, r1) /\ \A q \in new : Rank(q.source) <= r1
        <4> HIDE DEF fact, old, new, said
        <4>1. CASE fact = before /\ r0 <= r
          BY <2>1, <3>1, <4>1
        <4>2. CASE fact = said /\ r0 >= r
          BY <1>3, <1>4, <2>1, <3>1, <4>2
        <4>3. CASE fact = Disputed(before, said) /\ r0 = r
          <5>1. OfRank(fact, r)
            BY <2>1, <3>1, <4>3, DisputedIsOfRank
          <5> QED BY <2>1, <3>1, <4>3, <5>1
        <4> QED BY <3>5, <4>1, <4>2, <4>3
      <3>7. fact # NoFact
        <4> HIDE DEF fact, old, new, said
        <4> QED BY <3>6, OfRankRanks
      <3>8. ASSUME NEW s \in Source, \A q \in new : q.source = s
            PROVE  \E q \in new : (\A p \in new : p.at <= q.at) /\ fact = Advertised(q)[t]
        <4>1. PICK q \in old : (\A p \in old : p.at <= q.at) /\ before = Advertised(q)[t]
          <5> HIDE DEF fact, old, new, said
          <5> QED BY <1>5, <2>1, <3>3, <3>8
        <4>2. q.source = s /\ o.source = s
          <5> HIDE DEF fact, old, new, said
          <5> QED BY <2>1, <3>8, <4>1
        <4>3. /\ SourcesOf(before) = {s} /\ RankOf(before) = r0 /\ NewestOf(before) = q.at
          <5> HIDE DEF fact, old, new
          <5> QED BY <1>4, <4>1, <4>2, SaidSources
        <4>4. fact = IF o.at < q.at THEN before ELSE said
          BY <1>3, <1>7, <2>1, <2>3, <4>2, <4>3 DEF MergedPolicy, Reobserved
        <4> HIDE DEF fact, old, new
        <4>5. CASE o.at < q.at
          BY <1>3, <1>4, <2>1, <4>1, <4>4, <4>5
        <4>6. CASE ~(o.at < q.at)
          <5>1. \A p \in new : p.at <= o.at
            <6> HIDE DEF said
            <6> QED BY <1>3, <1>4, <2>1, <4>1, <4>6
          <5> QED BY <2>1, <4>4, <4>6, <5>1
        <4> QED BY <4>5, <4>6
      <3> HIDE DEF fact, old, new, said
      <3> QED BY <3>4, <3>6, <3>7, <3>8
    <2> QED BY <2>2, <2>3
  <1> QED BY <1>6, <1>7

\* the pay of an observation bears its source and its time
LEMMA PayIsOwn ==
    ASSUME NEW o \in Observation
    PROVE  /\ \A p \in AdvertisedPay(o) : p.source = o.source /\ p.at = o.at
           /\ AdvertisedPay(o) # {} => /\ o.source \in Direct /\ PayRank(AdvertisedPay(o)) = 3
                                       /\ PayTime(AdvertisedPay(o)) = o.at
  <1>1. \A p \in AdvertisedPay(o) : p.source = o.source /\ p.at = o.at
    BY DEF AdvertisedPay, StructuredPay, TextPay
  <1>2. ASSUME AdvertisedPay(o) # {}
        PROVE  o.source \in Direct /\ PayRank(AdvertisedPay(o)) = 3 /\ PayTime(AdvertisedPay(o)) = o.at
    <2>1. o.source \in Direct
      BY <1>2 DEF AdvertisedPay
    <2>2. {Rank(p.source) : p \in AdvertisedPay(o)} = {3} /\ {p.at : p \in AdvertisedPay(o)} = {o.at} /\ o.at \in Nat
      BY <1>1, <1>2, <2>1, FeedAssumption DEF Rank
    <2>3. \A x \in Int : Greatest({x}) = x
      BY DEF Greatest
    <2> QED BY <2>1, <2>2, <2>3 DEF PayRank, PayTime
  <1> QED BY <1>1, <1>2

LEMMA PayKeeps ==
    ASSUME NEW before, NEW seen \in SUBSET Observation, NEW o \in Observation, PayShown(before, seen)
    PROVE  PayShown(MergedPay(before, AdvertisedPay(o)), seen \cup {o})
  <1> DEFINE pay == AdvertisedPay(o)
             old == PaidOf(seen)
             new == PaidOf(seen \cup {o})
  <1>1. new = IF pay = {} THEN old ELSE old \cup {o}
    BY PayIsOwn DEF PaidOf
  <1>2. /\ before = {} <=> old = {}
        /\ before # {} => \E q \in old : (\A p \in old : p.at <= q.at) /\ before = AdvertisedPay(q)
    BY DEF PayShown
  <1>3. \A q \in old : q \in Observation /\ q.at \in Nat /\ AdvertisedPay(q) # {}
    BY FeedAssumption DEF PaidOf
  <1>4. CASE pay = {}
    <2>1. MergedPay(before, pay) = before /\ new = old
      BY <1>1, <1>4 DEF MergedPay
    <2> QED BY <2>1 DEF PayShown
  <1>5. CASE pay # {}
    <2>1. PayRank(pay) = 3 /\ PayTime(pay) = o.at /\ new = old \cup {o} /\ o.at \in Nat
      BY <1>1, <1>5, PayIsOwn, FeedAssumption
    <2>2. CASE before = {}
      <3>1. PayRank(before) = 0
        <4>1. {Rank(p.source) : p \in before} = {}
          BY <2>2
        <4> QED BY <4>1 DEF PayRank, Greatest
      <3>2. MergedPay(before, pay) = pay
        BY <1>5, <2>1, <2>2, <3>1 DEF MergedPay
      <3>3. new = {o}
        BY <1>2, <2>1, <2>2
      <3>4. o \in new /\ \A p \in new : p.at <= o.at
        BY <2>1, <3>3
      <3> HIDE DEF pay, old, new
      <3>5. PayShown(pay, seen \cup {o})
        BY <1>5, <3>4 DEF PayShown, pay, new
      <3> QED BY <3>2, <3>5 DEF pay
    <2>3. CASE before # {}
      <3>1. PICK q \in old : (\A p \in old : p.at <= q.at) /\ before = AdvertisedPay(q)
        BY <1>2, <2>3
      <3>2. PayRank(before) = 3 /\ PayTime(before) = q.at
        BY <1>3, <3>1, PayIsOwn
      <3>3. MergedPay(before, pay) = IF o.at >= q.at THEN pay ELSE before
        BY <1>5, <2>1, <2>3, <3>2 DEF MergedPay
      <3> HIDE DEF pay, old, new
      <3>4. CASE o.at >= q.at
        <4>1. \A p \in new : p.at <= o.at
          BY <1>3, <2>1, <3>1, <3>4
        <4> QED BY <1>5, <2>1, <3>3, <3>4, <4>1 DEF PayShown, pay, new
      <3>5. CASE ~(o.at >= q.at)
        <4>1. q \in new /\ \A p \in new : p.at <= q.at
          BY <1>3, <2>1, <3>1, <3>5
        <4> QED BY <2>3, <3>1, <3>3, <3>5, <4>1 DEF PayShown, pay, new
      <3> QED BY <1>3, <2>1, <3>1, <3>4, <3>5
    <2> QED BY <2>2, <2>3
  <1> QED BY <1>4, <1>5

LEMMA FactsStart == FactsInit => FactsInv
  <1> SUFFICES ASSUME FactsInit PROVE FactsInv
    OBVIOUS
  <1>1. told = {} /\ details.pay = {} /\ \A t \in Topic : details.policies[t] = NoFact
    BY DEF FactsInit, NoDetailsYet
  <1> QED BY <1>1 DEF FactsInv, BestShown, NewestShown, PayShown, SpokenOf, PaidOf

LEMMA FactsStep == FactsInv /\ [FactsNext]_facts => FactsInv'
  <1> SUFFICES ASSUME FactsInv, [FactsNext]_facts PROVE FactsInv'
    OBVIOUS
  <1>1. CASE UNCHANGED facts
    BY <1>1 DEF facts, FactsInv
  <1>2. ASSUME NEW o \in Observation, Observed(o) PROVE FactsInv'
    <2>1. told' = told \cup {o} /\ told \in SUBSET Observation
      BY <1>2 DEF Observed, FactsInv
    <2>2. /\ details'.pay = MergedPay(details.pay, AdvertisedPay(o))
          /\ \A t \in Topic : details'.policies[t] = MergedPolicy(details.policies[t], Advertised(o)[t])
      BY <1>2 DEF Observed
    <2>3. PayShown(details'.pay, told')
      BY <2>1, <2>2, PayKeeps DEF FactsInv
    <2>4. \A t \in Topic : BestShown(details'.policies[t], told', t) /\ NewestShown(details'.policies[t], told', t)
      BY <2>1, <2>2, MergeKeeps DEF FactsInv
    <2> QED BY <2>1, <2>3, <2>4 DEF FactsInv
  <1> QED BY <1>1, <1>2 DEF FactsNext

LEMMA FactsAreBest == FactsInv => ShownIsBest
  <1> SUFFICES ASSUME FactsInv PROVE ShownIsBest
    OBVIOUS
  <1>1. BestSourceShown
    <2> SUFFICES ASSUME NEW t \in Topic, NEW o \in told, Speaks(o, t), NEW s \in SourcesOf(details.policies[t])
                 PROVE  Rank(s) >= Rank(o.source)
      BY DEF BestSourceShown
    <2>1. o \in SpokenOf(told, t)
      BY DEF SpokenOf
    <2>2. PICK r \in 1 .. 3 : OfRank(details.policies[t], r) /\ \A q \in SpokenOf(told, t) : Rank(q.source) <= r
      BY <2>1 DEF FactsInv, BestShown
    <2>3. Rank(s) = r
      BY <2>2 DEF OfRank, SourcesOf
    <2> QED BY <2>1, <2>2, <2>3, Ranks
  <1>2. NewestOfOneSource
    BY DEF FactsInv, NewestShown, NewestOfOneSource, SpokenOf
  <1>3. PayIsDirect
    <2>1. PayShown(details.pay, told) /\ told \subseteq Observation
      BY DEF FactsInv
    <2>2. \A o \in told : \A p \in AdvertisedPay(o) : p.source = o.source /\ p.at = o.at
      BY <2>1, PayIsOwn
    <2> QED BY <2>1, <2>2 DEF PayShown, PaidOf, PayIsDirect
  <1> QED BY <1>1, <1>2, <1>3 DEF ShownIsBest

(* merge_details(): in whatever order observations arrive and are repeated,  *)
(* what is shown of a topic rests on the best sources that spoke of it, is   *)
(* the newest word where one source spoke, and pay is the newest that a      *)
(* direct source posted.                                                     *)
THEOREM ShownFactsAreBest == FactsSpec => []ShownIsBest
  <1>1. FactsInit => FactsInv
    BY FactsStart
  <1> QED BY <1>1, FactsStep, FactsAreBest, PTL DEF FactsSpec

-----------------------------------------------------------------------------
(* Employer history: the disclosure import                                  *)

EmployerSpec == EmployerHistoryInit /\ [][EmployerHistoryNext]_employerHistory

Flattening(h, n, ss) == h = [i \in 1 .. n |-> IF i = 1 THEN ss[i] ELSE h[i - 1] \o ss[i]]

LEMMA FlattenExists ==
    ASSUME NEW X, NEW n \in Nat, NEW ss \in [1 .. n -> Seq(X)]
    PROVE  \E h \in [1 .. n -> Seq(X)] : Flattening(h, n, ss)
  <1> DEFINE Flat(h, k) == h = [i \in 1 .. k |-> IF i = 1 THEN ss[i] ELSE h[i - 1] \o ss[i]]
             S == {k \in 0 .. n : \E h \in [1 .. k -> Seq(X)] : Flat(h, k)}
  <1>1. 0 \in S
    <2> DEFINE h == [i \in 1 .. 0 |-> <<>>]
    <2>1. h \in [1 .. 0 -> Seq(X)] /\ 0 \in 0 .. n
      OBVIOUS
    <2>2. Flat(h, 0)
      OBVIOUS
    <2> QED BY <2>1, <2>2
  <1>2. ASSUME NEW k \in 0 .. n, k \in S, k < n PROVE k + 1 \in S
    <2>1. PICK h \in [1 .. k -> Seq(X)] : Flat(h, k)
      BY <1>2
    <2>2. k + 1 \in 1 .. n /\ k + 1 \in 0 .. n /\ k \in Nat /\ k \notin {-1}
      BY <1>2
    <2> DEFINE last == IF k = 0 THEN ss[1] ELSE h[k] \o ss[k + 1]
               g == [i \in 1 .. k + 1 |-> IF i = k + 1 THEN last ELSE h[i]]
    <2>3. last \in Seq(X)
      <3>1. ss[k + 1] \in Seq(X)
        BY <2>2
      <3>2. k # 0 => h[k] \in Seq(X)
        BY <2>1, <2>2
      <3> QED BY <3>1, <3>2
    <2> HIDE DEF last
    <2>4. \A i \in 1 .. k + 1 : (i # k + 1 => i \in 1 .. k) /\ (i # 1 => i - 1 \in 1 .. k)
      BY <2>2
    <2>5. g \in [1 .. k + 1 -> Seq(X)]
      BY <2>1, <2>3, <2>4
    <2>6. \A i \in 1 .. k + 1 : g[i] = IF i = 1 THEN ss[i] ELSE g[i - 1] \o ss[i]
      <3> TAKE i \in 1 .. k + 1
      <3>1. CASE i = k + 1
        <4>1. g[i] = last
          BY <3>1
        <4>2. CASE k = 0
          BY <3>1, <4>1, <4>2 DEF last
        <4>3. CASE k # 0
          <5>1. i - 1 = k /\ i # 1 /\ k \in 1 .. k + 1 /\ k # k + 1
            BY <2>2, <3>1, <4>3
          <5>2. g[k] = h[k]
            BY <5>1
          <5> QED BY <3>1, <4>1, <4>3, <5>1, <5>2 DEF last
        <4> QED BY <4>2, <4>3
      <3>2. CASE i # k + 1
        <4>1. g[i] = h[i] /\ i \in 1 .. k
          BY <2>4, <3>2
        <4>2. h[i] = IF i = 1 THEN ss[i] ELSE h[i - 1] \o ss[i]
          BY <2>1, <4>1
        <4>3. CASE i = 1
          BY <4>1, <4>2, <4>3
        <4>4. CASE i # 1
          <5>1. i - 1 \in 1 .. k + 1 /\ i - 1 # k + 1
            BY <2>2, <4>4
          <5>2. g[i - 1] = h[i - 1]
            BY <5>1
          <5> QED BY <4>1, <4>2, <4>4, <5>2
        <4> QED BY <4>3, <4>4
      <3> QED BY <3>1, <3>2
    <2> HIDE DEF g
    <2>7. Flat(g, k + 1)
      BY <2>5, <2>6
    <2> QED BY <2>2, <2>5, <2>7
  <1> HIDE DEF S
  <1>3. n \in S
    <2>1. 0 .. n \subseteq S
      BY <1>1, <1>2, SetInduction
    <2> QED BY <2>1
  <1> QED BY <1>3 DEF S, Flattening

\* what two sequences hold together
LEMMA BothParts ==
    ASSUME NEW E, NEW s \in Seq(E), NEW u \in Seq(E)
    PROVE  /\ s \o u \in Seq(E)
           /\ \A i \in 1 .. Len(s \o u) : \/ \E k \in 1 .. Len(s) : (s \o u)[i] = s[k]
                                          \/ \E k \in 1 .. Len(u) : (s \o u)[i] = u[k]
           /\ \A k \in 1 .. Len(s) : \E i \in 1 .. Len(s \o u) : (s \o u)[i] = s[k]
           /\ \A k \in 1 .. Len(u) : \E i \in 1 .. Len(s \o u) : (s \o u)[i] = u[k]
  <1>1. PICK p \in Nat : p = Len(s)
    OBVIOUS
  <1>2. PICK q \in Nat : q = Len(u)
    OBVIOUS
  <1>3. s \o u \in Seq(E) /\ Len(s \o u) = p + q
    BY <1>1, <1>2
  <1>4. p \in Nat /\ q \in Nat
    BY <1>1, <1>2
  <1>5. \A i \in 1 .. p + q : (s \o u)[i] = IF i <= p THEN s[i] ELSE u[i - p]
    BY <1>1, <1>2
  <1>6. \A i \in 1 .. p + q : (i <= p => i \in 1 .. p) /\ (~(i <= p) => i - p \in 1 .. q)
    BY <1>4
  <1>7. \A k \in 1 .. p : k \in 1 .. p + q /\ k <= p
    BY <1>4
  <1>8. \A k \in 1 .. q : p + k \in 1 .. p + q /\ ~(p + k <= p) /\ (p + k) - p = k
    BY <1>4
  <1>9. \A k \in 1 .. q : (s \o u)[p + k] = u[k]
    BY <1>5, <1>8
  <1>10. \A i \in 1 .. p + q : \/ \E k \in 1 .. p : (s \o u)[i] = s[k]
                               \/ \E k \in 1 .. q : (s \o u)[i] = u[k]
    BY <1>5, <1>6
  <1>11. \A k \in 1 .. p : \E i \in 1 .. p + q : (s \o u)[i] = s[k]
    BY <1>5, <1>7
  <1>12. \A k \in 1 .. q : \E i \in 1 .. p + q : (s \o u)[i] = u[k]
    BY <1>8, <1>9
  <1> QED BY <1>1, <1>2, <1>3, <1>10, <1>11, <1>12

Holds(s, x) == \E i \in 1 .. Len(s) : s[i] = x

LEMMA HoldsBoth ==
    ASSUME NEW E, NEW s \in Seq(E), NEW u \in Seq(E)
    PROVE  s \o u \in Seq(E) /\ \A x : Holds(s \o u, x) <=> Holds(s, x) \/ Holds(u, x)
  <1>1. s \o u \in Seq(E)
    OBVIOUS
  <1>2. ASSUME NEW x, Holds(s \o u, x) PROVE Holds(s, x) \/ Holds(u, x)
    <2>1. PICK i \in 1 .. Len(s \o u) : (s \o u)[i] = x
      BY <1>2 DEF Holds
    <2>2. (\E k \in 1 .. Len(s) : x = s[k]) \/ (\E k \in 1 .. Len(u) : x = u[k])
      BY <2>1, BothParts
    <2> QED BY <2>2 DEF Holds
  <1>3. ASSUME NEW x, Holds(s, x) PROVE Holds(s \o u, x)
    <2>1. PICK k \in 1 .. Len(s) : s[k] = x
      BY <1>3 DEF Holds
    <2>2. \E i \in 1 .. Len(s \o u) : (s \o u)[i] = s[k]
      BY BothParts
    <2> QED BY <2>1, <2>2 DEF Holds
  <1>4. ASSUME NEW x, Holds(u, x) PROVE Holds(s \o u, x)
    <2>1. PICK k \in 1 .. Len(u) : u[k] = x
      BY <1>4 DEF Holds
    <2>2. \E i \in 1 .. Len(s \o u) : (s \o u)[i] = u[k]
      BY BothParts
    <2> QED BY <2>1, <2>2 DEF Holds
  <1> QED BY <1>1, <1>2, <1>3, <1>4

\* flattening keeps what its sequences hold
LEMMA FlattenHolds ==
    ASSUME NEW X, NEW n \in Nat, NEW ss \in [1 .. n -> Seq(X)]
    PROVE  /\ FlattenSeq(ss) \in Seq(X)
           /\ \A x : Holds(FlattenSeq(ss), x) <=> \E k \in 1 .. n : Holds(ss[k], x)
  <1>1. ss \in Seq(Seq(X)) /\ Len(ss) = n
    OBVIOUS
  <1>2. CASE n = 0
    <2>1. FlattenSeq(ss) = <<>> /\ Len(FlattenSeq(ss)) = 0
      BY <1>1, <1>2 DEF FlattenSeq
    <2> QED BY <1>2, <2>1 DEF Holds
  <1>3. CASE n # 0
    <2> DEFINE Flat(h) == h = [i \in 1 .. Len(ss) |-> IF i = 1 THEN ss[i] ELSE h[i - 1] \o ss[i]]
    <2>1. \E h : Flat(h)
      <3>1. PICK h \in [1 .. n -> Seq(X)] : Flattening(h, n, ss)
        BY FlattenExists
      <3>2. Flat(h)
        BY <1>1, <3>1 DEF Flattening
      <3> QED BY <3>2
    <2>2. FlattenSeq(ss) = (CHOOSE h : Flat(h))[Len(ss)]
      BY <1>1, <1>3 DEF FlattenSeq
    <2> HIDE DEF Flat
    <2>3. PICK h : Flat(h) /\ FlattenSeq(ss) = h[n]
      <3>1. Flat(CHOOSE h : Flat(h))
        BY <2>1
      <3> QED BY <1>1, <2>2, <3>1
    <2> DEFINE Known(k) == h[k] \in Seq(X) /\ \A x : Holds(h[k], x) <=> \E j \in 1 .. k : Holds(ss[j], x)
               S == {k \in 0 .. n : k = 0 \/ Known(k)}
    <2>4. \A k \in 1 .. n : h[k] = IF k = 1 THEN ss[k] ELSE h[k - 1] \o ss[k]
      BY <1>1, <2>3 DEF Flat
    <2>5. 0 \in S
      OBVIOUS
    <2>6. ASSUME NEW k \in 0 .. n, k \in S, k < n PROVE k + 1 \in S
      <3>1. k + 1 \in 1 .. n /\ k + 1 \in 0 .. n /\ (k + 1) - 1 = k /\ ss[k + 1] \in Seq(X)
        BY <2>6
      <3>2. CASE k = 0
        <4>1. h[k + 1] = ss[k + 1]
          BY <2>4, <3>1, <3>2
        <4>2. 1 .. (k + 1) = {k + 1}
          BY <3>2
        <4>3. Known(k + 1)
          BY <3>1, <4>1, <4>2
        <4> QED BY <3>1, <4>3
      <3>3. CASE k # 0
        <4>1. h[k + 1] = h[k] \o ss[k + 1] /\ Known(k)
          <5>1. k + 1 # 1
            BY <3>3
          <5>2. h[k + 1] = h[k] \o ss[k + 1]
            BY <2>4, <3>1, <5>1
          <5> HIDE DEF Known
          <5> QED BY <2>6, <3>3, <5>2
        <4>2. 1 .. (k + 1) = (1 .. k) \cup {k + 1}
          BY <3>3
        <4>3. h[k + 1] \in Seq(X) /\ \A x : Holds(h[k + 1], x) <=> Holds(h[k], x) \/ Holds(ss[k + 1], x)
          <5>1. h[k] \in Seq(X)
            BY <4>1
          <5> HIDE DEF Known
          <5> QED BY <3>1, <4>1, <5>1, HoldsBoth
        <4>4. Known(k + 1)
          BY <4>1, <4>2, <4>3
        <4> QED BY <3>1, <4>4
      <3> QED BY <3>2, <3>3
    <2> HIDE DEF S
    <2>7. 0 .. n \subseteq S
      BY <2>5, <2>6, SetInduction
    <2>8. n \in S
      BY <2>7
    <2> QED BY <1>3, <2>3, <2>8 DEF S
  <1> QED BY <1>2, <1>3

-----------------------------------------------------------------------------
\* one entry of a file and its row
Entry == [file : File, row : DisclosureRow]
CaseIds == {r.case : r \in DisclosureRow}
LegalNames == {r.name : r \in DisclosureRow}
Filing == [year : Nat, name : LegalNames, file : File, case : CaseIds]
Counts == [seen : SUBSET (File \X CaseIds), rows : SUBSET Filing]

\* what a row adds to the count
Counting(acc, e) ==
    IF ~Certified(e.row) \/ ~Counted(acc.seen, e.file, e.row) THEN acc
    ELSE [seen |-> acc.seen \cup {<<e.file, e.row.case>>},
          rows |-> acc.rows \cup {[year |-> FiscalYears[e.file], name |-> e.row.name,
                                   file |-> e.file, case |-> e.row.case]}]

FromEntry(t, e) == e.file = t.file /\ Certified(e.row) /\ e.row.case = t.case /\ e.row.name = t.name

\* rows is what the first k entries count
Tallied(acc, all, k) ==
    /\ IsFiniteSet(acc.rows)
    /\ acc.seen = {<<t.file, t.case>> : t \in acc.rows}
    /\ \A t \in acc.rows : t.year = FiscalYears[t.file] /\ \E j \in 1 .. k : FromEntry(t, all[j])
    /\ \A j \in 1 .. k : Certified(all[j].row) =>
         \E t \in acc.rows : t.year = FiscalYears[all[j].file] /\ t.case = all[j].row.case
    /\ \A t, u \in acc.rows : t.year = u.year /\ t.case = u.case => t = u

LEMMA CountingTyped ==
    ASSUME NEW acc \in Counts, NEW e \in Entry
    PROVE  Counting(acc, e) \in Counts
  <1>1. e.file \in File /\ e.row \in DisclosureRow /\ e.row.case \in CaseIds /\ e.row.name \in LegalNames
    BY DEF Entry, CaseIds, LegalNames
  <1>2. FiscalYears[e.file] \in Nat
    BY <1>1, HistoryAssumption DEF File
  <1>3. [year |-> FiscalYears[e.file], name |-> e.row.name, file |-> e.file, case |-> e.row.case] \in Filing
    BY <1>1, <1>2 DEF Filing
  <1>4. <<e.file, e.row.case>> \in File \X CaseIds
    BY <1>1
  <1> QED BY <1>3, <1>4 DEF Counting, Counts

LEMMA CountingTallies ==
    ASSUME NEW all \in Seq(Entry), NEW k \in Nat, k < Len(all), NEW acc \in Counts, Tallied(acc, all, k)
    PROVE  Tallied(Counting(acc, all[k + 1]), all, k + 1)
  <1> DEFINE e == all[k + 1]
             new == [year |-> FiscalYears[e.file], name |-> e.row.name, file |-> e.file, case |-> e.row.case]
             next == Counting(acc, e)
  <1>1. k + 1 \in 1 .. Len(all) /\ 1 .. (k + 1) = (1 .. k) \cup {k + 1}
    OBVIOUS
  <1>2. e \in Entry /\ e.file \in File
    <2>1. e \in Entry
      BY <1>1
    <2> QED BY <2>1 DEF Entry
  <1>3. /\ IsFiniteSet(acc.rows)
        /\ acc.seen = {<<t.file, t.case>> : t \in acc.rows}
        /\ \A t \in acc.rows : t.year = FiscalYears[t.file] /\ \E j \in 1 .. k : FromEntry(t, all[j])
        /\ \A j \in 1 .. k : Certified(all[j].row) =>
             \E t \in acc.rows : t.year = FiscalYears[all[j].file] /\ t.case = all[j].row.case
        /\ \A t, u \in acc.rows : t.year = u.year /\ t.case = u.case => t = u
    BY DEF Tallied
  <1>4. \A t \in acc.rows : t.file \in File
    BY DEF Counts, Filing
  <1>5. CASE ~Certified(e.row)
    <2>1. next = acc
      BY <1>5 DEF Counting
    <2> HIDE DEF next
    <2> QED BY <1>1, <1>3, <1>5, <2>1 DEF Tallied, next
  <1>6. CASE Certified(e.row) /\ ~Counted(acc.seen, e.file, e.row)
    <2>1. next = acc
      BY <1>6 DEF Counting
    <2>2. PICK f \in File : FiscalYears[f] = FiscalYears[e.file] /\ <<f, e.row.case>> \in acc.seen
      BY <1>6 DEF Counted
    <2>3. PICK t \in acc.rows : t.file = f /\ t.case = e.row.case
      BY <1>3, <2>2
    <2>4. t.year = FiscalYears[e.file]
      BY <1>3, <2>2, <2>3
    <2>5. \A j \in 1 .. (k + 1) : Certified(all[j].row) =>
            \E u \in acc.rows : u.year = FiscalYears[all[j].file] /\ u.case = all[j].row.case
      BY <1>1, <1>3, <2>3, <2>4
    <2>6. \A u \in acc.rows : u.year = FiscalYears[u.file] /\ \E j \in 1 .. (k + 1) : FromEntry(u, all[j])
      BY <1>1, <1>3
    <2> HIDE DEF next, e
    <2> QED BY <1>3, <2>1, <2>5, <2>6 DEF Tallied, next, e
  <1>7. CASE Certified(e.row) /\ Counted(acc.seen, e.file, e.row)
    <2>1. next = [seen |-> acc.seen \cup {<<e.file, e.row.case>>}, rows |-> acc.rows \cup {new}]
      BY <1>7 DEF Counting
    <2>2. /\ new.year = FiscalYears[e.file] /\ new.name = e.row.name /\ new.file = e.file /\ new.case = e.row.case
      OBVIOUS
    <2>3. FromEntry(new, e)
      BY <1>7 DEF FromEntry
    <2> HIDE DEF new
    <2>4. next.rows = acc.rows \cup {new} /\ next.seen = acc.seen \cup {<<new.file, new.case>>}
      BY <2>1, <2>2
    <2> HIDE DEF next
    <2>5. IsFiniteSet(next.rows)
      <3>1. IsFiniteSet(acc.rows)
        BY <1>3
      <3>2. IsFiniteSet(acc.rows \cup {new})
        BY <3>1, FS_AddElement
      <3> QED BY <2>4, <3>2
    <2>6. next.seen = {<<t.file, t.case>> : t \in next.rows}
      BY <1>3, <2>4
    <2>7. \A t \in next.rows : t.year = FiscalYears[t.file] /\ \E j \in 1 .. (k + 1) : FromEntry(t, all[j])
      BY <1>1, <1>3, <2>2, <2>3, <2>4
    <2>8. \A j \in 1 .. (k + 1) : Certified(all[j].row) =>
            \E t \in next.rows : t.year = FiscalYears[all[j].file] /\ t.case = all[j].row.case
      BY <1>1, <1>3, <2>2, <2>4
    <2>9. \A u \in acc.rows : ~(u.year = new.year /\ u.case = new.case)
      <3> SUFFICES ASSUME NEW u \in acc.rows, u.year = new.year, u.case = new.case PROVE FALSE
        OBVIOUS
      <3>1. <<u.file, e.row.case>> \in acc.seen /\ u.file \in File /\ FiscalYears[u.file] = FiscalYears[e.file]
        BY <1>3, <1>4, <2>2
      <3> QED BY <1>7, <3>1 DEF Counted
    <2>10. \A t, u \in next.rows : t.year = u.year /\ t.case = u.case => t = u
      BY <1>3, <2>4, <2>9
    <2> QED BY <2>5, <2>6, <2>7, <2>8, <2>10 DEF Tallied, next
  <1> QED BY <1>5, <1>6, <1>7

\* counting all entries
LEMMA CountsAll ==
    ASSUME NEW all \in Seq(Entry)
    PROVE  LET acc == FoldLeft(Counting, [seen |-> {}, rows |-> {}], all)
           IN  acc \in Counts /\ Tallied(acc, all, Len(all))
  <1> DEFINE N == Len(all)
             base == [seen |-> {}, rows |-> {}]
             F == [i \in 1 .. N |-> [acc \in Counts |-> Counting(acc, all[i])]]
             Folded(it) == it = [s \in SUBSET DOMAIN all |->
                                   IF s = {} THEN base ELSE Counting(it[s \ {Max(s)}], all[Max(s)])]
  <1>1. N \in Nat /\ DOMAIN all = 1 .. N /\ \A i \in 1 .. N : all[i] \in Entry
    OBVIOUS
  <1>2. base \in Counts
    BY DEF Counts
  <1>3. Tallied(base, all, 0)
    <2>1. IsFiniteSet({}) /\ 1 .. 0 = {}
      BY FS_EmptySet
    <2> QED BY <2>1 DEF Tallied
  <1>4. F \in [1 .. N -> [Counts -> Counts]]
    BY <1>1, CountingTyped
  <1>5. \E h : Folded(h)
    <2> HIDE DEF base, F, N
    <2>1. PICK h \in [SUBSET (1 .. N) -> Counts] : Folding(h, N, base, F)
      BY <1>1, <1>2, <1>4, FoldExists
    <2>2. ASSUME NEW s \in SUBSET (1 .. N), s # {}
          PROVE  F[Max(s)][h[s \ {Max(s)}]] = Counting(h[s \ {Max(s)}], all[Max(s)])
      <3>1. Max(s) \in 1 .. N /\ s \ {Max(s)} \in SUBSET (1 .. N)
        BY <1>1, <2>2, LargestIndex
      <3> QED BY <2>1, <3>1 DEF F
    <2>3. Folded(h)
      BY <1>1, <2>1, <2>2 DEF Folding
    <2> QED BY <2>3
  <1>6. FoldLeft(Counting, base, all) = (CHOOSE it : Folded(it))[DOMAIN all]
    BY DEF FoldLeft, MapThenFoldSet
  <1> HIDE DEF Folded, F, N, base
  <1>7. PICK it : Folded(it) /\ FoldLeft(Counting, base, all) = it[1 .. N]
    <2>1. Folded(CHOOSE it : Folded(it))
      BY <1>5
    <2> QED BY <1>1, <1>6, <2>1
  <1> DEFINE T == {k \in 0 .. N : it[1 .. k] \in Counts /\ Tallied(it[1 .. k], all, k)}
  <1>8. 0 \in T
    <2>1. it[{}] = base /\ 1 .. 0 = {}
      BY <1>7 DEF Folded
    <2>2. 0 \in 0 .. N /\ it[1 .. 0] = base
      BY <1>1, <2>1
    <2> QED BY <1>2, <1>3, <2>2
  <1>9. ASSUME NEW k \in 0 .. N, k \in T, k < N PROVE k + 1 \in T
    <2>1. PICK s \in SUBSET (1 .. N) : s = 1 .. (k + 1) /\ s # {} /\ Max(s) = k + 1 /\ s \ {k + 1} = 1 .. k
      <3>1. k + 1 \in 1 .. N /\ (k + 1) - 1 = k
        BY <1>1, <1>9
      <3> QED BY <1>1, <3>1, FirstIndices
    <2>2. it[s] = Counting(it[1 .. k], all[k + 1])
      BY <1>1, <1>7, <2>1 DEF Folded
    <2>3. all[k + 1] \in Entry /\ it[1 .. k] \in Counts /\ Tallied(it[1 .. k], all, k) /\ k + 1 \in 0 .. N
      BY <1>1, <1>9
    <2>4. it[s] \in Counts
      BY <2>2, <2>3, CountingTyped
    <2>5. k \in Nat /\ k < Len(all)
      BY <1>1, <1>9 DEF N
    <2>6. Tallied(it[s], all, k + 1)
      BY <2>2, <2>3, <2>5, CountingTallies
    <2> QED BY <2>1, <2>3, <2>4, <2>6
  <1>10. N \in T
    <2> HIDE DEF T
    <2>1. 0 .. N \subseteq T
      BY <1>1, <1>8, <1>9, SetInduction
    <2> QED BY <1>1, <2>1
  <1> QED BY <1>7, <1>10 DEF base, N

Disclosed == disclosures \in [File -> Seq(DisclosureRow)]

LEMMA TallyCounts ==
    ASSUME Disclosed
    PROVE  /\ IsFiniteSet(Tally) /\ Tally \subseteq Filing
           /\ \A t \in Tally : /\ t.file \in File /\ t.year = FiscalYears[t.file]
                               /\ \E i \in DOMAIN disclosures[t.file] :
                                    LET row == disclosures[t.file][i]
                                    IN  Certified(row) /\ row.case = t.case /\ row.name = t.name
           /\ \A f \in File : \A i \in DOMAIN disclosures[f] : Certified(disclosures[f][i]) =>
                \E t \in Tally : t.year = FiscalYears[f] /\ t.case = disclosures[f][i].case
           /\ \A t, u \in Tally : t.year = u.year /\ t.case = u.case => t = u
  <1> DEFINE n == Len(FiscalYears)
             entries == [f \in File |-> [i \in DOMAIN disclosures[f] |-> [file |-> f, row |-> disclosures[f][i]]]]
             all == FlattenSeq(entries)
  <1>1. n \in Nat /\ File = 1 .. n
    BY HistoryAssumption DEF File
  <1>2. \A f \in File : disclosures[f] \in Seq(DisclosureRow) /\ DOMAIN disclosures[f] = 1 .. Len(disclosures[f])
    BY DEF Disclosed
  <1>3. \A f \in File : entries[f] \in Seq(Entry) /\ Len(entries[f]) = Len(disclosures[f])
    <2> SUFFICES ASSUME NEW f \in File PROVE entries[f] \in Seq(Entry) /\ Len(entries[f]) = Len(disclosures[f])
      OBVIOUS
    <2>1. PICK m \in Nat : m = Len(disclosures[f]) /\ DOMAIN disclosures[f] = 1 .. m
      BY <1>2
    <2>2. entries[f] = [i \in 1 .. m |-> [file |-> f, row |-> disclosures[f][i]]]
      BY <2>1
    <2>3. \A i \in 1 .. m : [file |-> f, row |-> disclosures[f][i]] \in Entry
      BY <1>2, <2>1 DEF Entry
    <2>4. [i \in 1 .. m |-> [file |-> f, row |-> disclosures[f][i]]] \in [1 .. m -> Entry]
      BY <2>3
    <2>5. entries[f] \in [1 .. m -> Entry]
      BY <2>2, <2>4
    <2> DEFINE e == entries[f]
    <2> HIDE DEF e
    <2>6. e \in Seq(Entry) /\ Len(e) = m
      <3>1. e \in [1 .. m -> Entry]
        BY <2>5 DEF e
      <3> HIDE <2>1
      <3>2. m \in Nat
        OBVIOUS
      <3> QED BY <3>1, <3>2
    <2> QED BY <2>1, <2>6 DEF e
  <1>4. entries \in [1 .. n -> Seq(Entry)]
    BY <1>1, <1>3
  <1>5. all \in Seq(Entry) /\ \A x : Holds(all, x) <=> \E f \in 1 .. n : Holds(entries[f], x)
    <2> HIDE DEF entries, n
    <2> QED BY <1>1, <1>4, FlattenHolds
  <1> DEFINE acc == FoldLeft(Counting, [seen |-> {}, rows |-> {}], all)
  <1>6. Tally = acc.rows
    BY DEF Tally, Counting
  <1>7. acc \in Counts /\ Tallied(acc, all, Len(all))
    <2> HIDE DEF all
    <2> QED BY <1>5, CountsAll
  <1> HIDE DEF acc, all
  <1>8. /\ IsFiniteSet(Tally) /\ Tally \subseteq Filing
        /\ \A t \in Tally : t.year = FiscalYears[t.file] /\ \E j \in 1 .. Len(all) : FromEntry(t, all[j])
        /\ \A j \in 1 .. Len(all) : Certified(all[j].row) =>
             \E t \in Tally : t.year = FiscalYears[all[j].file] /\ t.case = all[j].row.case
        /\ \A t, u \in Tally : t.year = u.year /\ t.case = u.case => t = u
    BY <1>6, <1>7 DEF Tallied, Counts
  <1>9. \A t \in Tally : t.file \in File
    BY <1>8 DEF Filing
  <1>10. ASSUME NEW t \in Tally
         PROVE  \E i \in DOMAIN disclosures[t.file] :
                  LET row == disclosures[t.file][i]
                  IN  Certified(row) /\ row.case = t.case /\ row.name = t.name
    <2>1. PICK j \in 1 .. Len(all) : FromEntry(t, all[j])
      BY <1>8
    <2>2. Holds(all, all[j])
      BY DEF Holds
    <2>3. PICK f \in 1 .. n : Holds(entries[f], all[j])
      <3> HIDE DEF entries, n
      <3> QED BY <1>5, <2>2
    <2>4. PICK i \in 1 .. Len(entries[f]) : entries[f][i] = all[j]
      <3> HIDE DEF entries, n
      <3> QED BY <2>3 DEF Holds
    <2>5. f \in File /\ i \in DOMAIN disclosures[f]
      <3> HIDE DEF entries, n
      <3> QED BY <1>1, <1>2, <1>3, <2>4
    <2>6. entries[f][i] = [file |-> f, row |-> disclosures[f][i]]
      BY <2>5
    <2> HIDE DEF entries, n
    <2> QED BY <2>1, <2>4, <2>5, <2>6 DEF FromEntry
  <1>11. ASSUME NEW f \in File, NEW i \in DOMAIN disclosures[f], Certified(disclosures[f][i])
         PROVE  \E t \in Tally : t.year = FiscalYears[f] /\ t.case = disclosures[f][i].case
    <2>1. entries[f][i] = [file |-> f, row |-> disclosures[f][i]]
      OBVIOUS
    <2> HIDE DEF entries, n
    <2>2. i \in 1 .. Len(entries[f])
      BY <1>2, <1>3
    <2>3. Holds(entries[f], entries[f][i])
      BY <2>2 DEF Holds
    <2>4. Holds(all, entries[f][i])
      BY <1>1, <1>5, <2>3
    <2>5. PICK j \in 1 .. Len(all) : all[j] = entries[f][i]
      BY <2>4 DEF Holds
    <2> QED BY <1>8, <1>11, <2>1, <2>5
  <1> QED BY <1>8, <1>9, <1>10, <1>11

LEMMA CasesAreCounted == Disclosed => CasesCountOnce
  <1> SUFFICES ASSUME Disclosed, NEW f0 \in File
               PROVE  Cardinality({t \in Tally : t.year = FiscalYears[f0]}) = Cardinality(Cases(FiscalYears[f0]))
    BY DEF CasesCountOnce
  <1> DEFINE year == FiscalYears[f0]
             T == {t \in Tally : t.year = year}
             C == Cases(year)
             g == [t \in T |-> t.case]
  <1>1. IsFiniteSet(T)
    BY TallyCounts, FS_Subset
  <1>2. \A t \in T : t.case \in C
    <2> SUFFICES ASSUME NEW t \in T PROVE t.case \in C
      OBVIOUS
    <2>1. PICK i \in DOMAIN disclosures[t.file] :
            Certified(disclosures[t.file][i]) /\ disclosures[t.file][i].case = t.case
      BY TallyCounts
    <2>2. t.file \in File /\ FiscalYears[t.file] = year
      BY TallyCounts
    <2>3. disclosures[t.file][i] \in DisclosureRow
      BY <2>2 DEF Disclosed
    <2> HIDE DEF year
    <2> QED BY <2>1, <2>2, <2>3 DEF Cases
  <1>3. \A c \in C : \E t \in T : t.case = c
    <2> SUFFICES ASSUME NEW c \in C PROVE \E t \in T : t.case = c
      OBVIOUS
    <2>1. PICK s \in DisclosureRow : /\ Certified(s) /\ s.case = c
                                     /\ \E f \in File : FiscalYears[f] = year /\ \E i \in DOMAIN disclosures[f] : disclosures[f][i] = s
      <3> HIDE DEF year
      <3> QED BY DEF Cases
    <2>2. PICK f \in File : FiscalYears[f] = year /\ \E i \in DOMAIN disclosures[f] : disclosures[f][i] = s
      BY <2>1
    <2>3. PICK i \in DOMAIN disclosures[f] : disclosures[f][i] = s
      BY <2>2
    <2>4. PICK t \in Tally : t.year = FiscalYears[f] /\ t.case = disclosures[f][i].case
      BY <2>1, <2>3, TallyCounts
    <2> QED BY <2>1, <2>2, <2>3, <2>4
  <1>4. \A t, u \in T : t.case = u.case => t = u
    BY TallyCounts
  <1> HIDE DEF T, C
  <1>5. g \in [T -> C] /\ (\A t, u \in T : g[t] = g[u] => t = u) /\ \A c \in C : \E t \in T : g[t] = c
    BY <1>2, <1>3, <1>4
  <1>6. ExistsBijection(T, C)
    <2> HIDE DEF g
    <2>1. g \in Bijection(T, C)
      BY <1>5 DEF Bijection, Injection, Surjection, IsInjective
    <2> QED BY <2>1 DEF ExistsBijection
  <1>7. Cardinality(C) = Cardinality(T)
    BY <1>1, <1>6, FS_Bijection
  <1> QED BY <1>7 DEF T, C

-----------------------------------------------------------------------------
\* the records of a set that none of the same key is newer than
Newest(T) == {r \in T : \A q \in T : KeyOf(q) = KeyOf(r) => q.at <= r.at}
Topped(T) == \A q \in T : \E r \in Newest(T) : KeyOf(r) = KeyOf(q) /\ q.at <= r.at
Dated(T) ==
    /\ \A r \in T : r.at \in Nat
    /\ \A q, r \in T : KeyOf(q) = KeyOf(r) /\ q.at = r.at => q = r

LEMMA ReplacedNewest ==
    ASSUME NEW T, NEW item, Dated(T \cup {item}), Topped(T)
    PROVE  Replaced(Newest(T), item) = Newest(T \cup {item}) /\ Topped(T \cup {item})
  <1> DEFINE all == T \cup {item}
             same == {r \in Newest(T) : KeyOf(r) = KeyOf(item)}
  <1>1. /\ \A r \in all : r.at \in Nat
        /\ \A q, r \in all : KeyOf(q) = KeyOf(r) /\ q.at = r.at => q = r
        /\ item \in all /\ \A r \in T : r \in all
    BY DEF Dated
  <1>2. \A q \in T : \E r \in Newest(T) : KeyOf(r) = KeyOf(q) /\ q.at <= r.at
    BY DEF Topped
  <1>3. \A r \in Newest(T) : r \in T /\ \A q \in T : KeyOf(q) = KeyOf(r) => q.at <= r.at
    BY DEF Newest
  <1>4. CASE \E r \in same : Stays(r, item)
    <2>1. PICK r0 \in Newest(T) : KeyOf(r0) = KeyOf(item) /\ r0.at > item.at
      BY <1>4 DEF Stays
    <2>2. Replaced(Newest(T), item) = Newest(T)
      BY <1>4 DEF Replaced
    <2>3. ASSUME NEW r \in Newest(T), KeyOf(item) = KeyOf(r) PROVE item.at <= r.at
      <3>1. r0 \in T /\ r0.at <= r.at /\ r.at \in Nat /\ r0.at \in Nat /\ item.at \in Nat
        BY <1>1, <1>3, <2>1, <2>3
      <3> QED BY <2>1, <3>1
    <2>4. ASSUME NEW r \in Newest(T) PROVE r \in Newest(all)
      BY <1>3, <2>3 DEF Newest
    <2>5. ASSUME NEW r \in Newest(all) PROVE r \in Newest(T)
      <3>1. r \in all /\ \A q \in all : KeyOf(q) = KeyOf(r) => q.at <= r.at
        BY DEF Newest
      <3>2. r # item
        <4>1. r0 \in all /\ r0.at \in Nat /\ item.at \in Nat
          BY <1>1, <1>3, <2>1
        <4> QED BY <2>1, <3>1, <4>1
      <3> QED BY <3>1, <3>2 DEF Newest
    <2>6. Newest(T) = Newest(all)
      BY <2>4, <2>5
    <2>7. ASSUME NEW q \in all PROVE \E r \in Newest(all) : KeyOf(r) = KeyOf(q) /\ q.at <= r.at
      <3>1. CASE q \in T
        BY <1>2, <2>6, <3>1
      <3>2. CASE q = item
        <4>1. item.at <= r0.at
          BY <2>1, <2>3
        <4> QED BY <2>1, <2>6, <3>2, <4>1
      <3> QED BY <3>1, <3>2
    <2>8. Topped(all)
      BY <2>7 DEF Topped
    <2> QED BY <2>2, <2>6, <2>8
  <1>5. CASE ~\E r \in same : Stays(r, item)
    <2>1. \A r \in Newest(T) : KeyOf(r) = KeyOf(item) => r.at <= item.at
      <3> SUFFICES ASSUME NEW r \in Newest(T), KeyOf(r) = KeyOf(item) PROVE r.at <= item.at
        OBVIOUS
      <3>1. ~(r.at > item.at) /\ r.at \in Nat /\ item.at \in Nat
        BY <1>1, <1>3, <1>5 DEF Stays
      <3> QED BY <3>1
    <2>2. \A q \in T : KeyOf(q) = KeyOf(item) => q.at <= item.at
      <3> SUFFICES ASSUME NEW q \in T, KeyOf(q) = KeyOf(item) PROVE q.at <= item.at
        OBVIOUS
      <3>1. PICK r \in Newest(T) : KeyOf(r) = KeyOf(q) /\ q.at <= r.at
        BY <1>2
      <3>2. r.at <= item.at /\ q.at \in Nat /\ r.at \in Nat /\ item.at \in Nat
        BY <1>1, <1>3, <2>1, <3>1
      <3> QED BY <3>1, <3>2
    <2>3. Replaced(Newest(T), item) = (Newest(T) \ same) \cup {item}
      BY <1>5 DEF Replaced
    <2>4. item \in Newest(all)
      <3>1. item.at <= item.at
        BY <1>1
      <3> QED BY <2>2, <3>1 DEF Newest
    <2>5. ASSUME NEW r \in Newest(T) \ same PROVE r \in Newest(all)
      <3>1. KeyOf(item) # KeyOf(r)
        BY <2>5
      <3> QED BY <1>3, <3>1 DEF Newest
    <2>6. ASSUME NEW r \in Newest(all), r # item PROVE r \in Newest(T) \ same
      <3>1. r \in T /\ \A q \in all : KeyOf(q) = KeyOf(r) => q.at <= r.at
        BY <2>6 DEF Newest
      <3>2. KeyOf(r) # KeyOf(item)
        <4> SUFFICES ASSUME KeyOf(r) = KeyOf(item) PROVE FALSE
          OBVIOUS
        <4>1. r.at <= item.at /\ item.at <= r.at /\ r.at \in Nat /\ item.at \in Nat
          BY <1>1, <2>2, <3>1
        <4>2. r.at = item.at
          BY <4>1
        <4> QED BY <1>1, <2>6, <3>1, <4>2
      <3>3. r \in Newest(T)
        BY <3>1 DEF Newest
      <3> QED BY <3>2, <3>3
    <2>7. Replaced(Newest(T), item) = Newest(all)
      BY <2>3, <2>4, <2>5, <2>6
    <2>8. ASSUME NEW q \in all PROVE \E r \in Newest(all) : KeyOf(r) = KeyOf(q) /\ q.at <= r.at
      <3>1. CASE KeyOf(q) = KeyOf(item)
        <4>1. q.at <= item.at
          BY <1>1, <2>2, <3>1
        <4> QED BY <2>4, <3>1, <4>1
      <3>2. CASE KeyOf(q) # KeyOf(item)
        <4>1. PICK r \in Newest(T) : KeyOf(r) = KeyOf(q) /\ q.at <= r.at
          BY <1>2, <3>2
        <4>2. r \in Newest(all)
          BY <2>5, <3>2, <4>1
        <4> QED BY <4>1, <4>2
      <3> QED BY <3>1, <3>2
    <2>9. Topped(all)
      BY <2>8 DEF Topped
    <2> QED BY <2>7, <2>9
  <1> QED BY <1>4, <1>5

\* a finite set as a sequence
LEMMA SetAsSeq ==
    ASSUME NEW M, IsFiniteSet(M)
    PROVE  /\ Cardinality(M) \in Nat /\ SetToSeq(M) \in [1 .. Cardinality(M) -> M]
           /\ \A x \in M : \E i \in 1 .. Cardinality(M) : SetToSeq(M)[i] = x
  <1> DEFINE n == Cardinality(M)
  <1>1. n \in Nat /\ ExistsBijection(1 .. n, M)
    BY FS_CardinalityType
  <1>2. PICK b \in [1 .. n -> M] : IsInjective(b)
    <2>1. PICK b : b \in Bijection(1 .. n, M)
      BY <1>1 DEF ExistsBijection
    <2> QED BY <2>1 DEF Bijection, Injection, IsInjective
  <1>3. SetToSeq(M) \in [1 .. n -> M] /\ IsInjective(SetToSeq(M))
    BY <1>2 DEF SetToSeq
  <1> DEFINE s == SetToSeq(M)
  <1>4. s \in Surjection(1 .. n, M)
    <2>1. s \in Injection(1 .. n, M)
      BY <1>3 DEF Injection, IsInjective
    <2>2. Cardinality(1 .. n) = n
      BY <1>1, FS_Interval
    <2> HIDE DEF s
    <2> QED BY <1>1, <2>1, <2>2, FS_Injection
  <1> QED BY <1>1, <1>3, <1>4 DEF Surjection

FirstOf(m, k) == {m[i] : i \in 1 .. k}

\* merging the records of a dataset, in any order
LEMMA MergedNewest ==
    ASSUME NEW T, NEW mine, IsFiniteSet(mine), Dated(T \cup mine), Topped(T)
    PROVE  FoldLeft(Replaced, Newest(T), SetToSeq(mine)) = Newest(T \cup mine) /\ Topped(T \cup mine)
  <1> DEFINE m == SetToSeq(mine)
             N == Cardinality(mine)
             A == SUBSET (T \cup mine)
             F == [i \in 1 .. N |-> [records \in A |-> Replaced(records, m[i])]]
             base == Newest(T)
             Folded(it) == it = [s \in SUBSET DOMAIN m |->
                                   IF s = {} THEN base ELSE Replaced(it[s \ {Max(s)}], m[Max(s)])]
  <1>1. N \in Nat /\ m \in [1 .. N -> mine] /\ DOMAIN m = 1 .. N /\ \A x \in mine : \E i \in 1 .. N : m[i] = x
    BY SetAsSeq
  <1> HIDE DEF m, N
  <1>2. base \in A
    BY DEF Newest
  <1>3. \A records \in A : \A i \in 1 .. N : Replaced(records, m[i]) \in A
    BY <1>1 DEF Replaced
  <1>4. F \in [1 .. N -> [A -> A]]
    BY <1>3
  <1>5. \E h : Folded(h)
    <2> HIDE DEF base, F, A
    <2>1. PICK h \in [SUBSET (1 .. N) -> A] : Folding(h, N, base, F)
      BY <1>1, <1>2, <1>4, FoldExists
    <2>2. ASSUME NEW s \in SUBSET (1 .. N), s # {}
          PROVE  F[Max(s)][h[s \ {Max(s)}]] = Replaced(h[s \ {Max(s)}], m[Max(s)])
      <3>1. Max(s) \in 1 .. N /\ s \ {Max(s)} \in SUBSET (1 .. N)
        BY <1>1, <2>2, LargestIndex
      <3> QED BY <2>1, <3>1 DEF F
    <2>3. Folded(h)
      BY <1>1, <2>1, <2>2 DEF Folding
    <2> QED BY <2>3
  <1>6. FoldLeft(Replaced, base, m) = (CHOOSE it : Folded(it))[DOMAIN m]
    BY DEF FoldLeft, MapThenFoldSet
  <1> HIDE DEF Folded, F, base, A
  <1>7. PICK it : Folded(it) /\ FoldLeft(Replaced, base, m) = it[1 .. N]
    <2>1. Folded(CHOOSE it : Folded(it))
      BY <1>5
    <2> QED BY <1>1, <1>6, <2>1
  <1> DEFINE U(k) == T \cup FirstOf(m, k)
             S == {k \in 0 .. N : it[1 .. k] = Newest(U(k)) /\ Topped(U(k))}
  <1>8. 0 \in S
    <2>1. it[{}] = base /\ 1 .. 0 = {}
      BY <1>7 DEF Folded
    <2>2. U(0) = T /\ 0 \in 0 .. N /\ it[1 .. 0] = Newest(T)
      BY <1>1, <2>1 DEF FirstOf, base
    <2> HIDE DEF U
    <2> QED BY <2>2
  <1>9. ASSUME NEW k \in 0 .. N, k \in S, k < N PROVE k + 1 \in S
    <2>1. PICK s \in SUBSET (1 .. N) : s = 1 .. (k + 1) /\ s # {} /\ Max(s) = k + 1 /\ s \ {k + 1} = 1 .. k
      <3>1. k + 1 \in 1 .. N /\ (k + 1) - 1 = k
        BY <1>1, <1>9
      <3> QED BY <1>1, <3>1, FirstIndices
    <2>2. it[s] = Replaced(it[1 .. k], m[k + 1])
      <3>1. \A x \in SUBSET (1 .. N) : it[x] = IF x = {} THEN base ELSE Replaced(it[x \ {Max(x)}], m[Max(x)])
        BY <1>1, <1>7 DEF Folded
      <3>2. it[s] = Replaced(it[s \ {Max(s)}], m[Max(s)])
        BY <2>1, <3>1
      <3> QED BY <2>1, <3>2
    <2>3. k + 1 \in 1 .. N /\ k + 1 \in 0 .. N /\ 1 .. (k + 1) = (1 .. k) \cup {k + 1} /\ 1 .. k \subseteq 1 .. N
      BY <1>1, <1>9
    <2>4. U(k + 1) = U(k) \cup {m[k + 1]}
      BY <2>3 DEF FirstOf
    <2>5. U(k) \cup {m[k + 1]} \subseteq T \cup mine
      BY <1>1, <2>3 DEF FirstOf
    <2>6. it[1 .. k] = Newest(U(k)) /\ Topped(U(k))
      BY <1>9
    <2> HIDE DEF U
    <2>7. Dated(U(k) \cup {m[k + 1]})
      BY <2>5 DEF Dated
    <2>8. it[s] = Newest(U(k + 1)) /\ Topped(U(k + 1))
      <3>1. PICK V, item : V = U(k) /\ item = m[k + 1]
        OBVIOUS
      <3>2. Dated(V \cup {item}) /\ Topped(V)
        BY <2>6, <2>7, <3>1
      <3>3. Replaced(Newest(V), item) = Newest(V \cup {item}) /\ Topped(V \cup {item})
        BY <3>2, ReplacedNewest
      <3> QED BY <2>2, <2>4, <2>6, <3>1, <3>3
    <2> QED BY <2>1, <2>3, <2>8
  <1>10. N \in S
    <2> HIDE DEF S
    <2>1. 0 .. N \subseteq S
      BY <1>1, <1>8, <1>9, SetInduction
    <2> QED BY <1>1, <2>1
  <1>11. U(N) = T \cup mine
    BY <1>1 DEF FirstOf
  <1> HIDE DEF U
  <1> QED BY <1>7, <1>10, <1>11 DEF base, m

-----------------------------------------------------------------------------
\* a record is of the company its legal name names, or of no other it could name
Owned(r) ==
    r.name \notin DOMAIN Alias =>
      SameLetters(r.company, r.name) \/ \A d \in Employer : d.key = r.name.key => d = r.company

\* what an import brings: records of one date, one of each key
SoundImport(x) ==
    /\ x.at \in Nat /\ IsFiniteSet(x.data)
    /\ \A r \in x.data : r.at = x.at /\ Owned(r)
    /\ \A q, r \in x.data : KeyOf(q) = KeyOf(r) => q = r

LEMMA ResolvedOwns ==
    ASSUME NEW name, Resolved(name) # {}, name \notin DOMAIN Alias
    PROVE  LET c == CHOOSE c \in Resolved(name) : TRUE
           IN  SameLetters(c, name) \/ \A d \in Employer : d.key = name.key => d = c
  <1> DEFINE c == CHOOSE c \in Resolved(name) : TRUE
  <1>1. CASE \E d \in Employer : SameLetters(d, name)
    <2> DEFINE e == CHOOSE d \in Employer : SameLetters(d, name)
    <2>1. SameLetters(e, name)
      BY <1>1
    <2>2. Resolved(name) = {e}
      BY <1>1 DEF Resolved
    <2> HIDE DEF e
    <2>3. c = e
      BY <2>2
    <2> QED BY <2>1, <2>3
  <1>2. CASE ~\E d \in Employer : SameLetters(d, name)
    <2> DEFINE candidates == {d \in Employer : d.key = name.key}
               e == CHOOSE d \in candidates : TRUE
    <2>1. One(candidates) /\ Resolved(name) = {e}
      BY <1>2 DEF Resolved
    <2>2. IsFiniteSet(candidates)
      BY HistoryAssumption, FS_Subset
    <2>3. PICK d : candidates = {d}
      <3> HIDE DEF candidates
      <3> QED BY <2>1, <2>2, FS_Singleton DEF One
    <2>4. e = d
      <3> HIDE DEF candidates
      <3> QED BY <2>3
    <2> HIDE DEF e
    <2>5. c = d
      BY <2>1, <2>4
    <2> QED BY <2>3, <2>5
  <1> QED BY <1>1, <1>2

LEMMA DatasetIsSound ==
    ASSUME Disclosed, NEW at \in Nat
    PROVE  SoundImport([at |-> at, data |-> Dataset(at)])
  <1> DEFINE named == {u \in Tally : Resolved(u.name) # {}}
             Record(t) == [company |-> CHOOSE c \in Resolved(t.name) : TRUE, year |-> t.year, name |-> t.name,
                           count |-> CountOf(t.year, t.name), at |-> at]
             f == [t \in named |-> Record(t)]
  <1>1. Dataset(at) = {Record(t) : t \in named}
    BY DEF Dataset
  <1>2. IsFiniteSet(named)
    BY TallyCounts, FS_Subset
  <1>3. IsFiniteSet(Dataset(at))
    <2>1. f \in Surjection(named, Dataset(at))
      <3> HIDE DEF named, Record
      <3> QED BY <1>1 DEF Surjection
    <2> HIDE DEF f, named
    <2> QED BY <1>2, <2>1, FS_Surjection
  <1>4. \A t \in named : /\ Record(t).at = at /\ Record(t).year = t.year /\ Record(t).name = t.name
                         /\ Record(t).company = CHOOSE c \in Resolved(t.name) : TRUE
    OBVIOUS
  <1>5. ASSUME NEW r \in Dataset(at) PROVE r.at = at /\ Owned(r)
    <2>1. PICK t \in named : r = Record(t)
      BY <1>1
    <2> HIDE DEF Record
    <2>2. Resolved(t.name) # {}
      OBVIOUS
    <2>3. r.at = at /\ r.name = t.name /\ r.company = CHOOSE c \in Resolved(t.name) : TRUE
      BY <1>4, <2>1
    <2> QED BY <2>2, <2>3, ResolvedOwns DEF Owned
  <1>6. ASSUME NEW q \in Dataset(at), NEW r \in Dataset(at), KeyOf(q) = KeyOf(r) PROVE q = r
    <2>1. PICK t \in named : r = Record(t)
      BY <1>1
    <2>2. PICK u \in named : q = Record(u)
      BY <1>1
    <2>3. q.year = u.year /\ q.name = u.name /\ r.year = t.year /\ r.name = t.name
      <3> HIDE DEF Record
      <3> QED BY <1>4, <2>1, <2>2
    <2>4. t.year = u.year /\ t.name = u.name
      BY <1>6, <2>3 DEF KeyOf
    <2> HIDE DEF named
    <2> QED BY <2>1, <2>2, <2>4
  <1> QED BY <1>3, <1>5, <1>6 DEF SoundImport

-----------------------------------------------------------------------------
Of(x, c) == {r \in x.data : r.company = c}
ToldOf(c) == UNION {{r \in imports[i].data : r.company = c} : i \in DOMAIN imports}

\* the inductive invariant
ImportsSound ==
    /\ imports \in Seq(ToSet(imports))
    /\ \A i \in DOMAIN imports : SoundImport(imports[i])
    /\ \A i, j \in DOMAIN imports : imports[i].at = imports[j].at => imports[i] = imports[j]

FilingsNewest == \A c \in Employer : filings[c] = Newest(ToldOf(c)) /\ Topped(ToldOf(c))

EmployerInv == Disclosed /\ ImportsSound /\ FilingsNewest

LEMMA ToldIsDated ==
    ASSUME ImportsSound, NEW c
    PROVE  Dated(ToldOf(c)) /\ \A r \in ToldOf(c) : Owned(r)
  <1>1. \A r \in ToldOf(c) : \E i \in DOMAIN imports : r \in imports[i].data
    BY DEF ToldOf
  <1>2. \A i \in DOMAIN imports : /\ imports[i].at \in Nat
                                  /\ \A r \in imports[i].data : r.at = imports[i].at /\ Owned(r)
                                  /\ \A q, r \in imports[i].data : KeyOf(q) = KeyOf(r) => q = r
    BY DEF ImportsSound, SoundImport
  <1>3. \A r \in ToldOf(c) : r.at \in Nat /\ Owned(r)
    BY <1>1, <1>2
  <1>4. ASSUME NEW q \in ToldOf(c), NEW r \in ToldOf(c), KeyOf(q) = KeyOf(r), q.at = r.at PROVE q = r
    <2>1. PICK i \in DOMAIN imports : q \in imports[i].data
      BY <1>1
    <2>2. PICK j \in DOMAIN imports : r \in imports[j].data
      BY <1>1
    <2>3. imports[i].at = imports[j].at
      BY <1>2, <1>4, <2>1, <2>2
    <2>4. imports[i] = imports[j]
      BY <2>3 DEF ImportsSound
    <2> QED BY <1>2, <1>4, <2>1, <2>2, <2>4
  <1> QED BY <1>3, <1>4 DEF Dated

\* an import, new or repeated
LEMMA ImportKeeps ==
    ASSUME EmployerInv, NEW x, SoundImport(x), UNCHANGED disclosures,
           \A i \in DOMAIN imports : imports[i].at = x.at => imports[i] = x,
           imports' = Append(imports, x),
           filings' = [c \in Employer |-> FoldLeft(Replaced, filings[c], SetToSeq({r \in x.data : r.company = c}))]
    PROVE  EmployerInv'
  <1>1. PICK n \in Nat : n = Len(imports) /\ DOMAIN imports = 1 .. n
    BY DEF EmployerInv, ImportsSound
  <1>2. /\ imports' \in Seq(ToSet(imports) \cup {x}) /\ Len(imports') = n + 1
        /\ \A i \in 1 .. n : imports'[i] = imports[i]
        /\ imports'[n + 1] = x
    <2>1. imports \in Seq(ToSet(imports) \cup {x})
      BY SeqMonotonic DEF EmployerInv, ImportsSound
    <2>2. x \in ToSet(imports) \cup {x}
      OBVIOUS
    <2> QED BY <1>1, <2>1, <2>2, AppendProperties
  <1>3. DOMAIN imports' = 1 .. (n + 1) /\ 1 .. (n + 1) = (1 .. n) \cup {n + 1}
    BY <1>1, <1>2
  <1>4. ImportsSound'
    <2>1. imports' \in Seq(ToSet(imports'))
      <3>1. \A i \in 1 .. Len(imports') : imports'[i] \in ToSet(imports')
        BY <1>2, <1>3 DEF ToSet
      <3> QED BY <1>2, <3>1, SeqDef
    <2>2. \A i \in DOMAIN imports' : SoundImport(imports'[i])
      BY <1>1, <1>2, <1>3 DEF EmployerInv, ImportsSound
    <2>3. \A i, j \in DOMAIN imports' : imports'[i].at = imports'[j].at => imports'[i] = imports'[j]
      BY <1>1, <1>2, <1>3 DEF EmployerInv, ImportsSound
    <2> QED BY <2>1, <2>2, <2>3 DEF ImportsSound
  <1>5. ASSUME NEW c \in Employer
        PROVE  filings'[c] = Newest(ToldOf(c)') /\ Topped(ToldOf(c)')
    <2> DEFINE mine == {r \in x.data : r.company = c}
    <2>1. ToldOf(c)' = ToldOf(c) \cup mine
      <3>1. ToldOf(c) = UNION {{r \in imports[i].data : r.company = c} : i \in 1 .. n}
        BY <1>1 DEF ToldOf
      <3>2. ToldOf(c)' = UNION {{r \in imports'[i].data : r.company = c} : i \in 1 .. (n + 1)}
        BY <1>3 DEF ToldOf
      <3> QED BY <1>2, <1>3, <3>1, <3>2
    <2>2. Dated(ToldOf(c)')
      <3>1. (ImportsSound => Dated(ToldOf(c)))'
        BY ToldIsDated, PTL
      <3> QED BY <1>4, <3>1
    <2>3. IsFiniteSet(mine)
      BY FS_Subset DEF SoundImport
    <2>4. filings'[c] = FoldLeft(Replaced, filings[c], SetToSeq(mine))
      OBVIOUS
    <2>5. filings[c] = Newest(ToldOf(c)) /\ Topped(ToldOf(c))
      BY DEF EmployerInv, FilingsNewest
    <2> HIDE DEF mine
    <2>6. PICK T : T = ToldOf(c)
      OBVIOUS
    <2>7. FoldLeft(Replaced, Newest(T), SetToSeq(mine)) = Newest(T \cup mine) /\ Topped(T \cup mine)
      BY <2>1, <2>2, <2>3, <2>5, <2>6, MergedNewest
    <2> QED BY <2>1, <2>4, <2>5, <2>6, <2>7
  <1>6. FilingsNewest'
    BY <1>5 DEF FilingsNewest
  <1>7. Disclosed'
    BY DEF EmployerInv, Disclosed
  <1> QED BY <1>4, <1>6, <1>7 DEF EmployerInv

LEMMA LatestIsLast ==
    ASSUME ImportsSound
    PROVE  Latest \in Nat /\ \A i \in DOMAIN imports : imports[i].at <= Latest
  <1>1. PICK n \in Nat : n = Len(imports) /\ DOMAIN imports = 1 .. n
    BY DEF ImportsSound
  <1>2. \A i \in 1 .. n : imports[i].at \in Nat
    BY <1>1 DEF ImportsSound, SoundImport
  <1>3. CASE n = 0
    <2>1. imports = <<>>
      BY <1>1, <1>3 DEF ImportsSound
    <2> QED BY <1>1, <1>3, <2>1 DEF Latest
  <1>4. CASE n # 0
    <2> DEFINE S == {k \in 0 .. n : k = 0 \/ \E m \in 1 .. k : \A i \in 1 .. k : imports[i].at <= imports[m].at}
    <2>1. 0 \in S
      OBVIOUS
    <2>2. ASSUME NEW k \in 0 .. n, k \in S, k < n PROVE k + 1 \in S
      <3>1. k + 1 \in 0 .. n /\ k + 1 \in 1 .. n /\ 1 .. (k + 1) = (1 .. k) \cup {k + 1} /\ 1 .. k \subseteq 1 .. n
        BY <2>2
      <3>2. CASE k = 0
        <4>1. 1 .. (k + 1) = {k + 1}
          BY <3>2
        <4> QED BY <1>2, <3>1, <4>1
      <3>3. CASE k # 0
        <4>1. PICK m \in 1 .. k : \A i \in 1 .. k : imports[i].at <= imports[m].at
          BY <2>2, <3>3
        <4>2. CASE imports[k + 1].at <= imports[m].at
          BY <3>1, <4>1, <4>2
        <4>3. CASE ~(imports[k + 1].at <= imports[m].at)
          <5>1. \A i \in 1 .. (k + 1) : imports[i].at <= imports[k + 1].at
            BY <1>2, <3>1, <4>1, <4>3
          <5> QED BY <3>1, <5>1
        <4> QED BY <4>2, <4>3
      <3> QED BY <3>2, <3>3
    <2> HIDE DEF S
    <2>3. n \in S
      <3>1. 0 .. n \subseteq S
        BY <2>1, <2>2, SetInduction
      <3> QED BY <3>1
    <2>4. PICK m \in 1 .. n : \A i \in 1 .. n : imports[i].at <= imports[m].at
      BY <1>4, <2>3 DEF S
    <2> DEFINE times == {imports[i].at : i \in DOMAIN imports}
    <2>5. imports[m].at \in times /\ \A y \in times : imports[m].at >= y
      BY <1>1, <1>2, <2>4
    <2>6. Max(times) \in times /\ \A y \in times : Max(times) >= y
      <3> HIDE DEF times
      <3> QED BY <2>5 DEF Max
    <2>7. imports # <<>>
      <3>1. Len(<<>>) = 0
        OBVIOUS
      <3> QED BY <1>1, <1>4, <3>1
    <2>8. Latest = Max(times)
      BY <2>7 DEF Latest
    <2>9. \A y \in times : y \in Nat
      BY <1>1, <1>2
    <2>10. \A i \in DOMAIN imports : imports[i].at \in times
      OBVIOUS
    <2> HIDE DEF times
    <2> QED BY <2>6, <2>8, <2>9, <2>10
  <1> QED BY <1>3, <1>4

LEMMA EmployerStart == EmployerHistoryInit => EmployerInv
  <1> SUFFICES ASSUME EmployerHistoryInit PROVE EmployerInv
    OBVIOUS
  <1>1. disclosures \in [File -> Seq(DisclosureRow)] /\ imports = <<>> /\ DOMAIN imports = {}
    BY DEF EmployerHistoryInit
  <1>2. \A c \in Employer : filings[c] = {} /\ ToldOf(c) = {}
    BY <1>1 DEF EmployerHistoryInit, ToldOf
  <1>3. Newest({}) = {} /\ Topped({})
    BY DEF Newest, Topped
  <1>4. imports \in Seq(ToSet(imports))
    BY <1>1
  <1> QED BY <1>1, <1>2, <1>3, <1>4 DEF EmployerInv, Disclosed, ImportsSound, FilingsNewest

LEMMA EmployerStep == EmployerInv /\ [EmployerHistoryNext]_employerHistory => EmployerInv'
  <1> SUFFICES ASSUME EmployerInv, [EmployerHistoryNext]_employerHistory PROVE EmployerInv'
    OBVIOUS
  <1>1. ASSUME UNCHANGED <<filings, imports>>, Disclosed' PROVE EmployerInv'
    BY <1>1 DEF EmployerInv, ImportsSound, FilingsNewest, ToldOf
  <1>2. CASE UNCHANGED employerHistory
    BY <1>1, <1>2 DEF employerHistory, EmployerInv, Disclosed
  <1>3. ASSUME NEW f \in File, NEW row \in DisclosureRow, Disclose(f, row) PROVE EmployerInv'
    <2>1. disclosures' = [disclosures EXCEPT ![f] = Append(@, row)] /\ UNCHANGED <<filings, imports>>
      BY <1>3 DEF Disclose
    <2>2. disclosures \in [File -> Seq(DisclosureRow)] /\ Append(disclosures[f], row) \in Seq(DisclosureRow)
      <3>1. disclosures \in [File -> Seq(DisclosureRow)]
        BY DEF EmployerInv, Disclosed
      <3> QED BY <3>1
    <2>3. Disclosed'
      BY <2>1, <2>2 DEF Disclosed
    <2> QED BY <1>1, <2>1, <2>3
  <1>4. CASE Import(Latest + 1)
    <2> DEFINE x == [at |-> Latest + 1, data |-> Dataset(Latest + 1)]
    <2>1. Latest \in Nat /\ Latest + 1 \in Nat /\ \A i \in DOMAIN imports : imports[i].at <= Latest /\ imports[i].at \in Nat
      BY LatestIsLast DEF EmployerInv, ImportsSound, SoundImport
    <2>2. SoundImport(x)
      BY <2>1, DatasetIsSound DEF EmployerInv
    <2>3. x.data = Dataset(Latest + 1) /\ x.at = Latest + 1
      OBVIOUS
    <2>4. \A i \in DOMAIN imports : imports[i].at = x.at => imports[i] = x
      BY <2>1, <2>3
    <2>5. imports' = Append(imports, x)
      BY <1>4 DEF Import
    <2>6. filings' = [c \in Employer |-> FoldLeft(Replaced, filings[c], SetToSeq({r \in x.data : r.company = c}))]
      BY <1>4 DEF Import
    <2>7. UNCHANGED disclosures
      BY <1>4 DEF Import
    <2> HIDE DEF x
    <2> QED BY <2>2, <2>4, <2>5, <2>6, <2>7, ImportKeeps
  <1>5. ASSUME NEW i \in DOMAIN imports, ImportAgain(i) PROVE EmployerInv'
    <2>1. SoundImport(imports[i]) /\ \A j \in DOMAIN imports : imports[j].at = imports[i].at => imports[j] = imports[i]
      BY DEF EmployerInv, ImportsSound
    <2> QED BY <1>5, <2>1, ImportKeeps DEF ImportAgain
  <1> QED BY <1>2, <1>3, <1>4, <1>5 DEF EmployerHistoryNext

LEMMA FilingsHold == EmployerInv => FilingsAreTrue
  <1> SUFFICES ASSUME EmployerInv PROVE FilingsAreTrue
    OBVIOUS
  <1>1. CasesCountOnce
    BY CasesAreCounted DEF EmployerInv
  <1>2. ASSUME NEW c \in Employer
        PROVE  /\ Dated(ToldOf(c)) /\ (\A r \in ToldOf(c) : Owned(r)) /\ filings[c] = Newest(ToldOf(c))
               /\ \A r \in filings[c] : r \in ToldOf(c) /\ r.company = c
    <2>1. filings[c] = Newest(ToldOf(c))
      BY DEF EmployerInv, FilingsNewest
    <2>2. \A r \in ToldOf(c) : r.company = c
      BY DEF ToldOf
    <2> QED BY <2>1, <2>2, ToldIsDated DEF EmployerInv, Newest
  <1>3. NeverAmbiguous
    BY <1>2 DEF NeverAmbiguous, Owned
  <1>4. NewestOnce
    <2> SUFFICES ASSUME NEW c \in Employer
                 PROVE  /\ filings[c] = Newest(ToldOf(c))
                        /\ \A q, r \in filings[c] : KeyOf(q) = KeyOf(r) => q = r
      BY DEF NewestOnce, ToldOf, Newest
    <2>1. ASSUME NEW q \in filings[c], NEW r \in filings[c], KeyOf(q) = KeyOf(r) PROVE q = r
      <3>1. q \in ToldOf(c) /\ r \in ToldOf(c) /\ q.at \in Nat /\ r.at \in Nat
        BY <1>2 DEF Dated
      <3>2. q.at <= r.at /\ r.at <= q.at
        BY <1>2, <2>1, <3>1 DEF Newest
      <3>3. q.at = r.at
        BY <3>1, <3>2
      <3> QED BY <1>2, <2>1, <3>1, <3>3 DEF Dated
    <2> QED BY <1>2, <2>1
  <1> QED BY <1>1, <1>3, <1>4 DEF FilingsAreTrue

(* The disclosure import: for any files, companies, aliases and order of     *)
(* imports, each certified case of a year counts once, an unreviewed name is *)
(* shown for a company only if none other could be meant, and the newest     *)
(* dataset decides.                                                          *)
THEOREM FilingsAlwaysTrue == EmployerSpec => []FilingsAreTrue
  <1> QED BY EmployerStart, EmployerStep, FilingsHold, PTL DEF EmployerSpec

-----------------------------------------------------------------------------
(* Migration 0006                                                           *)

MigrationSpec == MigrationInit /\ [][MigrationNext]_migration

\* a finite set of numbers has a greatest
LEMMA FiniteMax ==
    ASSUME NEW T \in SUBSET Nat, T # {}, IsFiniteSet(T)
    PROVE  Max(T) \in T /\ \A n \in T : n <= Max(T)
  <1> DEFINE c == Cardinality(T)
  <1>1. c \in Nat /\ ExistsBijection(1 .. c, T)
    BY FS_CardinalityType
  <1> HIDE DEF c
  <1>2. PICK f \in [1 .. c -> T] : \A n \in T : \E i \in 1 .. c : f[i] = n
    <2>1. PICK f : f \in Bijection(1 .. c, T)
      BY <1>1 DEF ExistsBijection
    <2> QED BY <2>1 DEF Bijection, Surjection, Injection
  <1>3. c # 0
    <2>1. 1 .. 0 = {}
      OBVIOUS
    <2> QED BY <1>2, <2>1
  <1> DEFINE S == {k \in 0 .. c : k = 0 \/ \E m \in 1 .. k : \A i \in 1 .. k : f[i] <= f[m]}
  <1>4. 0 \in S
    BY <1>1
  <1>5. ASSUME NEW k \in 0 .. c, k \in S, k < c PROVE k + 1 \in S
    <2>1. k + 1 \in 0 .. c /\ k + 1 \in 1 .. c /\ 1 .. (k + 1) = (1 .. k) \cup {k + 1} /\ 1 .. k \subseteq 1 .. c
      BY <1>1, <1>5
    <2>2. \A i \in 1 .. c : f[i] \in Nat
      BY <1>2
    <2>3. CASE k = 0
      <3>1. 1 .. (k + 1) = {k + 1}
        BY <2>3
      <3>2. f[k + 1] <= f[k + 1]
        BY <2>1, <2>2
      <3>3. \A i \in 1 .. (k + 1) : f[i] <= f[k + 1]
        BY <3>1, <3>2
      <3> QED BY <2>1, <3>3
    <2>4. CASE k # 0
      <3>1. PICK m \in 1 .. k : \A i \in 1 .. k : f[i] <= f[m]
        BY <1>5, <2>4
      <3>2. CASE f[k + 1] <= f[m]
        BY <2>1, <3>1, <3>2
      <3>3. CASE ~(f[k + 1] <= f[m])
        <4>1. \A i \in 1 .. (k + 1) : f[i] <= f[k + 1]
          BY <2>1, <2>2, <3>1, <3>3
        <4> QED BY <2>1, <4>1
      <3> QED BY <3>2, <3>3
    <2> QED BY <2>3, <2>4
  <1> HIDE DEF S
  <1>6. c \in S
    <2>1. 0 .. c \subseteq S
      BY <1>1, <1>4, <1>5, SetInduction
    <2> QED BY <1>1, <2>1
  <1>7. PICK m \in 1 .. c : \A i \in 1 .. c : f[i] <= f[m]
    BY <1>3, <1>6 DEF S
  <1>8. f[m] \in T /\ \A n \in T : f[m] >= n
    BY <1>2, <1>7
  <1>9. Max(T) \in T /\ \A n \in T : Max(T) >= n
    BY <1>8 DEF Max
  <1> QED BY <1>9

LEMMA FiniteIds ==
    ASSUME NEW rows, IsFiniteSet(rows)
    PROVE  IsFiniteSet({r.id : r \in rows}) /\ IsFiniteSet({r.at : r \in rows})
  <1>1. [r \in rows |-> r.id] \in Surjection(rows, {r.id : r \in rows})
    BY DEF Surjection
  <1>2. [r \in rows |-> r.at] \in Surjection(rows, {r.at : r \in rows})
    BY DEF Surjection
  <1> QED BY <1>1, <1>2, FS_Surjection

LEMMA PastEveryId ==
    ASSUME NEW rows, IsFiniteSet(rows), \A r \in rows : r.id \in Nat, NEW first \in Nat, NEW table
    PROVE  PastIds(rows, first, table) \in Nat /\ \A r \in rows : r.id < PastIds(rows, first, table)
  <1>1. CASE rows = {}
    BY <1>1 DEF PastIds
  <1>2. CASE rows # {}
    <2> DEFINE ids == {r.id : r \in rows}
    <2>1. ids \in SUBSET Nat /\ ids # {} /\ IsFiniteSet(ids) /\ \A r \in rows : r.id \in ids
      BY <1>2, FiniteIds
    <2>2. PastIds(rows, first, table) = 1 + Max(ids)
      BY <1>2 DEF PastIds, Highest
    <2> HIDE DEF ids
    <2>3. Max(ids) \in Nat /\ \A r \in rows : r.id <= Max(ids)
      BY <2>1, FiniteMax
    <2> QED BY <2>1, <2>2, <2>3
  <1> QED BY <1>1, <1>2

LEMMA OccurrencesDiffer ==
    /\ \A j \in OldPosting : OccurrenceOf(j) \in Nat
    /\ \A i, j \in OldPosting : OccurrenceOf(i) = OccurrenceOf(j) => i = j
  <1> DEFINE upTo(j) == {i \in OldPosting : i <= j}
  <1>1. \A j \in OldPosting : IsFiniteSet(upTo(j)) /\ upTo(j) \in SUBSET OldPosting /\ j \in upTo(j)
    <2> TAKE j \in OldPosting
    <2>1. IsFiniteSet(upTo(j))
      BY MigrationAssumption, FS_Subset
    <2>2. j <= j
      BY MigrationAssumption
    <2> QED BY <2>1, <2>2
  <1>2. \A j \in OldPosting : OccurrenceOf(j) = Cardinality(upTo(j)) /\ OccurrenceOf(j) \in Nat
    BY <1>1, FS_CardinalityType DEF OccurrenceOf
  <1>3. ASSUME NEW i \in OldPosting, NEW j \in OldPosting, i < j PROVE OccurrenceOf(i) # OccurrenceOf(j)
    <2>1. upTo(i) \subseteq upTo(j) /\ j \notin upTo(i) /\ j \in upTo(j)
      <3>1. \A x \in OldPosting : x \in Nat
        BY MigrationAssumption
      <3>2. \A x \in upTo(i) : x \in OldPosting /\ x <= j
        BY <1>3, <3>1
      <3>3. j \notin upTo(i)
        BY <1>3, <3>1
      <3> QED BY <1>1, <3>2, <3>3
    <2>2. upTo(i) # upTo(j) /\ IsFiniteSet(upTo(j)) /\ upTo(i) \in SUBSET upTo(j)
      BY <1>1, <2>1
    <2> HIDE DEF upTo
    <2>3. Cardinality(upTo(j)) # Cardinality(upTo(i))
      BY <2>2, FS_Subset
    <2> QED BY <1>2, <2>3
  <1> HIDE DEF upTo
  <1>4. \A i, j \in OldPosting : i = j \/ i < j \/ j < i
    BY MigrationAssumption
  <1> QED BY <1>2, <1>3, <1>4

\* the occurrences of the postings a delivery names
ListedOf(d) == {OccurrenceOf(j) : j \in {k \in OldPosting : \E i \in DOMAIN d.jobs : d.jobs[i] = k}}

LEMMA ListingNames ==
    ASSUME NEW d \in Deliveries
    PROVE  ListingOf(d) \in Seq(ListedOf(d))
  <1> DEFINE jobs == d.jobs
             L == ListedOf(d)
             N == Len(jobs)
             Longer(known, j) == IF j \in OldPosting THEN Append(known, OccurrenceOf(j)) ELSE known
             F == [i \in 1 .. N |-> [known \in Seq(L) |-> Longer(known, jobs[i])]]
             Folded(it) == it = [s \in SUBSET DOMAIN jobs |->
                                   IF s = {} THEN <<>> ELSE Longer(it[s \ {Max(s)}], jobs[Max(s)])]
  <1>1. N \in Nat /\ DOMAIN jobs = 1 .. N /\ <<>> \in Seq(L)
    BY MigrationAssumption
  <1>2. \A i \in 1 .. N : jobs[i] \in OldPosting => OccurrenceOf(jobs[i]) \in L
    BY <1>1 DEF ListedOf
  <1>3. ListingOf(d) = (CHOOSE it : Folded(it))[DOMAIN jobs]
    BY DEF ListingOf, FoldLeft, MapThenFoldSet
  <1> HIDE DEF L
  <1>4. \A known \in Seq(L) : \A i \in 1 .. N : Longer(known, jobs[i]) \in Seq(L)
    BY <1>2
  <1> HIDE DEF Longer
  <1>5. F \in [1 .. N -> [Seq(L) -> Seq(L)]]
    BY <1>4
  <1>6. \E h : Folded(h)
    <2> HIDE DEF F, N, jobs
    <2>1. PICK h \in [SUBSET (1 .. N) -> Seq(L)] : Folding(h, N, <<>>, F)
      BY <1>1, <1>5, FoldExists
    <2>2. ASSUME NEW s \in SUBSET (1 .. N), s # {}
          PROVE  F[Max(s)][h[s \ {Max(s)}]] = Longer(h[s \ {Max(s)}], jobs[Max(s)])
      <3>1. Max(s) \in 1 .. N /\ s \ {Max(s)} \in SUBSET (1 .. N)
        BY <1>1, <2>2, LargestIndex
      <3> QED BY <2>1, <3>1 DEF F
    <2>3. Folded(h)
      BY <1>1, <2>1, <2>2 DEF Folding
    <2> QED BY <2>3
  <1> HIDE DEF Folded, F, N, jobs
  <1>7. PICK it : Folded(it) /\ ListingOf(d) = it[1 .. N]
    <2>1. Folded(CHOOSE it : Folded(it))
      BY <1>6
    <2> QED BY <1>1, <1>3, <2>1
  <1> DEFINE T == {k \in 0 .. N : it[1 .. k] \in Seq(L)}
  <1>8. 0 \in T
    <2>1. it[{}] = <<>> /\ 1 .. 0 = {}
      BY <1>7 DEF Folded
    <2>2. 0 \in 0 .. N /\ it[1 .. 0] = <<>>
      BY <1>1, <2>1
    <2> QED BY <1>1, <2>2
  <1>9. ASSUME NEW k \in 0 .. N, k \in T, k < N PROVE k + 1 \in T
    <2>1. PICK s \in SUBSET (1 .. N) : s = 1 .. (k + 1) /\ s # {} /\ Max(s) = k + 1 /\ s \ {k + 1} = 1 .. k
      <3>1. k + 1 \in 1 .. N /\ (k + 1) - 1 = k
        BY <1>1, <1>9
      <3> QED BY <1>1, <3>1, FirstIndices
    <2>2. it[s] = Longer(it[1 .. k], jobs[k + 1])
      <3>1. \A x \in SUBSET (1 .. N) : it[x] = IF x = {} THEN <<>> ELSE Longer(it[x \ {Max(x)}], jobs[Max(x)])
        BY <1>1, <1>7 DEF Folded
      <3>2. it[s] = Longer(it[s \ {Max(s)}], jobs[Max(s)])
        BY <2>1, <3>1
      <3> QED BY <2>1, <3>2
    <2>3. k + 1 \in 1 .. N /\ k + 1 \in 0 .. N /\ it[1 .. k] \in Seq(L)
      BY <1>1, <1>9
    <2> QED BY <1>4, <2>1, <2>2, <2>3
  <1> HIDE DEF T
  <1>10. N \in T
    <2>1. 0 .. N \subseteq T
      BY <1>1, <1>8, <1>9, SetInduction
    <2> QED BY <1>1, <2>1
  <1> QED BY <1>7, <1>10 DEF T, L

-----------------------------------------------------------------------------
(* The inductive invariant.                                                  *)

OccurrenceRow == [id : Nat, job : OldPosting, kind : {"discovered", "reposted"}]
EventRow == [job : OldPosting, occ : Nat, at : Nat, processed : BOOLEAN]
MatchRow == [id : Nat, user : Subscribed, job : OldPosting, occ : Nat, at : Nat]

RowsTyped ==
    /\ version \in {"postings", "occurrences"}
    /\ occurrence \subseteq OccurrenceRow /\ IsFiniteSet(occurrence)
    /\ event \subseteq EventRow /\ IsFiniteSet(event)
    /\ match \subseteq MatchRow /\ IsFiniteSet(match)
    /\ sequences \in [occurrence : Nat, match : Nat]

\* in the older schema nothing has an occurrence
OlderRows == version = "postings" => occurrence = {} /\ \A r \in event \cup match : r.occ = 0

EventKeys == \A e, f \in event : (e.occ = f.occ /\ (version = "postings" => e.job = f.job)) => e = f

MatchKeys == \A r, s \in match :
    (r.id = s.id \/ (r.user = s.user /\ r.occ = s.occ /\ (version = "postings" => r.job = s.job))) => r = s

OccurrenceKeys == version = "occurrences" =>
    /\ \A r, s \in occurrence : r.id = s.id => r = s
    /\ \A r \in event \cup match : \E o \in occurrence : o.id = r.occ /\ o.job = r.job

Listings == version = "occurrences" => \A d \in Deliveries :
    \A i \in DOMAIN listing[d] : \E o \in occurrence :
        o.id = listing[d][i] /\ \E k \in DOMAIN d.jobs : d.jobs[k] = o.job

\* what was reposted since the upgrade is later than what it found
FirstsAreOlder == \A x, y \in event \cup match : First(x.occ) /\ ~First(y.occ) => x.at < y.at

OneFirst == \A r, s \in occurrence :
    r.kind = "discovered" /\ s.kind = "discovered" /\ r.job = s.job => r = s

MigrationInv ==
    /\ RowsTyped /\ OlderRows /\ EventKeys /\ MatchKeys /\ OccurrenceKeys /\ Listings /\ FirstsAreOlder /\ OneFirst
    /\ FreeIds

LEMMA KeysFollow == MigrationInv => FreeIds /\ KeysHold
  BY DEF MigrationInv, EventKeys, MatchKeys, OccurrenceKeys, Listings, KeysHold

LEMMA MigrationStart == MigrationInit => MigrationInv
  <1> SUFFICES ASSUME MigrationInit PROVE MigrationInv
    OBVIOUS
  <1>1. version = "postings" /\ occurrence = {}
    BY DEF MigrationInit
  <1>2. PICK found \in SUBSET OldPosting, seen \in SUBSET OldPosting :
          /\ seen \subseteq found
          /\ event = {[job |-> j, occ |-> 0, at |-> 0, processed |-> j \in seen] : j \in found}
          /\ \E pairs \in SUBSET (Subscribed \X seen) : \E order \in SetToSeqs(pairs) :
               match = {[id |-> i, user |-> order[i][1], job |-> order[i][2], occ |-> 0, at |-> 0] :
                          i \in 1 .. Len(order)}
    BY DEF MigrationInit
  <1>3. PICK pairs \in SUBSET (Subscribed \X seen) : \E order \in SetToSeqs(pairs) :
          match = {[id |-> i, user |-> order[i][1], job |-> order[i][2], occ |-> 0, at |-> 0] :
                     i \in 1 .. Len(order)}
    BY <1>2
  <1>4. PICK order \in SetToSeqs(pairs) :
          match = {[id |-> i, user |-> order[i][1], job |-> order[i][2], occ |-> 0, at |-> 0] :
                     i \in 1 .. Len(order)}
    BY <1>3
  <1>5. IsFiniteSet(pairs)
    <2>1. IsFiniteSet(Subscribed) /\ IsFiniteSet(seen)
      BY MigrationAssumption, FS_Subset
    <2>2. IsFiniteSet(Subscribed \X seen)
      BY <2>1, FS_Product
    <2> QED BY <2>2, FS_Subset
  <1> PICK n \in Nat : n = Cardinality(pairs)
    BY <1>5, FS_CardinalityType
  <1>6. n \in Nat /\ order \in [1 .. n -> pairs] /\ Len(order) = n /\ \A i, j \in 1 .. n : i # j => order[i] # order[j]
    <2>1. order \in {g \in [1 .. n -> pairs] : \A i, j \in 1 .. n : i # j => g[i] # g[j]}
      BY DEF SetToSeqs
    <2>2. order \in Seq(pairs) /\ DOMAIN order = 1 .. n
      BY <2>1
    <2>3. Len(order) = n
      BY <2>2, LenProperties
    <2> QED BY <2>1, <2>3
  <1> DEFINE Row(i) == [id |-> i, user |-> order[i][1], job |-> order[i][2], occ |-> 0, at |-> 0]
  <1>7. match = {Row(i) : i \in 1 .. n}
    BY <1>4, <1>6
  <1>8. \A i \in 1 .. n : order[i][1] \in Subscribed /\ order[i][2] \in OldPosting /\ order[i] = <<order[i][1], order[i][2]>>
    BY <1>6
  <1>9. \A i \in 1 .. n : Row(i) \in MatchRow
    BY <1>8 DEF MatchRow
  <1>10. \A i \in 1 .. n : /\ Row(i).id = i /\ Row(i).user = order[i][1] /\ Row(i).job = order[i][2]
                           /\ Row(i).occ = 0 /\ Row(i).at = 0
    OBVIOUS
  <1> HIDE DEF Row
  <1>11. IsFiniteSet(match) /\ Cardinality(match) = n
    <2> DEFINE f == [i \in 1 .. n |-> Row(i)]
    <2>1. f \in Bijection(1 .. n, match)
      BY <1>7, <1>10 DEF Bijection, Injection, Surjection, IsInjective
    <2>2. ExistsBijection(1 .. n, match)
      BY <2>1 DEF ExistsBijection
    <2>3. IsFiniteSet(1 .. n) /\ Cardinality(1 .. n) = n
      BY <1>6, FS_Interval
    <2> QED BY <2>2, <2>3, FS_Bijection
  <1>12. event \subseteq EventRow /\ \A e \in event : e.occ = 0 /\ e.at = 0
    <2>1. \A j \in found : [job |-> j, occ |-> 0, at |-> 0, processed |-> j \in seen] \in EventRow
      BY DEF EventRow
    <2> QED BY <1>2, <2>1
  <1>13. IsFiniteSet(event)
    <2> DEFINE g == [j \in found |-> [job |-> j, occ |-> 0, at |-> 0, processed |-> j \in seen]]
    <2>1. g \in Surjection(found, event)
      BY <1>2 DEF Surjection
    <2>2. IsFiniteSet(found)
      BY MigrationAssumption, FS_Subset
    <2> HIDE DEF g
    <2> QED BY <2>1, <2>2, FS_Surjection
  <1>14. sequences = [occurrence |-> 1, match |-> n + 1]
    BY <1>11 DEF MigrationInit
  <1>15. RowsTyped
    <2>1. IsFiniteSet(occurrence)
      BY <1>1, FS_EmptySet
    <2>2. match \subseteq MatchRow
      BY <1>7, <1>9
    <2>3. sequences \in [occurrence : Nat, match : Nat]
      BY <1>14
    <2> QED BY <1>1, <1>11, <1>12, <1>13, <2>1, <2>2, <2>3 DEF RowsTyped
  <1>16. \A r \in match : \E i \in 1 .. n : r = Row(i)
    BY <1>7
  <1>17. OlderRows
    BY <1>1, <1>10, <1>12, <1>16 DEF OlderRows
  <1>18. EventKeys
    BY <1>1, <1>2 DEF EventKeys
  <1>19. MatchKeys
    <2> SUFFICES ASSUME NEW r \in match, NEW s \in match,
                        r.id = s.id \/ (r.user = s.user /\ r.job = s.job)
                 PROVE  r = s
      BY <1>1 DEF MatchKeys
    <2>1. PICK i \in 1 .. n : r = Row(i)
      BY <1>16
    <2>2. PICK j \in 1 .. n : s = Row(j)
      BY <1>16
    <2>3. i = j
      <3>1. r.id = i /\ s.id = j /\ r.user = order[i][1] /\ s.user = order[j][1] /\ r.job = order[i][2] /\ s.job = order[j][2]
        BY <1>10, <2>1, <2>2
      <3>2. CASE r.id = s.id
        BY <3>1, <3>2
      <3>3. CASE r.user = s.user /\ r.job = s.job
        <4>1. order[i] = order[j]
          BY <1>8, <3>1, <3>3
        <4> QED BY <1>6, <4>1
      <3> QED BY <3>2, <3>3
    <2> QED BY <2>1, <2>2, <2>3
  <1>20. OccurrenceKeys /\ Listings
    BY <1>1 DEF OccurrenceKeys, Listings
  <1>21. FirstsAreOlder
    BY <1>1 DEF FirstsAreOlder, First
  <1>22. FreeIds
    <2>1. \A r \in match : r.id < n + 1
      BY <1>10, <1>16
    <2> QED BY <1>1, <1>14, <2>1 DEF FreeIds
  <1>23. OneFirst
    BY <1>1 DEF OneFirst
  <1> QED BY <1>15, <1>17, <1>18, <1>19, <1>20, <1>21, <1>22, <1>23 DEF MigrationInv

-----------------------------------------------------------------------------
(* The upgrade.                                                              *)

LEMMA KeyedRows ==
    ASSUME NEW r \in EventRow \cup MatchRow
    PROVE  LET k == [r EXCEPT !.occ = OccurrenceOf(r.job)]
           IN  /\ r \in EventRow => k \in EventRow /\ k.processed = r.processed
               /\ r \in MatchRow => k \in MatchRow /\ k.id = r.id /\ k.user = r.user
               /\ k.job = r.job /\ k.at = r.at /\ k.occ = OccurrenceOf(r.job)
  <1>1. OccurrenceOf(r.job) \in Nat
    BY OccurrencesDiffer DEF EventRow, MatchRow
  <1>2. CASE r \in EventRow
    BY <1>1, <1>2 DEF EventRow, MatchRow
  <1>3. CASE r \in MatchRow
    BY <1>1, <1>3 DEF EventRow, MatchRow
  <1> QED BY <1>2, <1>3

\* a key of a row becomes the occurrence of its posting
Rekeyed(r) == [r EXCEPT !.occ = OccurrenceOf(r.job)]

LEMMA UpgradeKeeps ==
    ASSUME MigrationInv, Upgrade
    PROVE  MigrationInv' /\ Pairs' = Pairs /\ {e.job : e \in event'} = {e.job : e \in event} /\ Pending' = Pending
  <1>1. /\ version = "postings" /\ version' = "occurrences"
        /\ occurrence' = Backfilled
        /\ event' = {Rekeyed(r) : r \in event} /\ match' = {Rekeyed(r) : r \in match}
        /\ listing' = [d \in Deliveries |-> ListingOf(d)]
        /\ sequences' = [occurrence |-> PastIds(occurrence', 1, "occurrence"), match |-> PastIds(match', 1, "match")]
    BY DEF Upgrade, Keyed, Rekeyed
  <1>2. /\ event \subseteq EventRow /\ IsFiniteSet(event) /\ match \subseteq MatchRow /\ IsFiniteSet(match)
        /\ \A r \in event \cup match : r.occ = 0
    BY <1>1 DEF MigrationInv, RowsTyped, OlderRows
  <1>3. \A r \in event : /\ Rekeyed(r) \in EventRow /\ Rekeyed(r).processed = r.processed /\ Rekeyed(r).job = r.job
                         /\ Rekeyed(r).at = r.at /\ Rekeyed(r).occ = OccurrenceOf(r.job) /\ r.job \in OldPosting
    BY <1>2, KeyedRows DEF Rekeyed, EventRow
  <1>4. \A r \in match : /\ Rekeyed(r) \in MatchRow /\ Rekeyed(r).id = r.id /\ Rekeyed(r).user = r.user
                         /\ Rekeyed(r).job = r.job /\ Rekeyed(r).at = r.at
                         /\ Rekeyed(r).occ = OccurrenceOf(r.job) /\ r.job \in OldPosting
    BY <1>2, KeyedRows DEF Rekeyed, MatchRow
  <1>5. IsFiniteSet(event') /\ IsFiniteSet(match')
    <2>1. [r \in event |-> Rekeyed(r)] \in Surjection(event, event')
      BY <1>1 DEF Surjection
    <2>2. [r \in match |-> Rekeyed(r)] \in Surjection(match, match')
      BY <1>1 DEF Surjection
    <2> QED BY <1>2, <2>1, <2>2, FS_Surjection
  <1> DEFINE Back(j) == [id |-> OccurrenceOf(j), job |-> j, kind |-> "discovered"]
  <1>6. \A j \in OldPosting : Back(j) \in OccurrenceRow /\ Back(j).id = OccurrenceOf(j) /\ Back(j).job = j
                              /\ Back(j).kind = "discovered"
    BY OccurrencesDiffer DEF OccurrenceRow
  <1>7. occurrence' = {Back(j) : j \in OldPosting}
    BY <1>1 DEF Backfilled
  <1>8. IsFiniteSet(occurrence')
    <2>1. [j \in OldPosting |-> Back(j)] \in Surjection(OldPosting, occurrence')
      BY <1>7 DEF Surjection
    <2> QED BY <2>1, FS_Surjection, MigrationAssumption
  <1> HIDE DEF Back
  <1>9. \A o \in occurrence' : o \in OccurrenceRow /\ o.kind = "discovered" /\ \E j \in OldPosting : o = Back(j)
    BY <1>6, <1>7
  <1>10. \A j \in OldPosting : \E o \in occurrence' : o.id = OccurrenceOf(j) /\ o.job = j /\ o.kind = "discovered"
    BY <1>6, <1>7
  <1>11. sequences' \in [occurrence : Nat, match : Nat] /\ FreeIds'
    <2>1. (\A r \in occurrence' : r.id \in Nat) /\ \A r \in match' : r.id \in Nat
      BY <1>1, <1>4, <1>9 DEF OccurrenceRow, MatchRow
    <2>2. PastIds(occurrence', 1, "occurrence") \in Nat /\ \A r \in occurrence' : r.id < PastIds(occurrence', 1, "occurrence")
      BY <1>8, <2>1, PastEveryId
    <2>3. PastIds(match', 1, "match") \in Nat /\ \A r \in match' : r.id < PastIds(match', 1, "match")
      BY <1>5, <2>1, PastEveryId
    <2>4. sequences'.occurrence = PastIds(occurrence', 1, "occurrence") /\ sequences'.match = PastIds(match', 1, "match")
      BY <1>1
    <2> QED BY <1>1, <2>2, <2>3, <2>4 DEF FreeIds
  <1>12. RowsTyped'
    <2>1. occurrence' \subseteq OccurrenceRow
      BY <1>9
    <2>2. event' \subseteq EventRow /\ match' \subseteq MatchRow
      BY <1>1, <1>3, <1>4
    <2> QED BY <1>1, <1>5, <1>8, <1>11, <2>1, <2>2 DEF RowsTyped
  <1>13. OlderRows'
    BY <1>1 DEF OlderRows
  <1>14. EventKeys'
    <2> SUFFICES ASSUME NEW e \in event', NEW f \in event', e.occ = f.occ PROVE e = f
      BY <1>1 DEF EventKeys
    <2>1. PICK r \in event : e = Rekeyed(r)
      BY <1>1
    <2>2. PICK s \in event : f = Rekeyed(s)
      BY <1>1
    <2>3. r.job = s.job
      BY <1>3, <2>1, <2>2, OccurrencesDiffer
    <2>4. r = s
      BY <1>1, <1>2, <2>3 DEF MigrationInv, EventKeys
    <2> QED BY <2>1, <2>2, <2>4
  <1>15. MatchKeys'
    <2> SUFFICES ASSUME NEW e \in match', NEW f \in match', e.id = f.id \/ (e.user = f.user /\ e.occ = f.occ) PROVE e = f
      BY <1>1 DEF MatchKeys
    <2>1. PICK r \in match : e = Rekeyed(r)
      BY <1>1
    <2>2. PICK s \in match : f = Rekeyed(s)
      BY <1>1
    <2>3. r.id = s.id \/ (r.user = s.user /\ r.job = s.job)
      BY <1>4, <2>1, <2>2, OccurrencesDiffer
    <2>4. r = s
      BY <1>1, <1>2, <2>3 DEF MigrationInv, MatchKeys
    <2> QED BY <2>1, <2>2, <2>4
  <1>16. OccurrenceKeys'
    <2>1. ASSUME NEW r \in occurrence', NEW s \in occurrence', r.id = s.id PROVE r = s
      <3>1. PICK i \in OldPosting : r = Back(i)
        BY <1>9
      <3>2. PICK j \in OldPosting : s = Back(j)
        BY <1>9
      <3>3. i = j
        BY <1>6, <2>1, <3>1, <3>2, OccurrencesDiffer
      <3> QED BY <3>1, <3>2, <3>3
    <2>2. ASSUME NEW x \in event' \cup match' PROVE \E o \in occurrence' : o.id = x.occ /\ o.job = x.job
      <3>1. PICK r \in event \cup match : x = Rekeyed(r)
        BY <1>1
      <3>2. x.occ = OccurrenceOf(r.job) /\ x.job = r.job /\ r.job \in OldPosting
        BY <1>3, <1>4, <3>1
      <3> QED BY <1>10, <3>2
    <2> QED BY <2>1, <2>2 DEF OccurrenceKeys
  <1>17. Listings'
    <2> SUFFICES ASSUME NEW d \in Deliveries, NEW i \in DOMAIN listing'[d]
                 PROVE  \E o \in occurrence' : o.id = listing'[d][i] /\ \E k \in DOMAIN d.jobs : d.jobs[k] = o.job
      BY DEF Listings
    <2>1. listing'[d] = ListingOf(d) /\ ListingOf(d) \in Seq(ListedOf(d))
      BY <1>1, ListingNames
    <2>2. listing'[d][i] \in ListedOf(d)
      BY <2>1
    <2>3. PICK j \in OldPosting : listing'[d][i] = OccurrenceOf(j) /\ \E k \in DOMAIN d.jobs : d.jobs[k] = j
      BY <2>2 DEF ListedOf
    <2> QED BY <1>10, <2>3
  <1>18. FirstsAreOlder'
    <2>1. \A y \in event' \cup match' : \E o \in occurrence' : o.id = y.occ /\ o.kind = "discovered"
      BY <1>9, <1>16, <1>1 DEF OccurrenceKeys
    <2> QED BY <2>1 DEF FirstsAreOlder, First
  <1>23. OneFirst'
    BY <1>6, <1>9 DEF OneFirst
  <1>19. MigrationInv'
    BY <1>11, <1>12, <1>13, <1>14, <1>15, <1>16, <1>17, <1>18, <1>23 DEF MigrationInv
  <1>20. {e.job : e \in event'} = {e.job : e \in event}
    BY <1>1, <1>3
  <1>21. Pairs' = Pairs
    <2>1. Pairs' = {<<r.user, r.job>> : r \in match'}
      BY DEF Pairs
    <2> QED BY <1>1, <1>4, <2>1 DEF Pairs
  <1>22. Pending' = Pending
    <2>1. Pending' = {e.job : e \in {f \in event' : ~f.processed}}
      BY DEF Pending
    <2> QED BY <1>1, <1>3, <2>1 DEF Pending
  <1> QED BY <1>19, <1>20, <1>21, <1>22

-----------------------------------------------------------------------------
(* The downgrade.                                                            *)

\* of rows in the order of time and of a number one comes first
LEMMA Leftmost ==
    ASSUME NEW S, S # {}, NEW tie \in [S -> Nat], \A x \in S : x.at \in Nat
    PROVE  \E x \in S : \A q \in S : ~Displaced(x, q, tie[x], tie[q])
  <1> DEFINE times == {x.at : x \in S}
  <1>1. times \in SUBSET Nat /\ times # {}
    OBVIOUS
  <1>2. PICK a \in times : \A m \in times : a <= m
    <2> HIDE DEF times
    <2> QED BY <1>1, LeastNatural
  <1> DEFINE early == {x \in S : x.at = a}
             ties == {tie[x] : x \in early}
  <1>3. ties \in SUBSET Nat /\ ties # {} /\ a \in Nat
    BY <1>1, <1>2
  <1>4. PICK b \in ties : \A m \in ties : b <= m
    <2> HIDE DEF ties
    <2> QED BY <1>3, LeastNatural
  <1>5. PICK x \in early : tie[x] = b
    BY <1>4
  <1>6. ASSUME NEW q \in S PROVE ~Displaced(x, q, tie[x], tie[q])
    <2>1. q.at \in times /\ x.at = a /\ q.at \in Nat /\ a \in Nat
      BY <1>1, <1>3, <1>5
    <2>2. ~(q.at < a)
      <3> HIDE DEF times
      <3>1. a <= q.at
        BY <1>2, <2>1
      <3> QED BY <2>1, <3>1
    <2>3. q.at = a => tie[q] \in ties
      OBVIOUS
    <2>4. q.at = a => b <= tie[q] /\ b \in Nat /\ tie[q] \in Nat
      BY <1>3, <1>4, <2>3
    <2> HIDE DEF times, ties, early
    <2>5. q.at = a => ~(tie[q] < tie[x])
      BY <1>5, <2>4
    <2> QED BY <2>1, <2>2, <2>5 DEF Displaced
  <1> QED BY <1>5, <1>6

\* a row as the older schema keeps it
Unkeyed(r) == [r EXCEPT !.job = JobOf(r.occ), !.occ = 0]

LEMMA RowsOfPostings ==
    ASSUME MigrationInv, version = "occurrences"
    PROVE  /\ \A r \in event \cup match : JobOf(r.occ) = r.job /\ \E o \in occurrence : o.id = r.occ /\ o.job = r.job
           /\ \A x, y \in event \cup match : First(x.occ) /\ First(y.occ) /\ x.job = y.job => x.occ = y.occ
  <1>1. \A r, s \in occurrence : r.id = s.id => r = s
    BY DEF MigrationInv, OccurrenceKeys
  <1>2. \A r \in event \cup match : \E o \in occurrence : o.id = r.occ /\ o.job = r.job
    BY DEF MigrationInv, OccurrenceKeys
  <1>3. ASSUME NEW r \in event \cup match PROVE JobOf(r.occ) = r.job
    <2>1. PICK o \in occurrence : o.id = r.occ /\ o.job = r.job
      BY <1>2
    <2> DEFINE found == CHOOSE s \in occurrence : s.id = r.occ
    <2>2. found \in occurrence /\ found.id = r.occ
      BY <2>1
    <2> HIDE DEF found
    <2>3. found = o
      BY <1>1, <2>1, <2>2
    <2> QED BY <2>1, <2>3 DEF JobOf, found
  <1>4. ASSUME NEW x \in event \cup match, NEW y \in event \cup match, First(x.occ), First(y.occ), x.job = y.job
        PROVE  x.occ = y.occ
    <2>1. PICK o \in occurrence : o.id = x.occ /\ o.job = x.job
      BY <1>2
    <2>2. PICK p \in occurrence : p.id = y.occ /\ p.job = y.job
      BY <1>2
    <2>3. o.kind = "discovered" /\ p.kind = "discovered"
      BY <1>1, <1>4, <2>1, <2>2 DEF First
    <2> QED BY <1>4, <2>1, <2>2, <2>3 DEF MigrationInv, OneFirst
  <1> QED BY <1>2, <1>3, <1>4

LEMMA UnkeyedRows ==
    ASSUME MigrationInv, version = "occurrences", NEW r \in event \cup match
    PROVE  /\ r \in event => Unkeyed(r) \in EventRow
           /\ r \in match => Unkeyed(r) \in MatchRow /\ Unkeyed(r).id = r.id /\ Unkeyed(r).user = r.user
           /\ Unkeyed(r).job = r.job /\ Unkeyed(r).at = r.at /\ Unkeyed(r).occ = 0
           /\ Unkeyed(r) = [r EXCEPT !.occ = 0]
  <1>1. JobOf(r.occ) = r.job
    BY RowsOfPostings
  <1>2. r \in EventRow \cup MatchRow
    BY DEF MigrationInv, RowsTyped
  <1>3. CASE r \in event
    <2>1. r \in EventRow
      BY <1>3 DEF MigrationInv, RowsTyped
    <2>2. r \in match => r \in MatchRow
      BY DEF MigrationInv, RowsTyped
    <2> QED BY <1>1, <2>1, <2>2 DEF Unkeyed, EventRow, MatchRow
  <1>4. CASE r \notin event
    <2>1. r \in MatchRow
      BY <1>4 DEF MigrationInv, RowsTyped
    <2> QED BY <1>1, <1>4, <2>1 DEF Unkeyed, EventRow, MatchRow
  <1> QED BY <1>3, <1>4

StaysEvent(x) == ~\E q \in event : x.job = q.job /\ Displaced(x, q, x.occ, q.occ)
StaysMatch(x) == ~\E q \in match : x.user = q.user /\ x.job = q.job /\ Displaced(x, q, x.id, q.id)

LEMMA KeptAre ==
    ASSUME MigrationInv, version = "occurrences"
    PROVE  /\ KeptEvents = {Unkeyed(r) : r \in {x \in event : StaysEvent(x)}}
           /\ KeptMatches = {Unkeyed(r) : r \in {x \in match : StaysMatch(x)}}
  <1>1. \A r \in event \cup match : JobOf(r.occ) = r.job
    BY RowsOfPostings
  <1>2. {x \in event : ~\E q \in event : JobOf(x.occ) = JobOf(q.occ) /\ Displaced(x, q, x.occ, q.occ)}
          = {x \in event : StaysEvent(x)}
    BY <1>1 DEF StaysEvent
  <1>3. {x \in match : ~\E q \in match : (x.user = q.user /\ JobOf(x.occ) = JobOf(q.occ)) /\ Displaced(x, q, x.id, q.id)}
          = {x \in match : StaysMatch(x)}
    BY <1>1 DEF StaysMatch
  <1>4. KeptEvents = {Unkeyed(r) : r \in {x \in event : ~\E q \in event : JobOf(x.occ) = JobOf(q.occ)
                                                             /\ Displaced(x, q, x.occ, q.occ)}}
    BY DEF KeptEvents, Unkeyed
  <1>5. KeptMatches = {Unkeyed(r) : r \in {x \in match : ~\E q \in match :
                         (x.user = q.user /\ JobOf(x.occ) = JobOf(q.occ)) /\ Displaced(x, q, x.id, q.id)}}
    BY DEF KeptMatches, Unkeyed
  <1> QED BY <1>2, <1>3, <1>4, <1>5

\* of every key a row stays, and never two
LEMMA OneStays ==
    ASSUME MigrationInv, version = "occurrences"
    PROVE  /\ \A e \in event : \E x \in event : StaysEvent(x) /\ x.job = e.job
           /\ \A r \in match : \E x \in match : StaysMatch(x) /\ x.job = r.job /\ x.user = r.user
           /\ \A x, y \in event : StaysEvent(x) /\ StaysEvent(y) /\ x.job = y.job => x = y
           /\ \A x, y \in match : StaysMatch(x) /\ StaysMatch(y) /\ x.job = y.job /\ x.user = y.user => x = y
           /\ \A e \in event : First(e.occ) => StaysEvent(e)
           /\ \A r \in match : First(r.occ) => StaysMatch(r)
  <1>1. /\ \A e \in event : e.at \in Nat /\ e.occ \in Nat
        /\ \A r \in match : r.at \in Nat /\ r.id \in Nat
    BY DEF MigrationInv, RowsTyped, EventRow, MatchRow
  <1>2. ASSUME NEW e \in event PROVE \E x \in event : StaysEvent(x) /\ x.job = e.job
    <2> DEFINE S == {q \in event : q.job = e.job}
               tie == [q \in S |-> q.occ]
    <2>1. S # {} /\ tie \in [S -> Nat] /\ \A x \in S : x.at \in Nat
      BY <1>1
    <2>2. PICK x \in S : \A q \in S : ~Displaced(x, q, tie[x], tie[q])
      <3> HIDE DEF S, tie
      <3> QED BY <2>1, Leftmost
    <2>3. \A q \in S : ~Displaced(x, q, x.occ, q.occ)
      BY <2>2
    <2> QED BY <2>3 DEF StaysEvent
  <1>3. ASSUME NEW r \in match PROVE \E x \in match : StaysMatch(x) /\ x.job = r.job /\ x.user = r.user
    <2> DEFINE S == {q \in match : q.job = r.job /\ q.user = r.user}
               tie == [q \in S |-> q.id]
    <2>1. S # {} /\ tie \in [S -> Nat] /\ \A x \in S : x.at \in Nat
      BY <1>1
    <2>2. PICK x \in S : \A q \in S : ~Displaced(x, q, tie[x], tie[q])
      <3> HIDE DEF S, tie
      <3> QED BY <2>1, Leftmost
    <2>3. \A q \in S : ~Displaced(x, q, x.id, q.id)
      BY <2>2
    <2> QED BY <2>3 DEF StaysMatch
  <1>4. ASSUME NEW x \in event, NEW y \in event, StaysEvent(x), StaysEvent(y), x.job = y.job PROVE x = y
    <2>1. ~Displaced(x, y, x.occ, y.occ) /\ ~Displaced(y, x, y.occ, x.occ)
      BY <1>4 DEF StaysEvent
    <2>2. x.occ = y.occ
      BY <1>1, <2>1 DEF Displaced
    <2> QED BY <1>4, <2>2 DEF MigrationInv, EventKeys
  <1>5. ASSUME NEW x \in match, NEW y \in match, StaysMatch(x), StaysMatch(y), x.job = y.job, x.user = y.user PROVE x = y
    <2>1. ~Displaced(x, y, x.id, y.id) /\ ~Displaced(y, x, y.id, x.id)
      BY <1>5 DEF StaysMatch
    <2>2. x.id = y.id
      BY <1>1, <2>1 DEF Displaced
    <2> QED BY <2>2 DEF MigrationInv, MatchKeys
  <1>6. ASSUME NEW e \in event, First(e.occ), NEW q \in event, e.job = q.job PROVE ~Displaced(e, q, e.occ, q.occ)
    <2>1. CASE First(q.occ)
      <3>1. e.occ = q.occ
        BY <1>6, <2>1, RowsOfPostings
      <3>2. e = q
        BY <1>6, <3>1 DEF MigrationInv, EventKeys
      <3> QED BY <1>1, <3>2 DEF Displaced
    <2>2. CASE ~First(q.occ)
      <3>1. e.at < q.at
        BY <1>6, <2>2 DEF MigrationInv, FirstsAreOlder
      <3> QED BY <1>1, <3>1 DEF Displaced
    <2> QED BY <2>1, <2>2
  <1>7. ASSUME NEW e \in match, First(e.occ), NEW q \in match, e.job = q.job, e.user = q.user
        PROVE  ~Displaced(e, q, e.id, q.id)
    <2>1. CASE First(q.occ)
      <3>1. e.occ = q.occ
        BY <1>7, <2>1, RowsOfPostings
      <3>2. e = q
        BY <1>7, <3>1 DEF MigrationInv, MatchKeys
      <3> QED BY <1>1, <3>2 DEF Displaced
    <2>2. CASE ~First(q.occ)
      <3>1. e.at < q.at
        BY <1>7, <2>2 DEF MigrationInv, FirstsAreOlder
      <3> QED BY <1>1, <3>1 DEF Displaced
    <2> QED BY <2>1, <2>2
  <1> QED BY <1>2, <1>3, <1>4, <1>5, <1>6, <1>7 DEF StaysEvent, StaysMatch

LEMMA DowngradeKeeps ==
    ASSUME MigrationInv, Downgrade
    PROVE  /\ MigrationInv' /\ Pairs' = Pairs /\ {e.job : e \in event'} = {e.job : e \in event}
           /\ \A e \in event : First(e.occ) => [e EXCEPT !.occ = 0] \in event'
           /\ \A r \in match : First(r.occ) => [r EXCEPT !.occ = 0] \in match'
  <1> DEFINE events == {x \in event : StaysEvent(x)}
             matches == {x \in match : StaysMatch(x)}
  <1>1. /\ version = "occurrences" /\ version' = "postings"
        /\ occurrence' = {} /\ listing' = Unlisted
        /\ sequences' = [occurrence |-> 1, match |-> PastIds(match', 1, "match")]
        /\ event' = {Unkeyed(r) : r \in events} /\ match' = {Unkeyed(r) : r \in matches}
    BY KeptAre DEF Downgrade
  <1>2. \A r \in event : Unkeyed(r) \in EventRow /\ Unkeyed(r).job = r.job /\ Unkeyed(r).occ = 0
                         /\ Unkeyed(r) = [r EXCEPT !.occ = 0]
    BY <1>1, UnkeyedRows
  <1>3. \A r \in match : Unkeyed(r) \in MatchRow /\ Unkeyed(r).job = r.job /\ Unkeyed(r).occ = 0
                         /\ Unkeyed(r).id = r.id /\ Unkeyed(r).user = r.user /\ Unkeyed(r) = [r EXCEPT !.occ = 0]
    BY <1>1, UnkeyedRows
  <1>4. IsFiniteSet(events) /\ IsFiniteSet(matches)
    BY FS_Subset DEF MigrationInv, RowsTyped
  <1>5. /\ \A e \in event : \E x \in events : x.job = e.job
        /\ \A r \in match : \E x \in matches : x.job = r.job /\ x.user = r.user
        /\ \A x, y \in events : x.job = y.job => x = y
        /\ \A x, y \in matches : x.job = y.job /\ x.user = y.user => x = y
        /\ \A e \in event : First(e.occ) => e \in events
        /\ \A r \in match : First(r.occ) => r \in matches
    BY <1>1, OneStays
  <1>6. events \subseteq event /\ matches \subseteq match
    OBVIOUS
  <1> HIDE DEF events, matches
  <1>7. IsFiniteSet(event') /\ IsFiniteSet(match')
    <2>1. [r \in events |-> Unkeyed(r)] \in Surjection(events, event')
      BY <1>1 DEF Surjection
    <2>2. [r \in matches |-> Unkeyed(r)] \in Surjection(matches, match')
      BY <1>1 DEF Surjection
    <2> QED BY <1>4, <2>1, <2>2, FS_Surjection
  <1>8. \A r \in match' : r.id \in Nat
    BY <1>1, <1>3, <1>6 DEF MatchRow
  <1>9. PastIds(match', 1, "match") \in Nat /\ \A r \in match' : r.id < PastIds(match', 1, "match")
    BY <1>7, <1>8, PastEveryId
  <1>10. RowsTyped'
    <2>1. event' \subseteq EventRow /\ match' \subseteq MatchRow
      BY <1>1, <1>2, <1>3, <1>6
    <2>2. IsFiniteSet(occurrence')
      BY <1>1, FS_EmptySet
    <2>3. sequences' \in [occurrence : Nat, match : Nat]
      BY <1>1, <1>9
    <2> QED BY <1>1, <1>7, <2>1, <2>2, <2>3 DEF RowsTyped
  <1>11. OlderRows'
    BY <1>1, <1>2, <1>3, <1>6 DEF OlderRows
  <1>12. EventKeys'
    <2> SUFFICES ASSUME NEW e \in event', NEW f \in event', e.job = f.job PROVE e = f
      BY <1>1 DEF EventKeys
    <2>1. PICK x \in events : e = Unkeyed(x)
      BY <1>1
    <2>2. PICK y \in events : f = Unkeyed(y)
      BY <1>1
    <2> QED BY <1>2, <1>5, <1>6, <2>1, <2>2
  <1>13. MatchKeys'
    <2> SUFFICES ASSUME NEW r \in match', NEW s \in match', r.id = s.id \/ (r.user = s.user /\ r.job = s.job) PROVE r = s
      BY <1>1 DEF MatchKeys
    <2>1. PICK x \in matches : r = Unkeyed(x)
      BY <1>1
    <2>2. PICK y \in matches : s = Unkeyed(y)
      BY <1>1
    <2>3. CASE r.id = s.id
      <3>1. x.id = y.id
        BY <1>3, <1>6, <2>1, <2>2, <2>3
      <3>2. x = y
        BY <1>6, <3>1 DEF MigrationInv, MatchKeys
      <3> QED BY <2>1, <2>2, <3>2
    <2>4. CASE r.user = s.user /\ r.job = s.job
      BY <1>3, <1>5, <1>6, <2>1, <2>2, <2>4
    <2> QED BY <2>3, <2>4
  <1>14. OccurrenceKeys' /\ Listings' /\ OneFirst'
    BY <1>1 DEF OccurrenceKeys, Listings, OneFirst
  <1>15. FirstsAreOlder'
    BY <1>1 DEF FirstsAreOlder, First
  <1>16. FreeIds'
    BY <1>1, <1>9 DEF FreeIds
  <1>17. MigrationInv'
    BY <1>10, <1>11, <1>12, <1>13, <1>14, <1>15, <1>16 DEF MigrationInv
  <1>18. {e.job : e \in event'} = {e.job : e \in event}
    BY <1>1, <1>2, <1>5, <1>6
  <1>19. Pairs' = Pairs
    <2>1. Pairs' = {<<r.user, r.job>> : r \in match'}
      BY DEF Pairs
    <2>2. Pairs' = {<<r.user, r.job>> : r \in matches}
      BY <1>1, <1>3, <1>6, <2>1
    <2>3. \A p \in Pairs : p \in Pairs'
      BY <1>5, <2>2 DEF Pairs
    <2>4. \A p \in Pairs' : p \in Pairs
      BY <1>6, <2>2 DEF Pairs
    <2> QED BY <2>3, <2>4
  <1>20. \A e \in event : First(e.occ) => [e EXCEPT !.occ = 0] \in event'
    BY <1>1, <1>2, <1>5
  <1>21. \A r \in match : First(r.occ) => [r EXCEPT !.occ = 0] \in match'
    BY <1>1, <1>3, <1>5
  <1> QED BY <1>17, <1>18, <1>19, <1>20, <1>21

-----------------------------------------------------------------------------
(* The releases between migrations.                                          *)

LEMMA MomentIsLater ==
    ASSUME RowsTyped
    PROVE  Moment \in Nat /\ \A r \in event \cup match : r.at < Moment
  <1> DEFINE times == {r.at : r \in event \cup match}
  <1>1. times \in SUBSET Nat
    BY DEF RowsTyped, EventRow, MatchRow
  <1>2. IsFiniteSet(times)
    <2>1. IsFiniteSet(event \cup match)
      BY FS_Union DEF RowsTyped
    <2> QED BY <2>1, FiniteIds
  <1>3. \A r \in event \cup match : r.at \in times
    OBVIOUS
  <1>4. Moment = IF times = {} THEN 0 ELSE 1 + Max(times)
    BY DEF Moment
  <1> HIDE DEF times
  <1>5. times # {} => Max(times) \in Nat /\ \A n \in times : n <= Max(times) /\ n \in Nat
    BY <1>1, <1>2, FiniteMax
  <1> QED BY <1>3, <1>4, <1>5

LEMMA RepostKeeps ==
    ASSUME MigrationInv, NEW j \in OldPosting, RepostBetween(j)
    PROVE  MigrationInv'
  <1> DEFINE o == [id |-> sequences.occurrence, job |-> j, kind |-> "reposted"]
             e == [job |-> j, occ |-> sequences.occurrence, at |-> Moment, processed |-> FALSE]
  <1>1. /\ version = "occurrences" /\ version' = version /\ match' = match /\ listing' = listing
        /\ occurrence' = occurrence \cup {o} /\ event' = event \cup {e}
        /\ sequences' = [sequences EXCEPT !.occurrence = @ + 1]
    BY DEF RepostBetween
  <1>2. /\ occurrence \subseteq OccurrenceRow /\ IsFiniteSet(occurrence) /\ event \subseteq EventRow /\ IsFiniteSet(event)
        /\ match \subseteq MatchRow /\ sequences \in [occurrence : Nat, match : Nat]
    BY DEF MigrationInv, RowsTyped
  <1>3. Moment \in Nat /\ \A r \in event \cup match : r.at < Moment
    BY MomentIsLater DEF MigrationInv
  <1>4. o \in OccurrenceRow /\ o.id = sequences.occurrence /\ o.job = j /\ o.kind = "reposted"
    BY <1>2 DEF OccurrenceRow
  <1>5. e \in EventRow /\ e.job = j /\ e.occ = sequences.occurrence /\ e.at = Moment
    BY <1>2, <1>3 DEF EventRow
  <1> HIDE DEF o, e
  <1>6. \A r \in occurrence : r.id < sequences.occurrence /\ r.id \in Nat
    BY <1>2 DEF MigrationInv, FreeIds, OccurrenceRow
  <1>7. \A r \in event \cup match : \E q \in occurrence : q.id = r.occ /\ q.job = r.job
    BY <1>1 DEF MigrationInv, OccurrenceKeys
  <1>8. \A r \in event \cup match : r.occ # sequences.occurrence /\ r.occ \in Nat
    BY <1>2, <1>6, <1>7
  <1>9. RowsTyped'
    <2>1. IsFiniteSet(occurrence') /\ IsFiniteSet(event')
      BY <1>1, <1>2, FS_AddElement
    <2>2. occurrence' \subseteq OccurrenceRow /\ event' \subseteq EventRow
      BY <1>1, <1>2, <1>4, <1>5
    <2>3. sequences' \in [occurrence : Nat, match : Nat]
      BY <1>1, <1>2
    <2> QED BY <1>1, <2>1, <2>2, <2>3 DEF RowsTyped, MigrationInv
  <1>10. OlderRows'
    BY <1>1 DEF OlderRows
  <1>11. EventKeys'
    BY <1>1, <1>5, <1>8 DEF EventKeys, MigrationInv
  <1>12. MatchKeys'
    BY <1>1 DEF MatchKeys, MigrationInv
  <1>13. OccurrenceKeys'
    <2>1. ASSUME NEW r \in occurrence', NEW s \in occurrence', r.id = s.id PROVE r = s
      BY <1>1, <1>4, <1>6, <2>1 DEF OccurrenceKeys, MigrationInv
    <2>2. ASSUME NEW r \in event' \cup match' PROVE \E q \in occurrence' : q.id = r.occ /\ q.job = r.job
      BY <1>1, <1>4, <1>5, <1>7
    <2> QED BY <2>1, <2>2 DEF OccurrenceKeys
  <1>14. Listings'
    BY <1>1 DEF Listings, MigrationInv
  <1>15. OneFirst'
    BY <1>1, <1>4 DEF OneFirst, MigrationInv
  <1>16. FirstsAreOlder'
    <2>1. \A n : First(n)' <=> First(n)
      BY <1>1, <1>4 DEF First
    <2>2. ~First(e.occ)
      BY <1>5, <1>6 DEF First
    <2>3. ASSUME NEW x \in event' \cup match', NEW y \in event' \cup match', First(x.occ), ~First(y.occ)
          PROVE  x.at < y.at
      <3>1. x \in event \cup match
        BY <1>1, <2>2, <2>3
      <3>2. CASE y = e
        BY <1>3, <1>5, <3>1, <3>2
      <3>3. CASE y # e
        <4>1. y \in event \cup match
          BY <1>1, <3>3
        <4> QED BY <2>3, <3>1, <4>1 DEF MigrationInv, FirstsAreOlder
      <3> QED BY <3>2, <3>3
    <2> QED BY <2>1, <2>3 DEF FirstsAreOlder
  <1>17. FreeIds'
    BY <1>1, <1>2, <1>4, <1>6 DEF FreeIds, MigrationInv
  <1> QED BY <1>9, <1>10, <1>11, <1>12, <1>13, <1>14, <1>15, <1>16, <1>17 DEF MigrationInv

LEMMA MatchKeeps ==
    ASSUME MigrationInv, NEW e \in event, NEW u \in Subscribed, MatchBetween(e, u)
    PROVE  MigrationInv'
  <1> DEFINE m == [id |-> sequences.match, user |-> u, job |-> e.job, occ |-> e.occ, at |-> e.at]
             f == [e EXCEPT !.processed = TRUE]
  <1>1. /\ version' = version /\ occurrence' = occurrence /\ listing' = listing
        /\ match' = match \cup {m} /\ event' = (event \ {e}) \cup {f}
        /\ sequences' = [sequences EXCEPT !.match = @ + 1]
        /\ ~\E r \in match : r.user = u /\ r.job = e.job /\ r.occ = e.occ
    BY DEF MatchBetween
  <1>2. /\ event \subseteq EventRow /\ IsFiniteSet(event) /\ IsFiniteSet(match)
        /\ match \subseteq MatchRow /\ sequences \in [occurrence : Nat, match : Nat]
    BY DEF MigrationInv, RowsTyped
  <1>3. e \in EventRow
    BY <1>2
  <1>4. m \in MatchRow /\ m.id = sequences.match /\ m.user = u /\ m.job = e.job /\ m.occ = e.occ /\ m.at = e.at
    BY <1>2, <1>3 DEF EventRow, MatchRow
  <1>5. f \in EventRow /\ f.job = e.job /\ f.occ = e.occ /\ f.at = e.at
    BY <1>3 DEF EventRow
  <1> HIDE DEF m, f
  <1>6. \A r \in match : r.id < sequences.match /\ r.id \in Nat
    BY <1>2 DEF MigrationInv, FreeIds, MatchRow
  <1>7. \A x \in event' \cup match' : \E y \in event \cup match : x.job = y.job /\ x.occ = y.occ /\ x.at = y.at
    BY <1>1, <1>4, <1>5
  <1>8. RowsTyped'
    <2>1. IsFiniteSet(event') /\ IsFiniteSet(match')
      <3>1. IsFiniteSet(event \ {e})
        BY <1>2, FS_RemoveElement
      <3> QED BY <1>1, <1>2, <3>1, FS_AddElement
    <2>2. match' \subseteq MatchRow /\ event' \subseteq EventRow
      BY <1>1, <1>2, <1>4, <1>5
    <2>3. sequences' \in [occurrence : Nat, match : Nat]
      BY <1>1, <1>2
    <2> QED BY <1>1, <2>1, <2>2, <2>3 DEF RowsTyped, MigrationInv
  <1>9. OlderRows'
    BY <1>1, <1>7 DEF OlderRows, MigrationInv
  <1>10. EventKeys'
    BY <1>1, <1>5 DEF EventKeys, MigrationInv
  <1>11. MatchKeys'
    <2>1. \A r \in match : r.id # m.id
      BY <1>2, <1>4, <1>6
    <2>2. \A r \in match : ~(r.user = m.user /\ r.occ = m.occ /\ (version = "postings" => r.job = m.job))
      <3> SUFFICES ASSUME NEW r \in match, r.user = m.user, r.occ = m.occ, version = "postings" => r.job = m.job
                   PROVE  FALSE
        OBVIOUS
      <3>1. version \in {"postings", "occurrences"}
        BY DEF MigrationInv, RowsTyped
      <3>2. r.job = e.job
        <4>1. CASE version = "postings"
          BY <1>4, <4>1
        <4>2. CASE version = "occurrences"
          BY <1>4, <4>2, RowsOfPostings
        <4> QED BY <3>1, <4>1, <4>2
      <3> QED BY <1>1, <1>4, <3>2
    <2> QED BY <1>1, <2>1, <2>2 DEF MatchKeys, MigrationInv
  <1>12. OccurrenceKeys'
    <2>1. version = "occurrences" => \A y \in event \cup match : \E o \in occurrence : o.id = y.occ /\ o.job = y.job
      BY DEF MigrationInv, OccurrenceKeys
    <2>2. version = "occurrences" => \A y \in event' \cup match' : \E o \in occurrence : o.id = y.occ /\ o.job = y.job
      BY <1>7, <2>1
    <2> QED BY <1>1, <2>2 DEF MigrationInv, OccurrenceKeys
  <1>13. Listings'
    BY <1>1 DEF Listings, MigrationInv
  <1>14. OneFirst'
    BY <1>1 DEF OneFirst, MigrationInv
  <1>15. FirstsAreOlder'
    <2>1. \A n : First(n)' <=> First(n)
      BY <1>1 DEF First
    <2>2. \A x, y \in event' \cup match' : First(x.occ) /\ ~First(y.occ) => x.at < y.at
      <3> SUFFICES ASSUME NEW x \in event' \cup match', NEW y \in event' \cup match', First(x.occ), ~First(y.occ)
                   PROVE  x.at < y.at
        OBVIOUS
      <3>1. PICK v \in event \cup match : x.occ = v.occ /\ x.at = v.at
        BY <1>7
      <3>2. PICK w \in event \cup match : y.occ = w.occ /\ y.at = w.at
        BY <1>7
      <3> QED BY <3>1, <3>2 DEF MigrationInv, FirstsAreOlder
    <2> QED BY <2>1, <2>2 DEF FirstsAreOlder
  <1>16. FreeIds'
    BY <1>1, <1>2, <1>4, <1>6 DEF FreeIds, MigrationInv
  <1> QED BY <1>8, <1>9, <1>10, <1>11, <1>12, <1>13, <1>14, <1>15, <1>16 DEF MigrationInv

\* what a migration must keep
KeptByMigration ==
    version' # version =>
      /\ Pairs' = Pairs /\ {e.job : e \in event'} = {e.job : e \in event}
      /\ version' = "occurrences" => Pending' = Pending
      /\ version' = "postings" =>
           /\ \A e \in event : First(e.occ) => [e EXCEPT !.occ = 0] \in event'
           /\ \A r \in match : First(r.occ) => [r EXCEPT !.occ = 0] \in match'

LEMMA MigrationStep == MigrationInv /\ [MigrationNext]_migration => MigrationInv' /\ [KeptByMigration]_migration
  <1> SUFFICES ASSUME MigrationInv, [MigrationNext]_migration PROVE MigrationInv' /\ [KeptByMigration]_migration
    OBVIOUS
  <1>1. CASE UNCHANGED migration
    <2>1. \A n : First(n)' <=> First(n)
      BY <1>1 DEF First, migration
    <2> QED BY <1>1, <2>1 DEF migration, MigrationInv, RowsTyped, OlderRows, EventKeys, MatchKeys, OccurrenceKeys,
                              Listings, FirstsAreOlder, OneFirst, FreeIds
  <1>2. CASE Upgrade
    <2>1. version' = "occurrences"
      BY <1>2 DEF Upgrade
    <2> QED BY <1>2, <2>1, UpgradeKeeps DEF KeptByMigration
  <1>3. CASE Downgrade
    <2>1. version' = "postings"
      BY <1>3 DEF Downgrade
    <2> QED BY <1>3, <2>1, DowngradeKeeps DEF KeptByMigration
  <1>4. ASSUME NEW j \in OldPosting, RepostBetween(j) PROVE MigrationInv' /\ KeptByMigration
    <2>1. version' = version
      BY <1>4 DEF RepostBetween
    <2> QED BY <1>4, <2>1, RepostKeeps DEF KeptByMigration
  <1>5. ASSUME NEW e \in event, NEW u \in Subscribed, MatchBetween(e, u) PROVE MigrationInv' /\ KeptByMigration
    <2>1. version' = version
      BY <1>5 DEF MatchBetween
    <2> QED BY <1>5, <2>1, MatchKeeps DEF KeptByMigration
  <1> QED BY <1>1, <1>2, <1>3, <1>4, <1>5 DEF MigrationNext

(* Migration 0006: through any upgrades and downgrades with reposts and      *)
(* matches between them, no migration makes up or forgets a match or pending *)
(* mail, and the rows satisfy the keys and sequences of the schema they are  *)
(* in.                                                                       *)
THEOREM MailSurvivesMigrations == MigrationSpec => MigrationKeeps
  <1>1. MigrationSpec => []MigrationInv
    BY MigrationStart, MigrationStep, PTL DEF MigrationSpec
  <1>2. MigrationSpec => [](FreeIds /\ KeysHold)
    BY <1>1, KeysFollow, PTL
  <1>3. MigrationSpec => [][KeptByMigration]_migration
    BY <1>1, MigrationStep, PTL DEF MigrationSpec
  <1>4. [][KeptByMigration]_migration => MailSurvives
    BY PTL DEF KeptByMigration, MailSurvives
  <1> QED BY <1>2, <1>3, <1>4, PTL DEF MigrationKeeps

-----------------------------------------------------------------------------
(* Polls of repositories                                                    *)

PollingSpec == PollingInit /\ [][PollingNext]_polling

PollingTypeOK ==
    /\ holder \in Worker \cup {"nobody"} /\ phase \in {"polling", "draining"}
    /\ place \in 0 .. Targets
    /\ created \subseteq Repo
    /\ polls \in [Repo -> SUBSET Nat]
    /\ head \in [Repo -> Nat] /\ ingested \in [Repo -> Nat]
    /\ owed \subseteq Repo \X Nat

(* A repository has one poll at a time, which knows no commit older than the *)
(* one ingested last; without a worker nothing is under way.                 *)
OnePoll ==
    /\ \A r \in Repo : ingested[r] <= head[r]
    /\ \A r \in created : polls[r] = {}
    /\ \A r \in Repo : \A a, b \in polls[r] : a = b
    /\ \A r \in Repo : \A a \in polls[r] : ingested[r] <= a /\ a <= head[r]
    /\ holder = "nobody" => created = {} /\ polls = NoPolls /\ phase = "polling"

(* What the drain owes is at work, behind the lock it waits for or later.    *)
OwedIsAhead ==
    /\ phase = "draining" => place \in Repo
    /\ phase = "polling" => owed = {}
    /\ \A x \in owed : x[2] \in polls[x[1]] /\ place <= x[1]

PollingInv == PollingTypeOK /\ OnePoll /\ OwedIsAhead /\ InFlightFinishes

\* the next lock that is held, and none passed over
LEMMA NextHeldIsNext ==
    ASSUME PollingTypeOK, NEW n \in Nat
    PROVE  /\ NextHeld(n) = 0 => \A r \in Repo : r >= n => polls[r] = {}
           /\ NextHeld(n) # 0 => NextHeld(n) \in Repo /\ NextHeld(n) >= n
                                 /\ \A r \in Repo : r >= n /\ polls[r] # {} => NextHeld(n) <= r
  <1> DEFINE held == {r \in Repo : r >= n /\ polls[r] # {}}
  <1>1. CASE held = {}
    BY <1>1 DEF NextHeld
  <1>2. CASE held # {}
    <2>1. held \subseteq Nat
      BY PollingAssumption DEF Repo
    <2>2. \E r \in held : \A q \in held : r <= q
      BY <1>2, <2>1, LeastNatural
    <2>3. NextHeld(n) = CHOOSE r \in held : \A q \in held : r <= q
      BY <1>2 DEF NextHeld
    <2>4. NextHeld(n) \in held /\ \A q \in held : NextHeld(n) <= q
      BY <2>2, <2>3
    <2> QED BY <2>4, PollingAssumption DEF Repo
  <1> QED BY <1>1, <1>2

LEMMA PollingInitInv == PollingInit => PollingInv
  BY PollingAssumption
  DEF PollingInit, PollingInv, PollingTypeOK, OnePoll, OwedIsAhead, InFlightFinishes, NoPolls, Repo

LEMMA PushKeeps ==
    ASSUME PollingInv, NEW r \in Repo, Push(r)
    PROVE  PollingInv'
  <1>1. UNCHANGED <<holder, phase, place, created, polls, ends, owed, cut, ingested>>
    BY DEF Push, work
  <1>2. head' \in [Repo -> Nat] /\ \A q \in Repo : head[q] <= head'[q]
    BY DEF Push, PollingInv, PollingTypeOK
  <1>3. PollingTypeOK'
    BY <1>1, <1>2 DEF PollingInv, PollingTypeOK
  <1>4. OnePoll'
    BY <1>1, <1>2 DEF PollingInv, PollingTypeOK, OnePoll
  <1> QED BY <1>1, <1>3, <1>4 DEF PollingInv, OwedIsAhead, InFlightFinishes

LEMMA BeginKeeps ==
    ASSUME PollingInv, NEW w \in Worker, Begin(w)
    PROVE  PollingInv'
  <1>1. /\ holder' = w /\ created' = Repo /\ holder = "nobody" /\ polls = NoPolls
        /\ UNCHANGED <<phase, place, polls, head, ingested, ends, owed, cut>>
    BY DEF Begin, PollingInv, OnePoll
  <1> QED BY <1>1, PollingAssumption
          DEF PollingInv, PollingTypeOK, OnePoll, OwedIsAhead, InFlightFinishes, NoPolls

LEMMA DueKeeps ==
    ASSUME PollingInv, NEW r \in Repo, Due(r)
    PROVE  PollingInv'
  BY DEF Due, Idle, PollingInv, PollingTypeOK, OnePoll, OwedIsAhead, InFlightFinishes

LEMMA ListKeeps ==
    ASSUME PollingInv, NEW r \in Repo, List(r)
    PROVE  PollingInv'
  <1>1. /\ r \in created /\ created' = created \ {r} /\ polls[r] = {}
        /\ polls' = [polls EXCEPT ![r] = {head[r]}]
        /\ UNCHANGED <<holder, phase, place, head, ingested, ends, owed, cut>>
    BY DEF List, PollingInv, OnePoll, PollingTypeOK
  <1>2. PollingTypeOK'
    BY <1>1 DEF PollingInv, PollingTypeOK
  <1>3. OnePoll'
    BY <1>1 DEF PollingInv, PollingTypeOK, OnePoll
  <1>4. OwedIsAhead'
    BY <1>1 DEF PollingInv, PollingTypeOK, OwedIsAhead
  <1> QED BY <1>1, <1>2, <1>3, <1>4 DEF PollingInv, InFlightFinishes

LEMMA EndPollKeeps ==
    ASSUME PollingInv, NEW r \in Repo, EndPoll(r)
    PROVE  PollingInv' /\ \A q \in Repo : ingested'[q] >= ingested[q]
  <1>1. PICK commit \in polls[r] :
          /\ ingested' \in {ingested, [ingested EXCEPT ![r] = commit]}
          /\ polls' = [polls EXCEPT ![r] = @ \ {commit}]
          /\ owed' = owed \ {<<r, commit>>}
    BY DEF EndPoll
  <1>2. UNCHANGED <<holder, phase, place, created, head, ends, cut>>
    BY DEF EndPoll
  <1>3. /\ commit \in Nat /\ ingested[r] <= commit /\ commit <= head[r]
        /\ polls'[r] = {} /\ \A q \in Repo \ {r} : polls'[q] = polls[q]
    BY <1>1 DEF PollingInv, PollingTypeOK, OnePoll
  <1>4. /\ ingested' \in [Repo -> Nat]
        /\ \A q \in Repo : ingested'[q] >= ingested[q] /\ (q # r => ingested'[q] = ingested[q])
        /\ ingested'[r] <= head[r]
    BY <1>1, <1>3 DEF PollingInv, PollingTypeOK, OnePoll
  <1>5. PollingTypeOK'
    BY <1>1, <1>2, <1>4 DEF PollingInv, PollingTypeOK
  <1>6. OnePoll'
    BY <1>1, <1>2, <1>3, <1>4 DEF PollingInv, PollingTypeOK, OnePoll, NoPolls
  <1>7. OwedIsAhead'
    <2> SUFFICES ASSUME NEW x \in owed' PROVE x[2] \in polls'[x[1]] /\ place' <= x[1]
      BY <1>1, <1>2 DEF PollingInv, OwedIsAhead
    <2>1. x \in owed /\ x # <<r, commit>> /\ x \in Repo \X Nat
      BY <1>1 DEF PollingInv, PollingTypeOK
    <2>2. x[2] \in polls[x[1]] /\ place <= x[1]
      BY <2>1 DEF PollingInv, OwedIsAhead
    <2>3. x[1] # r
      BY <1>1, <2>1, <2>2 DEF PollingInv, OnePoll
    <2> QED BY <1>2, <1>3, <2>1, <2>2, <2>3
  <1> QED BY <1>2, <1>4, <1>5, <1>6, <1>7 DEF PollingInv, InFlightFinishes

LEMMA GoneKeeps ==
    ASSUME PollingInv, Gone, cut' = {}
    PROVE  PollingInv'
  BY PollingAssumption DEF Gone, PollingInv, PollingTypeOK, OnePoll, OwedIsAhead, InFlightFinishes, NoPolls

LEMMA StopKeeps == PollingInv /\ Stop => PollingInv'
  <1> SUFFICES ASSUME PollingInv, Stop PROVE PollingInv'
    OBVIOUS
  <1>1. PollingTypeOK
    BY DEF PollingInv
  <1>2. CASE NextHeld(1) = 0
    <2>1. InFlight = {}
      BY <1>1, <1>2, NextHeldIsNext, PollingAssumption DEF InFlight, Repo
    <2> QED BY <1>2, <2>1, GoneKeeps DEF Stop
  <1>3. CASE NextHeld(1) # 0
    <2>1. /\ phase' = "draining" /\ place' = NextHeld(1) /\ owed' = InFlight
          /\ UNCHANGED <<holder, created, polls, head, ingested, cut>>
          /\ holder # "nobody"
      BY <1>3 DEF Stop
    <2>2. /\ NextHeld(1) \in Repo
          /\ \A r \in Repo : polls[r] # {} => NextHeld(1) <= r
      BY <1>1, <1>3, NextHeldIsNext, PollingAssumption DEF Repo
    <2> HIDE DEF NextHeld
    <2>3. \A x \in InFlight : x \in Repo \X Nat /\ x[2] \in polls[x[1]] /\ NextHeld(1) <= x[1]
      BY <2>2, PollingAssumption DEF InFlight
    <2>4. PollingTypeOK'
      BY <1>1, <2>1, <2>2, <2>3, PollingAssumption DEF PollingTypeOK, Repo
    <2>5. OnePoll'
      BY <2>1 DEF PollingInv, OnePoll
    <2>6. OwedIsAhead'
      BY <2>1, <2>2, <2>3 DEF OwedIsAhead
    <2> QED BY <2>1, <2>4, <2>5, <2>6 DEF PollingInv, InFlightFinishes
  <1> QED BY <1>2, <1>3

LEMMA VisitKeeps == PollingInv /\ Visit => PollingInv'
  <1> SUFFICES ASSUME PollingInv, Visit PROVE PollingInv'
    OBVIOUS
  <1>1. PollingTypeOK /\ place \in Repo /\ place \in Nat /\ phase = "draining"
    BY PollingAssumption DEF PollingInv, Visit, OwedIsAhead, Repo
  <1>2. \A x \in owed : x \in Repo \X Nat /\ x[2] \in polls[x[1]] /\ place <= x[1]
    BY DEF PollingInv, PollingTypeOK, OwedIsAhead
  <1>3. CASE NextHeld(place) = 0
    <2>1. owed = {}
      BY <1>1, <1>2, <1>3, NextHeldIsNext, PollingAssumption DEF Repo
    <2> QED BY <1>3, <2>1, GoneKeeps DEF Visit
  <1>4. CASE NextHeld(place) # 0
    <2>1. /\ place' = NextHeld(place)
          /\ UNCHANGED <<holder, phase, created, polls, head, ingested, owed, cut>>
      BY <1>4 DEF Visit
    <2>2. /\ NextHeld(place) \in Repo
          /\ \A r \in Repo : r >= place /\ polls[r] # {} => NextHeld(place) <= r
      BY <1>1, <1>4, NextHeldIsNext
    <2>3. \A x \in owed : x[2] \in polls[x[1]] /\ NextHeld(place) <= x[1]
      BY <1>1, <1>2, <2>2, PollingAssumption DEF Repo
    <2> HIDE DEF NextHeld
    <2>4. PollingTypeOK'
      <3>1. place' \in 0 .. Targets
        BY <2>1, <2>2, PollingAssumption DEF Repo
      <3> QED BY <1>1, <2>1, <3>1 DEF PollingTypeOK
    <2>5. OnePoll'
      BY <2>1 DEF PollingInv, OnePoll
    <2>6. OwedIsAhead'
      BY <1>1, <2>1, <2>2, <2>3 DEF OwedIsAhead
    <2> QED BY <2>1, <2>4, <2>5, <2>6 DEF PollingInv, InFlightFinishes
  <1> QED BY <1>3, <1>4

LEMMA PollingStepKeeps == PollingInv /\ [PollingNext]_polling => PollingInv'
  <1> SUFFICES ASSUME PollingInv, [PollingNext]_polling PROVE PollingInv'
    OBVIOUS
  <1>1. CASE Expire \/ Crash
    BY <1>1, GoneKeeps DEF Expire, Crash, PollingInv, InFlightFinishes
  <1>2. CASE UNCHANGED polling
    BY <1>2 DEF polling, work, PollingInv, PollingTypeOK, OnePoll, OwedIsAhead, InFlightFinishes
  <1> QED BY <1>1, <1>2, PushKeeps, BeginKeeps, DueKeeps, ListKeeps, EndPollKeeps, StopKeeps, VisitKeeps
          DEF PollingNext

LEMMA PollingAlways == PollingSpec => []PollingInv
  BY PollingInitInv, PollingStepKeeps, PTL DEF PollingSpec

(* The scheduler's drain: a poll that ran when the signal came is cut only   *)
(* by the deadline, whatever polls begin, fail and end meanwhile.            *)
THEOREM InFlightPollsFinish == PollingSpec => []InFlightFinishes
  <1>1. PollingInv => InFlightFinishes
    BY DEF PollingInv
  <1> QED BY PollingAlways, <1>1, PTL

(* The scheduler: however workers take over, drain and crash, and however    *)
(* late a poll ends, no commit of a repository is ingested after a newer     *)
(* one.                                                                      *)
THEOREM PollsIngestInOrder == PollingSpec => IngestedInOrder
  <1>1. PollingInv /\ [PollingNext]_polling => [\A r \in Repo : ingested'[r] >= ingested[r]]_ingested
    <2> SUFFICES ASSUME PollingInv, PollingNext, ingested' # ingested
                 PROVE  \A r \in Repo : ingested'[r] >= ingested[r]
      BY DEF polling
    <2>1. \E r \in Repo : EndPoll(r)
      BY DEF PollingNext, Push, Begin, Due, List, Stop, Visit, Expire, Crash, Gone
    <2> QED BY <2>1, EndPollKeeps
  <1> QED BY PollingAlways, <1>1, PTL DEF PollingSpec, IngestedInOrder

-----------------------------------------------------------------------------
(* Statements, verdicts and buckets                                         *)

DocumentType == [kind : {"posting", "application", "company_policy"}, complete : BOOLEAN,
                 statements : SUBSET Statement, pays : SUBSET Pay]

ScreeningInv == documents \in [Url -> DocumentType]

LEMMA UrlsAreNumbered == Len(Kinds) \in Nat /\ Url = 1 .. Len(Kinds) /\ \A u \in Url : Kinds[u] \in {"posting", "application", "company_policy"}
  BY KindAssumption DEF Url

LEMMA PagesTyped == ScreeningInv /\ [ScreeningNext]_documents => ScreeningInv'
  <1> SUFFICES ASSUME ScreeningInv, [ScreeningNext]_documents PROVE ScreeningInv'
    OBVIOUS
  <1>1. ASSUME NEW u \in Url, NEW s \in Statement, Publish(u, s) PROVE ScreeningInv'
    BY <1>1 DEF Publish, ScreeningInv, DocumentType
  <1>2. ASSUME NEW u \in Url, NEW p \in Pay, Advertise(u, p) PROVE ScreeningInv'
    BY <1>2 DEF Advertise, ScreeningInv, DocumentType
  <1>3. CASE UNCHANGED documents
    BY <1>3 DEF ScreeningInv
  <1> QED BY <1>1, <1>2, <1>3 DEF ScreeningNext

-----------------------------------------------------------------------------
\* what a clause can state
Wording == {"conditional", "allowed", "denied", "required"}
Absence == {"unknown", "none"}
Fact(absent) == Wording \cup {"conflicting", absent}

LEMMA AgreedFacts ==
    ASSUME NEW V \in SUBSET Wording, NEW absent \in Absence
    PROVE  /\ Agreed(V, absent) \in Fact(absent)
           /\ Agreed(V, absent) = absent <=> V = {}
           /\ \A v \in Wording : Agreed(V, absent) = v <=> V = {v}
  <1>1. ASSUME NEW v \in V, V = {v} PROVE (CHOOSE w \in V : TRUE) = v
    BY <1>1
  <1>2. CASE V = {}
    BY <1>2 DEF Agreed, Wording, Absence, Fact
  <1>3. CASE \E v \in V : V = {v}
    <2>1. PICK v \in V : V = {v}
      BY <1>3
    <2>2. Agreed(V, absent) = v
      BY <1>1, <2>1 DEF Agreed
    <2> QED BY <2>1, <2>2 DEF Wording, Absence, Fact
  <1>4. CASE V # {} /\ ~ \E v \in V : V = {v}
    <2>1. Agreed(V, absent) = "conflicting"
      BY <1>4 DEF Agreed
    <2> QED BY <1>4, <2>1 DEF Wording, Absence, Fact
  <1> QED BY <1>2, <1>3, <1>4

LEMMA MergedAgreed ==
    ASSUME NEW V \in SUBSET Wording, NEW W \in SUBSET Wording, NEW absent \in Absence
    PROVE  Merged(Agreed(V, absent), Agreed(W, absent), absent) = Agreed(V \cup W, absent)
  <1> DEFINE a == Agreed(V, absent)
             b == Agreed(W, absent)
             c == Agreed(V \cup W, absent)
  <1>1. V \cup W \in SUBSET Wording
    OBVIOUS
  <1>2. /\ a \in Fact(absent) /\ (a = absent <=> V = {}) /\ (\A v \in Wording : a = v <=> V = {v})
        /\ b \in Fact(absent) /\ (b = absent <=> W = {}) /\ (\A v \in Wording : b = v <=> W = {v})
        /\ c \in Fact(absent) /\ (c = absent <=> V \cup W = {}) /\ (\A v \in Wording : c = v <=> V \cup W = {v})
    BY <1>1, AgreedFacts
  <1>3. V = {} => b = c
    <2>1. V = {} => V \cup W = W
      OBVIOUS
    <2> QED BY <2>1
  <1>4. W = {} => a = c
    <2>1. W = {} => V \cup W = V
      OBVIOUS
    <2> QED BY <2>1
  <1>5. Merged(a, b, absent) = IF b = absent THEN a ELSE IF a = absent THEN b ELSE IF a = b THEN b ELSE "conflicting"
    BY DEF Merged
  <1> HIDE DEF a, b, c
  <1>6. CASE V # {} /\ W # {}
    <2>1. CASE c \in Wording
      <3>1. V \cup W = {c}
        BY <1>2, <2>1
      <3>2. V = {c} /\ W = {c}
        BY <1>6, <3>1
      <3> QED BY <1>2, <1>5, <2>1, <3>2 DEF a, b, c
    <2>2. CASE c \notin Wording
      <3>1. c = "conflicting"
        BY <1>2, <1>6, <2>2 DEF Fact
      <3>2. ~(a \in Wording /\ a = b)
        <4> SUFFICES ASSUME a \in Wording, a = b PROVE FALSE
          OBVIOUS
        <4>1. V = {a} /\ W = {a}
          BY <1>2
        <4>2. V \cup W = {a}
          BY <4>1
        <4> QED BY <1>2, <2>2, <4>2
      <3>3. a # absent /\ b # absent
        BY <1>2, <1>6
      <3>4. a = b => b = "conflicting"
        BY <1>2, <3>2, <3>3 DEF Fact
      <3> QED BY <1>5, <3>1, <3>3, <3>4 DEF a, b, c
    <2> QED BY <2>1, <2>2
  <1> QED BY <1>2, <1>3, <1>4, <1>5, <1>6 DEF a, b, c

LEMMA StatedIsWorded ==
    ASSUME NEW d \in DocumentType, NEW field PROVE Stated(d, field) \in SUBSET Wording
  BY StatementAssumption DEF DocumentType, Stated, Value, Wording

-----------------------------------------------------------------------------
\* the part of the facts a field is in, and how its absence is written
Place(part, field, absent) ==
    \/ part = "policies" /\ field \in Policies /\ absent = "unknown"
    \/ part = "restrictions" /\ field \in Restrictions /\ absent = "none"

LEMMA FactOfDocument ==
    ASSUME NEW part, NEW field, NEW absent, Place(part, field, absent),
           NEW d \in DocumentType, Usable(d)
    PROVE  Extracted(d)[part][field] = Agreed(Stated(d, field), absent)
  BY DEF Place, Usable, Extracted

\* what usable documents among the first k say
SaidUpTo(field, k) == UNION {Stated(documents[u], field) : u \in {v \in 1 .. k : Usable(documents[v])}}

LEMMA TogetherIsAgreed ==
    ASSUME ScreeningInv, NEW part, NEW field, NEW absent, Place(part, field, absent)
    PROVE  /\ Together(part, field, absent) = Agreed(SaidUpTo(field, Len(Kinds)), absent)
           /\ SaidUpTo(field, Len(Kinds)) \in SUBSET Wording
  <1> DEFINE N == Len(Kinds)
             A == Fact(absent) \cup {Agreed(V, absent) : V \in SUBSET Wording}
             Step(v, d) == IF Usable(d) THEN Merged(v, Extracted(d)[part][field], absent) ELSE v
             base == absent
             F == [i \in 1 .. N |-> [v \in A |-> Step(v, documents[i])]]
             Gathers(it) == it = [s \in SUBSET DOMAIN documents |->
                                   IF s = {} THEN base ELSE Step(it[s \ {Max(s)}], documents[Max(s)])]
  <1>1. N \in Nat /\ DOMAIN documents = 1 .. N /\ \A u \in 1 .. N : documents[u] \in DocumentType
    BY UrlsAreNumbered DEF ScreeningInv
  <1>2. absent \in Absence
    BY DEF Place, Absence
  <1>3. \A u \in 1 .. N : Stated(documents[u], field) \in SUBSET Wording
    BY <1>1, StatedIsWorded
  <1>4. \A u \in 1 .. N : Usable(documents[u]) =>
          Extracted(documents[u])[part][field] = Agreed(Stated(documents[u], field), absent)
    BY <1>1, FactOfDocument
  <1> HIDE DEF N
  <1>5. base \in A
    BY DEF Fact
  <1>6. \A v \in A : \A u \in 1 .. N : Step(v, documents[u]) \in A
    <2> TAKE v \in A
    <2> TAKE u \in 1 .. N
    <2>1. Agreed(Stated(documents[u], field), absent) \in A
      BY <1>3
    <2>2. Merged(v, Agreed(Stated(documents[u], field), absent), absent) \in
            {v, Agreed(Stated(documents[u], field), absent), "conflicting"}
      BY DEF Merged
    <2>3. "conflicting" \in A
      BY DEF Fact
    <2> HIDE DEF A
    <2> QED BY <1>4, <2>1, <2>2, <2>3
  <1>7. F \in [1 .. N -> [A -> A]]
    <2> HIDE DEF A, Step
    <2> QED BY <1>6
  <1>8. \E h : Gathers(h)
    <2> HIDE DEF base, F, A, Step
    <2>1. PICK h \in [SUBSET (1 .. N) -> A] : Folding(h, N, base, F)
      BY <1>1, <1>5, <1>7, FoldExists
    <2>2. ASSUME NEW s \in SUBSET (1 .. N), s # {}
          PROVE  F[Max(s)][h[s \ {Max(s)}]] = Step(h[s \ {Max(s)}], documents[Max(s)])
      <3>1. Max(s) \in 1 .. N /\ s \ {Max(s)} \in SUBSET (1 .. N)
        BY <1>1, <2>2, LargestIndex
      <3> QED BY <2>1, <3>1 DEF F
    <2>3. Gathers(h)
      BY <1>1, <2>1, <2>2 DEF Folding
    <2> QED BY <2>3
  <1>9. Together(part, field, absent) = (CHOOSE it : Gathers(it))[DOMAIN documents]
    BY DEF Together, FoldLeft, MapThenFoldSet
  <1> HIDE DEF Gathers, F, base, A, Step
  <1>10. PICK it : Gathers(it) /\ Together(part, field, absent) = it[1 .. N]
    <2>1. Gathers(CHOOSE it : Gathers(it))
      BY <1>8
    <2> QED BY <1>1, <1>9, <2>1
  <1> DEFINE S == {k \in 0 .. N : it[1 .. k] = Agreed(SaidUpTo(field, k), absent)}
  <1>11. \A k \in 0 .. N : SaidUpTo(field, k) \in SUBSET Wording
    BY <1>1, <1>3 DEF SaidUpTo
  <1>12. 0 \in S
    <2>1. it[{}] = base /\ 1 .. 0 = {}
      BY <1>10 DEF Gathers
    <2>2. SaidUpTo(field, 0) = {}
      BY DEF SaidUpTo
    <2> QED BY <1>1, <2>1, <2>2 DEF base, Agreed
  <1>13. ASSUME NEW k \in 0 .. N, k \in S, k < N PROVE k + 1 \in S
    <2>1. PICK s \in SUBSET (1 .. N) : s = 1 .. (k + 1) /\ s # {} /\ Max(s) = k + 1 /\ s \ {k + 1} = 1 .. k
      <3>1. k + 1 \in 1 .. N /\ (k + 1) - 1 = k
        BY <1>1, <1>13
      <3> QED BY <1>1, <3>1, FirstIndices
    <2>2. it[s] = Step(it[1 .. k], documents[k + 1])
      <3>1. \A x \in SUBSET (1 .. N) : it[x] = IF x = {} THEN base ELSE Step(it[x \ {Max(x)}], documents[Max(x)])
        BY <1>1, <1>10 DEF Gathers
      <3>2. it[s] = Step(it[s \ {Max(s)}], documents[Max(s)])
        BY <2>1, <3>1
      <3> QED BY <2>1, <3>2
    <2>3. k + 1 \in 1 .. N /\ k + 1 \in 0 .. N /\ 1 .. (k + 1) = (1 .. k) \cup {k + 1}
      BY <1>1, <1>13
    <2>4. it[1 .. k] = Agreed(SaidUpTo(field, k), absent)
      BY <1>13
    <2>5. CASE Usable(documents[k + 1])
      <3>1. SaidUpTo(field, k + 1) = SaidUpTo(field, k) \cup Stated(documents[k + 1], field)
        BY <2>3, <2>5 DEF SaidUpTo
      <3>2. it[s] = Merged(Agreed(SaidUpTo(field, k), absent), Agreed(Stated(documents[k + 1], field), absent), absent)
        BY <1>4, <2>2, <2>3, <2>4, <2>5 DEF Step
      <3>3. it[s] = Agreed(SaidUpTo(field, k + 1), absent)
        BY <1>2, <1>3, <1>11, <2>3, <3>1, <3>2, MergedAgreed
      <3> QED BY <2>1, <2>3, <3>3
    <2>6. CASE ~Usable(documents[k + 1])
      <3>1. SaidUpTo(field, k + 1) = SaidUpTo(field, k)
        BY <2>3, <2>6 DEF SaidUpTo
      <3>2. it[s] = it[1 .. k]
        BY <2>2, <2>6 DEF Step
      <3> QED BY <2>1, <2>3, <2>4, <3>1, <3>2
    <2> QED BY <2>5, <2>6
  <1>14. N \in S
    <2> HIDE DEF S
    <2>1. 0 .. N \subseteq S
      BY <1>1, <1>12, <1>13, SetInduction
    <2> QED BY <1>1, <2>1
  <1> QED BY <1>1, <1>10, <1>11, <1>14 DEF N

-----------------------------------------------------------------------------
(* The verdicts of evaluate() and of bucket_expression(), one requirement at *)
(* a time.                                                                   *)

LEMMA Connectives ==
    /\ \A V : Or(V) = "true" <=> "true" \in V
    /\ \A V : Or(V) = "false" <=> "true" \notin V /\ "null" \notin V
    /\ \A V : And(V) = "true" <=> "false" \notin V /\ "null" \notin V
    /\ \A V : And(V) = "false" <=> "false" \in V
    /\ \A v : Not(v) = "true" <=> v = "false"
    /\ \A v : Not(v) = "false" <=> v = "true"
    /\ \A b \in BOOLEAN : /\ Lit(b) = "true" <=> b
                          /\ Lit(b) = "false" <=> ~b
                          /\ Lit(b) # "null"
  BY DEF Or, And, Not, Lit

LEMMA RestrictionsAgree ==
    ASSUME NEW data
    PROVE  LET of == {IF data.restrictions[f] = "required" THEN "fail" ELSE "review" :
                        f \in {g \in Restrictions : data.restrictions[g] # "none"}}
           IN  /\ "fail" \in of <=> RestrictionFails(data) = "true"
               /\ "review" \in of <=> "true" \in RestrictionReviews(data)
  <1>1. RestrictionFails(data) = "true" <=> \E f \in Restrictions : data.restrictions[f] = "required"
    <2>1. \A f : Eq(data.restrictions[f], "required", "none") = "true" <=> data.restrictions[f] = "required"
      BY DEF Eq, Lit
    <2> QED BY <2>1, Connectives DEF RestrictionFails
  <1>2. "true" \in RestrictionReviews(data) <=>
          \E f \in Restrictions : data.restrictions[f] # "none" /\ data.restrictions[f] # "required"
    <2>1. ASSUME NEW f
          PROVE  And({Lit(data.restrictions[f] # "none"), Not(Eq(data.restrictions[f], "required", "none"))}) = "true"
                   <=> data.restrictions[f] # "none" /\ data.restrictions[f] # "required"
      <3>1. Eq(data.restrictions[f], "required", "none") = "false" <=>
              data.restrictions[f] # "none" /\ data.restrictions[f] # "required"
        BY DEF Eq, Lit
      <3>2. Lit(data.restrictions[f] # "none") = "true" <=> data.restrictions[f] # "none"
        BY DEF Lit
      <3>3. Lit(data.restrictions[f] # "none") \in {"true", "false"}
        BY DEF Lit
      <3>4. Not(Eq(data.restrictions[f], "required", "none")) \in {"true", "false", "null"}
        BY DEF Not
      <3> QED BY <3>1, <3>2, <3>3, <3>4, Connectives
    <2> QED BY <2>1 DEF RestrictionReviews
  <1> QED BY <1>1, <1>2

LEMMA FutureAgrees ==
    ASSUME NEW job, NEW data
    PROVE  /\ FutureVerdict(job, data) = "fail" <=> FutureFailed(data) = "true"
           /\ FutureVerdict(job, data) = "review" <=>
                And({Not(FutureFailed(data)), Not(FutureSatisfied(job, data))}) = "true"
           /\ FutureVerdict(job, data) \in {"pass", "fail", "review"}
  <1> DEFINE future == data.policies["future_sponsorship"]
             now == data.policies["sponsorship"]
             free == \A f \in Restrictions : data.restrictions[f] = "none"
             filed == Filed(job.records)
             failed == future = "denied" \/ (future = "unknown" /\ now = "denied")
             satisfied == future = "allowed" \/ (future = "unknown" /\ free /\ (now = "allowed" \/ (now = "unknown" /\ filed)))
  <1>1. filed <=> FiledInSql(job.records)
    BY DEF Filed, FiledInSql
  <1>2. FutureFailed(data) = Lit(failed)
    BY DEF FutureFailed
  <1>3. /\ FutureSatisfied(job, data) = "true" <=> satisfied
        /\ FutureSatisfied(job, data) = "false" <=> ~satisfied
    <2> DEFINE last == And({Lit(now = "unknown"), Lit(FiledInSql(job.records))})
               nows == Or({Lit(now = "allowed"), last})
               bound == Or({Lit(data.restrictions[f] # "none") : f \in Restrictions})
               rest == And({Lit(future = "unknown"), Not(bound), nows})
    <2>1. (last = "true" <=> now = "unknown" /\ filed) /\ last \in {"true", "false"}
      <3>1. Lit(now = "unknown") = (IF now = "unknown" THEN "true" ELSE "false")
        BY DEF Lit
      <3>2. Lit(FiledInSql(job.records)) = IF filed THEN "true" ELSE "false"
        BY <1>1 DEF Lit
      <3> QED BY <3>1, <3>2 DEF And
    <2>2. (nows = "true" <=> now = "allowed" \/ (now = "unknown" /\ filed)) /\ nows \in {"true", "false"}
      <3>1. Lit(now = "allowed") = IF now = "allowed" THEN "true" ELSE "false"
        BY DEF Lit
      <3> HIDE DEF last
      <3> QED BY <2>1, <3>1 DEF Or
    <2>3. (bound = "false" <=> free) /\ bound \in {"true", "false"}
      <3>1. \A f : Lit(data.restrictions[f] # "none") = IF data.restrictions[f] # "none" THEN "true" ELSE "false"
        BY DEF Lit
      <3> QED BY <3>1 DEF Or
    <2>4. (rest = "true" <=> future = "unknown" /\ free /\ (now = "allowed" \/ (now = "unknown" /\ filed))) /\ rest \in {"true", "false"}
      <3>1. Lit(future = "unknown") = IF future = "unknown" THEN "true" ELSE "false"
        BY DEF Lit
      <3>2. Not(bound) = IF bound = "false" THEN "true" ELSE "false"
        BY <2>3 DEF Not
      <3> HIDE DEF bound, nows, free, filed
      <3> QED BY <2>2, <2>3, <3>1, <3>2 DEF And
    <2>5. Lit(future = "allowed") = IF future = "allowed" THEN "true" ELSE "false"
      BY DEF Lit
    <2>6. FutureSatisfied(job, data) = Or({Lit(future = "allowed"), rest})
      BY DEF FutureSatisfied
    <2> HIDE DEF rest, free, filed
    <2> QED BY <2>4, <2>5, <2>6 DEF Or
  <1>4. Lit(failed) = IF failed THEN "true" ELSE "false"
    BY DEF Lit
  <1>5. And({Not(FutureFailed(data)), Not(FutureSatisfied(job, data))}) = "true" <=> ~failed /\ ~satisfied
    <2>1. Not(FutureFailed(data)) = IF failed THEN "false" ELSE "true"
      BY <1>2, <1>4 DEF Not
    <2>2. Not(FutureSatisfied(job, data)) = IF satisfied THEN "false" ELSE "true"
      BY <1>3 DEF Not
    <2> HIDE DEF failed, satisfied
    <2> QED BY <2>1, <2>2 DEF And
  <1>6. FutureVerdict(job, data) =
          IF future = "allowed" \/ (future = "unknown" /\ now = "allowed" /\ free) THEN "pass"
          ELSE IF failed THEN "fail"
          ELSE IF future = "unknown" /\ now = "unknown" /\ free /\ filed THEN "pass" ELSE "review"
    BY DEF FutureVerdict
  <1> HIDE DEF free, filed
  <1> QED BY <1>2, <1>4, <1>5, <1>6

LEMMA PayAgrees ==
    ASSUME NEW r, NEW job, NEW data, data.conflicting \in BOOLEAN
    PROVE  /\ Floor(r, job) = NoAmount => PayVerdict(r, job, data) = "pass"
           /\ Floor(r, job) # NoAmount =>
                /\ PayVerdict(r, job, data) = "fail" <=> PayFails(r, job, data) = "true"
                /\ PayVerdict(r, job, data) = "review" <=> PayReviews(r, job, data) = "true"
  <1> DEFINE pay == Applicable(r, job, data)
             enough == \E p \in pay : Amount(p) >= Floor(r, job)
             open == \E p \in pay : p.high = NoAmount
  <1>1. PayVerdict(r, job, data) =
          IF Floor(r, job) = NoAmount THEN "pass"
          ELSE IF data.conflicting \/ pay = {} THEN "review"
          ELSE IF enough THEN "pass" ELSE IF open THEN "review" ELSE "fail"
    BY DEF PayVerdict, Below
  <1>2. PayFails(r, job, data) = And({Lit(pay # {}), Lit(~enough), Not(Lit(open)), Lit(~data.conflicting)})
    BY DEF PayFails, Unbounded
  <1>3. PayReviews(r, job, data) = Or({Lit(data.conflicting), Lit(pay = {}), And({Lit(~enough), Lit(open)})})
    BY DEF PayReviews, Unbounded
  <1>4. /\ Lit(pay # {}) = (IF pay # {} THEN "true" ELSE "false")
        /\ Lit(pay = {}) = (IF pay = {} THEN "true" ELSE "false")
        /\ Lit(~enough) = (IF enough THEN "false" ELSE "true")
        /\ Lit(open) = (IF open THEN "true" ELSE "false")
        /\ Not(Lit(open)) = (IF open THEN "false" ELSE "true")
        /\ Lit(data.conflicting) = (IF data.conflicting THEN "true" ELSE "false")
        /\ Lit(~data.conflicting) = (IF data.conflicting THEN "false" ELSE "true")
    <2> HIDE DEF pay, enough, open
    <2> QED BY DEF Lit, Not
  <1> HIDE DEF pay, enough, open
  <1>5. PayFails(r, job, data) = "true" <=> pay # {} /\ ~enough /\ ~open /\ ~data.conflicting
    BY <1>2, <1>4 DEF And
  <1>6. And({Lit(~enough), Lit(open)}) = IF ~enough /\ open THEN "true" ELSE "false"
    BY <1>4 DEF And
  <1>7. PayReviews(r, job, data) = "true" <=> data.conflicting \/ pay = {} \/ (~enough /\ open)
    BY <1>3, <1>4, <1>6 DEF Or
  <1>8. CASE Floor(r, job) = NoAmount
    BY <1>1, <1>8
  <1>9. CASE Floor(r, job) # NoAmount
    BY <1>1, <1>5, <1>7, <1>9
  <1> QED BY <1>8, <1>9

\* no verdict on pay is made without a floor, and SQL asks for none
LEMMA VerdictsAgree ==
    ASSUME NEW r, NEW job, NEW data, data.conflicting \in BOOLEAN
    PROVE  /\ "fail" \in Verdicts(r, job, data) <=> "true" \in Failures(r, job, data)
           /\ "review" \in Verdicts(r, job, data) <=> "true" \in Reviews(r, job, data)
  <1> DEFINE trains == r.authorization \notin {"none", "unrestricted"}
             value == data.policies[r.authorization]
             away == r.places # AnyPlace /\ job.place \notin r.places
             of == {IF data.restrictions[f] = "required" THEN "fail" ELSE "review" :
                      f \in {g \in Restrictions : data.restrictions[g] # "none"}}
  <1>1. /\ "fail" \in of <=> RestrictionFails(data) = "true"
        /\ "review" \in of <=> "true" \in RestrictionReviews(data)
    BY RestrictionsAgree
  <1>2. /\ TrainingVerdict(value) = "fail" <=> Lit(value = "denied") = "true"
        /\ TrainingVerdict(value) = "review" <=> Lit(value \notin {"allowed", "denied"}) = "true"
    BY DEF TrainingVerdict, Lit
  <1>3. Lit(job.place \notin r.places) = "true" <=> job.place \notin r.places
    BY DEF Lit
  <1>4. \A v : v \in Verdicts(r, job, data) <=>
          \/ v = PayVerdict(r, job, data)
          \/ NeedsAuthorization(r) /\ v \in of
          \/ trains /\ v = TrainingVerdict(value)
          \/ r.future /\ v = FutureVerdict(job, data)
          \/ away /\ v = "review"
    <2> HIDE DEF of
    <2>1. Verdicts(r, job, data) = {PayVerdict(r, job, data)}
            \cup (IF NeedsAuthorization(r) THEN of ELSE {})
            \cup (IF trains THEN {TrainingVerdict(value)} ELSE {})
            \cup (IF r.future THEN {FutureVerdict(job, data)} ELSE {})
            \cup (IF away THEN {"review"} ELSE {})
      BY DEF Verdicts, of
    <2> HIDE DEF trains, value, away
    <2> QED BY <2>1
  <1>5. "true" \in Failures(r, job, data) <=>
          \/ NeedsAuthorization(r) /\ RestrictionFails(data) = "true"
          \/ trains /\ Lit(value = "denied") = "true"
          \/ r.future /\ FutureFailed(data) = "true"
          \/ Floor(r, job) # NoAmount /\ PayFails(r, job, data) = "true"
    BY DEF Failures
  <1>6. "true" \in Reviews(r, job, data) <=>
          \/ NeedsAuthorization(r) /\ "true" \in RestrictionReviews(data)
          \/ trains /\ Lit(value \notin {"allowed", "denied"}) = "true"
          \/ r.future /\ And({Not(FutureFailed(data)), Not(FutureSatisfied(job, data))}) = "true"
          \/ away
          \/ Floor(r, job) # NoAmount /\ PayReviews(r, job, data) = "true"
    BY <1>3 DEF Reviews
  <1> HIDE DEF of, trains, value, away
  <1>7. "fail" \in Verdicts(r, job, data) <=> "true" \in Failures(r, job, data)
    <2>1. PayVerdict(r, job, data) = "fail" <=> Floor(r, job) # NoAmount /\ PayFails(r, job, data) = "true"
      BY PayAgrees
    <2>2. FutureVerdict(job, data) = "fail" <=> FutureFailed(data) = "true"
      BY FutureAgrees
    <2>3. "fail" # "review"
      OBVIOUS
    <2> QED BY <1>1, <1>2, <1>4, <1>5, <2>1, <2>2, <2>3
  <1>8. "review" \in Verdicts(r, job, data) <=> "true" \in Reviews(r, job, data)
    BY <1>1, <1>2, <1>4, <1>6, FutureAgrees, PayAgrees
  <1> QED BY <1>7, <1>8

LEMMA FreshChecks ==
    ASSUME NEW job, job.us \in BOOLEAN
    PROVE  Fresh(job) = "true" <=> Status = "complete" /\ job.check = "current" /\ job.us
  <1>1. /\ Lit(Status = "complete") = (IF Status = "complete" THEN "true" ELSE "false")
        /\ Lit(job.check = "current") = (IF job.check = "current" THEN "true" ELSE "false")
        /\ Lit(job.us) = (IF job.us THEN "true" ELSE "false")
    BY DEF Lit
  <1> QED BY <1>1 DEF Fresh, And

LEMMA BucketsAgree ==
    ASSUME NEW r \in Profile, NEW job \in Posting, NEW data, data.conflicting \in BOOLEAN
    PROVE  Evaluate(r, job, data) = Bucket(r, job, data)
  <1>1. Fresh(job) = "true" <=> Status = "complete" /\ job.check = "current" /\ job.us
    BY FreshChecks, PostingAssumption
  <1>2. /\ Or(Failures(r, job, data)) = "true" <=> "fail" \in Verdicts(r, job, data)
        /\ Or(Reviews(r, job, data)) = "true" <=> "review" \in Verdicts(r, job, data)
    BY VerdictsAgree, Connectives
  <1>3. job.closed \in BOOLEAN /\ job.us \in BOOLEAN
    BY PostingAssumption
  <1> QED BY <1>1, <1>2, <1>3 DEF Evaluate, Bucket

-----------------------------------------------------------------------------
(* What the documents of a complete check say together.                      *)

LEMMA SaidTogether ==
    ASSUME ScreeningInv, Status = "complete", NEW field
    PROVE  /\ Said(field) = SaidUpTo(field, Len(Kinds))
           /\ \A d \in RoleDocuments : d.complete /\ d \in DocumentType
  <1>1. Url = 1 .. Len(Kinds) /\ \A u \in Url : documents[u] \in DocumentType
    BY UrlsAreNumbered DEF ScreeningInv
  <1>2. \A u \in Url : documents[u].complete
    BY DEF Status
  <1>3. \A u \in Url : Usable(documents[u]) <=> documents[u].kind # "company_policy"
    BY <1>2 DEF Usable
  <1>4. {v \in 1 .. Len(Kinds) : Usable(documents[v])} = {v \in Url : documents[v].kind # "company_policy"}
    BY <1>1, <1>3
  <1>5. Said(field) = UNION {Stated(documents[u], field) : u \in {v \in Url : documents[v].kind # "company_policy"}}
    BY DEF Said, RoleDocuments
  <1> QED BY <1>1, <1>2, <1>4, <1>5 DEF SaidUpTo, RoleDocuments

LEMMA ReconciledFacts ==
    ASSUME ScreeningInv, NEW data, data = Reconciled
    PROVE  /\ data.conflicting \in BOOLEAN /\ data.pay \subseteq Pay
           /\ Status = "complete" => ReconciledIsUnion
           /\ Status = "complete" =>
                /\ \A f \in Policies : data.policies[f] = Agreed(Said(f), "unknown") /\ Said(f) \in SUBSET Wording
                /\ \A f \in Restrictions : data.restrictions[f] = Agreed(Said(f), "none") /\ Said(f) \in SUBSET Wording
  <1>1. \A u \in Url : documents[u] \in DocumentType
    BY DEF ScreeningInv
  <1>2. \A u \in Url : Usable(documents[u]) => Extracted(documents[u]).pay \subseteq Pay
    BY <1>1 DEF Usable, Extracted, DocumentType
  <1>3. data.conflicting \in BOOLEAN /\ data.pay \subseteq Pay
    BY <1>2 DEF Reconciled
  <1>4. /\ \A f \in Policies : data.policies[f] = Together("policies", f, "unknown")
        /\ \A f \in Restrictions : data.restrictions[f] = Together("restrictions", f, "none")
    BY DEF Reconciled
  <1>5. ASSUME Status = "complete", NEW f \in Policies
        PROVE  data.policies[f] = Agreed(Said(f), "unknown") /\ Said(f) \in SUBSET Wording
    <2>1. Place("policies", f, "unknown")
      BY DEF Place
    <2> QED BY <1>4, <1>5, <2>1, TogetherIsAgreed, SaidTogether
  <1>6. ASSUME Status = "complete", NEW f \in Restrictions
        PROVE  data.restrictions[f] = Agreed(Said(f), "none") /\ Said(f) \in SUBSET Wording
    <2>1. Place("restrictions", f, "none")
      BY DEF Place
    <2> QED BY <1>4, <1>6, <2>1, TogetherIsAgreed, SaidTogether
  <1> QED BY <1>3, <1>5, <1>6 DEF ReconciledIsUnion

\* what is said of a field, some clause of a role document states
LEMMA SomeoneSaid ==
    ASSUME NEW field, NEW v \in Said(field)
    PROVE  \E d \in RoleDocuments : \E s \in d.statements : ~s.question /\ field \in Fields(s) /\ Value(s) = v
  BY DEF Said, Stated

LEMMA ClauseIsSaid ==
    ASSUME NEW d \in RoleDocuments, NEW s \in Statement, s \in d.statements, ~s.question, s.topic # "sponsorship"
    PROVE  Value(s) \in Said(s.topic)
  <1>1. s.topic \in Fields(s)
    BY DEF Fields
  <1>2. Value(s) \in Stated(d, s.topic)
    BY <1>1 DEF Stated
  <1> QED BY <1>2 DEF Said

LEMMA NothingAgainst ==
    ASSUME ScreeningInv, NEW r \in Profile, NEW job \in Posting, NEW data, data = Reconciled,
           Evaluate(r, job, data) = "matches", NeedsAuthorization(r)
    PROVE  /\ \A d \in RoleDocuments : d.complete
           /\ \A d \in RoleDocuments, s \in Statement :
                 s \in d.statements /\ ~s.question /\ s.topic \in {r.authorization} \cup Restrictions
                   => s.says = "allowed" /\ ~s.hedged
  <1>1. Status = "complete" /\ "fail" \notin Verdicts(r, job, data) /\ "review" \notin Verdicts(r, job, data)
    BY DEF Evaluate
  <1>2. \A d \in RoleDocuments : d.complete
    BY <1>1, SaidTogether
  <1>3. /\ \A f \in Policies : data.policies[f] = Agreed(Said(f), "unknown") /\ Said(f) \in SUBSET Wording
        /\ \A f \in Restrictions : data.restrictions[f] = Agreed(Said(f), "none") /\ Said(f) \in SUBSET Wording
    BY <1>1, ReconciledFacts
  <1>4. ASSUME NEW f \in Restrictions PROVE Said(f) = {}
    <2>1. data.restrictions[f] = "none"
      <3> SUFFICES ASSUME data.restrictions[f] # "none" PROVE FALSE
        OBVIOUS
      <3>1. (IF data.restrictions[f] = "required" THEN "fail" ELSE "review") \in Verdicts(r, job, data)
        BY DEF Verdicts
      <3> QED BY <1>1, <3>1
    <2> QED BY <1>3, <2>1, AgreedFacts DEF Absence
  <1>5. r.authorization = "cpt" => Said("cpt") = {"allowed"}
    <2> SUFFICES ASSUME r.authorization = "cpt" PROVE Said("cpt") = {"allowed"}
      OBVIOUS
    <2>1. TrainingVerdict(data.policies["cpt"]) \in Verdicts(r, job, data)
      BY DEF Verdicts
    <2>2. data.policies["cpt"] = "allowed"
      BY <1>1, <2>1 DEF TrainingVerdict
    <2>3. "cpt" \in Policies /\ "allowed" \in Wording /\ "unknown" \in Absence
      BY DEF Policies, Wording, Absence
    <2> QED BY <1>3, <2>2, <2>3, AgreedFacts
  <1>6. ASSUME NEW d \in RoleDocuments, NEW s \in Statement, s \in d.statements, ~s.question,
               s.topic \in {r.authorization} \cup Restrictions
        PROVE  s.says = "allowed" /\ ~s.hedged
    <2>1. s.topic # "sponsorship" /\ (s.topic \in Restrictions \/ (s.topic = "cpt" /\ r.authorization = "cpt"))
      BY <1>6, StatementAssumption, ProfileAssumption DEF Restrictions
    <2>2. Value(s) \in Said(s.topic)
      BY <1>6, <2>1, ClauseIsSaid
    <2>3. Value(s) = "allowed"
      BY <1>4, <1>5, <2>1, <2>2
    <2>4. s.hedged \in BOOLEAN
      BY StatementAssumption
    <2> QED BY <2>3, <2>4 DEF Value
  <1> QED BY <1>2, <1>6

LEMMA EachSupported ==
    ASSUME ScreeningInv, NEW r \in Profile, NEW job \in Posting, NEW data, data = Reconciled,
           Evaluate(r, job, data) = "matches"
    PROVE  /\ r.authorization = "cpt" => Said("cpt") = {"allowed"}
           /\ r.future => FutureIsSupported(job)
           /\ Floor(r, job) # NoAmount => PayReaches(r, job)
  <1>1. Status = "complete" /\ "fail" \notin Verdicts(r, job, data) /\ "review" \notin Verdicts(r, job, data)
    BY DEF Evaluate
  <1>2. /\ \A f \in Policies : data.policies[f] = Agreed(Said(f), "unknown") /\ Said(f) \in SUBSET Wording
        /\ \A f \in Restrictions : data.restrictions[f] = Agreed(Said(f), "none") /\ Said(f) \in SUBSET Wording
    BY <1>1, ReconciledFacts
  <1>3. /\ "allowed" \in Wording /\ "unknown" \in Absence /\ "none" \in Absence
        /\ {"cpt", "sponsorship", "future_sponsorship"} = Policies
    BY DEF Policies, Wording, Absence
  <1>4. \A f \in Policies : /\ data.policies[f] = "allowed" => Said(f) = {"allowed"}
                            /\ data.policies[f] = "unknown" => Said(f) = {}
    BY <1>2, <1>3, AgreedFacts
  <1>5. \A f \in Restrictions : data.restrictions[f] = "none" => Said(f) = {}
    BY <1>2, <1>3, AgreedFacts
  <1>6. r.authorization = "cpt" => Said("cpt") = {"allowed"}
    <2> SUFFICES ASSUME r.authorization = "cpt" PROVE Said("cpt") = {"allowed"}
      OBVIOUS
    <2>1. TrainingVerdict(data.policies["cpt"]) \in Verdicts(r, job, data)
      BY DEF Verdicts
    <2>2. data.policies["cpt"] = "allowed"
      BY <1>1, <2>1 DEF TrainingVerdict
    <2> QED BY <1>3, <1>4, <2>2
  <1>7. r.future => FutureIsSupported(job)
    <2> SUFFICES ASSUME r.future PROVE FutureIsSupported(job)
      OBVIOUS
    <2> DEFINE future == data.policies["future_sponsorship"]
               now == data.policies["sponsorship"]
               free == \A f \in Restrictions : data.restrictions[f] = "none"
    <2>1. FutureVerdict(job, data) \in Verdicts(r, job, data)
      BY DEF Verdicts
    <2>2. FutureVerdict(job, data) \notin {"fail", "review"}
      BY <1>1, <2>1
    <2>3. \/ future = "allowed"
          \/ future = "unknown" /\ now = "allowed" /\ free
          \/ future = "unknown" /\ now = "unknown" /\ free /\ Filed(job.records)
      BY <2>2 DEF FutureVerdict
    <2>4. free => \A f \in Restrictions : Said(f) = {}
      BY <1>5
    <2>5. /\ future = "allowed" => Said("future_sponsorship") = {"allowed"}
          /\ future = "unknown" => Said("future_sponsorship") = {}
          /\ now = "allowed" => Said("sponsorship") = {"allowed"}
          /\ now = "unknown" => Said("sponsorship") = {}
      BY <1>3, <1>4
    <2> HIDE DEF future, now, free
    <2> QED BY <2>3, <2>4, <2>5 DEF FutureIsSupported
  <1>8. Floor(r, job) # NoAmount => PayReaches(r, job)
    <2> SUFFICES ASSUME Floor(r, job) # NoAmount PROVE PayReaches(r, job)
      OBVIOUS
    <2>1. PayVerdict(r, job, data) \in Verdicts(r, job, data)
      BY DEF Verdicts
    <2>2. PayVerdict(r, job, data) \notin {"fail", "review"}
      BY <1>1, <2>1
    <2>3. PICK p \in Applicable(r, job, data) : Amount(p) >= Floor(r, job)
      BY <2>2 DEF PayVerdict, Below
    <2>4. /\ p \in data.pay /\ p.component = "base" /\ p.period = Period(job.kind) /\ p.us
      BY DEF Applicable
    <2>5. data.pay = UNION {Extracted(documents[u]).pay : u \in {v \in Url : Usable(documents[v])}}
      BY DEF Reconciled
    <2>6. PICK u \in Url : Usable(documents[u]) /\ p \in Extracted(documents[u]).pay
      BY <2>4, <2>5
    <2>7. documents[u] \in RoleDocuments /\ p \in documents[u].pays
      BY <2>6 DEF Usable, Extracted, RoleDocuments
    <2> QED BY <2>3, <2>4, <2>7 DEF PayReaches
  <1> QED BY <1>6, <1>7, <1>8

LEMMA SomethingSaid ==
    ASSUME ScreeningInv, NEW r \in Profile, NEW job \in Posting, NEW data, data = Reconciled,
           Evaluate(r, job, data) = "excluded", ~job.closed
    PROVE  \/ \E d \in RoleDocuments, s \in Statement :
                 s \in d.statements /\ s.says \in {"denied", "required"} /\ ~s.hedged /\ ~s.question
           \/ \A p \in Applicable(r, job, data) : p.high # NoAmount /\ p.high < Floor(r, job)
  <1>1. Status = "complete" /\ "fail" \in Verdicts(r, job, data)
    BY DEF Evaluate
  <1>2. /\ \A f \in Policies : data.policies[f] = Agreed(Said(f), "unknown") /\ Said(f) \in SUBSET Wording
        /\ \A f \in Restrictions : data.restrictions[f] = Agreed(Said(f), "none") /\ Said(f) \in SUBSET Wording
        /\ data.pay \subseteq Pay
    BY <1>1, ReconciledFacts
  <1>3. ASSUME NEW f, NEW v \in {"denied", "required"}, v \in Said(f)
        PROVE  \E d \in RoleDocuments, s \in Statement :
                 s \in d.statements /\ s.says \in {"denied", "required"} /\ ~s.hedged /\ ~s.question
    <2>1. PICK d \in RoleDocuments : \E s \in d.statements : ~s.question /\ f \in Fields(s) /\ Value(s) = v
      BY <1>3, SomeoneSaid
    <2>2. PICK s \in d.statements : ~s.question /\ f \in Fields(s) /\ Value(s) = v
      BY <2>1
    <2>3. d.statements \subseteq Statement
      BY <1>1, SaidTogether DEF DocumentType
    <2>4. s \in Statement /\ s.hedged \in BOOLEAN
      BY <2>2, <2>3, StatementAssumption
    <2>5. ~s.hedged /\ s.says = v
      BY <1>3, <2>2, <2>4 DEF Value
    <2> QED BY <2>2, <2>4, <2>5
  <1>4. ASSUME NEW f \in Policies, data.policies[f] = "denied" PROVE "denied" \in Said(f)
    BY <1>2, <1>4, AgreedFacts DEF Wording, Absence
  <1>5. ASSUME NEW f \in Restrictions, data.restrictions[f] = "required" PROVE "required" \in Said(f)
    BY <1>2, <1>5, AgreedFacts DEF Wording, Absence
  <1>6. CASE PayVerdict(r, job, data) = "fail"
    <2>1. /\ ~ \E p \in Applicable(r, job, data) : Amount(p) >= Floor(r, job)
          /\ ~ \E p \in Applicable(r, job, data) : p.high = NoAmount
      BY <1>6 DEF PayVerdict, Below
    <2>2. Applicable(r, job, data) \subseteq Pay /\ Floor(r, job) \in Int
      BY <1>2, ProfileAssumption DEF Applicable, Floor
    <2>3. \A p \in Applicable(r, job, data) : p.high # NoAmount /\ p.high < Floor(r, job)
      BY <2>1, <2>2, PayAssumption DEF Amount
    <2> QED BY <2>3
  <1>7. CASE \E f \in Restrictions : data.restrictions[f] = "required"
    <2>1. PICK f \in Restrictions : data.restrictions[f] = "required"
      BY <1>7
    <2>2. "required" \in Said(f)
      BY <1>5, <2>1
    <2> QED BY <1>3, <2>2
  <1>8. CASE \E f \in Policies : data.policies[f] = "denied"
    <2>1. PICK f \in Policies : data.policies[f] = "denied"
      BY <1>8
    <2>2. "denied" \in Said(f)
      BY <1>4, <2>1
    <2> QED BY <1>3, <2>2
  <1>9. \/ PayVerdict(r, job, data) = "fail"
        \/ \E f \in Restrictions : data.restrictions[f] = "required"
        \/ \E f \in Policies : data.policies[f] = "denied"
    <2>1. "fail" \in {IF data.restrictions[f] = "required" THEN "fail" ELSE "review" :
                        f \in {g \in Restrictions : data.restrictions[g] # "none"}}
            => \E f \in Restrictions : data.restrictions[f] = "required"
      OBVIOUS
    <2>2. r.authorization \notin {"none", "unrestricted"} /\ TrainingVerdict(data.policies[r.authorization]) = "fail"
            => \E f \in Policies : data.policies[f] = "denied"
      <3>1. r.authorization \notin {"none", "unrestricted"} => r.authorization \in Policies
        BY ProfileAssumption DEF Policies
      <3> QED BY <3>1 DEF TrainingVerdict
    <2>3. FutureVerdict(job, data) = "fail" => \E f \in Policies : data.policies[f] = "denied"
      <3>1. FutureVerdict(job, data) = "fail" =>
              data.policies["future_sponsorship"] = "denied" \/ data.policies["sponsorship"] = "denied"
        BY DEF FutureVerdict
      <3> QED BY <3>1 DEF Policies
    <2> QED BY <1>1, <2>1, <2>2, <2>3 DEF Verdicts
  <1> QED BY <1>6, <1>7, <1>8, <1>9

(* From the statements of the documents to the bucket of a posting, for any  *)
(* clauses, pays, profiles, postings and documents: SQL and Python agree,    *)
(* the order of documents does not count, an exclusion rests on a page, and  *)
(* a match has support for each requirement (filings count as support of     *)
(* future sponsorship) and no page against it.                               *)
THEOREM VerdictsAlwaysFounded == ScreeningSpec => []VerdictsAreFounded
  <1>1. ScreeningInit => ScreeningInv
    BY UrlsAreNumbered DEF ScreeningInit, ScreeningInv, DocumentType
  <1>2. ScreeningInv => VerdictsAreFounded
    <2> SUFFICES ASSUME ScreeningInv PROVE VerdictsAreFounded
      OBVIOUS
    <2>1. PICK data : data = Reconciled
      OBVIOUS
    <2>2. SqlAgrees
      BY <2>1, ReconciledFacts, BucketsAgree DEF SqlAgrees
    <2>3. ReconciledIsUnion
      BY <2>1, ReconciledFacts DEF ReconciledIsUnion
    <2>4. MatchIsUndisputed
      BY <2>1, NothingAgainst DEF MatchIsUndisputed
    <2>5. MatchIsSupported
      BY <2>1, EachSupported DEF MatchIsSupported
    <2>6. ExclusionIsStated
      BY <2>1, SomethingSaid DEF ExclusionIsStated
    <2> QED BY <2>2, <2>3, <2>4, <2>5, <2>6 DEF VerdictsAreFounded
  <1> QED BY <1>1, <1>2, PagesTyped, PTL DEF ScreeningSpec

-----------------------------------------------------------------------------
(* Token buckets: what a bucket gives between two grants.                    *)

ThrottleSpec == ThrottleInit /\ [][ThrottleNext]_throttle

Numbered == 1 .. Len(buckets)
BucketType == [host : Host, tokens : Nat, at : Nat]
GrantType == [id : Nat, n : Nat, at : Nat]
Waiting == [at : {"asks"}, id : Numbered, n : Nat, until : Int]

ThrottleTypeOK ==
    /\ buckets \in Seq(BucketType) /\ kept \in Seq(Nat) /\ recent \in Seq(Host)
    /\ granted \in Seq(GrantType) /\ seconds \in Nat
    /\ scraper = [s \in Scraper |-> scraper[s]]
    /\ \A s \in Scraper : scraper[s] = Resting \/ scraper[s] \in Waiting

BucketsHold == \A id \in Numbered :
    buckets[id].tokens <= RateOf[buckets[id].host].capacity /\ buckets[id].at <= seconds

\* what was given since a grant and what is left come from what there was and the time since
Balanced == \A i \in DOMAIN granted :
    LET b == buckets[granted[i].id]
    IN  /\ granted[i].id \in Numbered /\ granted[i].at <= b.at
        /\ GivenBy(granted[i].id, SubSeq(granted, i, Len(granted))) + b.tokens
             <= RateOf[b.host].capacity + RateOf[b.host].rate * (b.at - granted[i].at)

RatesInv == ThrottleTypeOK /\ BucketsHold /\ Balanced /\ GrantsWithinRate

LEMMA Rates == \A h \in Host : /\ RateOf[h].rate \in Nat /\ RateOf[h].rate >= 1
                               /\ RateOf[h].capacity \in Nat /\ RateOf[h].capacity >= 1
  BY ThrottleAssumption

-----------------------------------------------------------------------------
\* the sums that GivenBy comes to after each grant
Traces(t, id, s) ==
    /\ t \in [0 .. Len(s) -> Nat]
    /\ t[0] = 0 /\ GivenBy(id, s) = t[Len(s)]
    /\ \A k \in 1 .. Len(s) : t[k] = IF s[k].id = id THEN t[k - 1] + s[k].n ELSE t[k - 1]

LEMMA TotalTrace ==
    ASSUME NEW id, NEW s \in Seq(GrantType)
    PROVE  \E t : Traces(t, id, s)
  <1> DEFINE N == Len(s)
             Step(sum, g) == IF g.id = id THEN sum + g.n ELSE sum
             F == [i \in 1 .. N |-> [sum \in Nat |-> Step(sum, s[i])]]
             base == 0
             Gathers(it) == it = [v \in SUBSET DOMAIN s |->
                                   IF v = {} THEN base ELSE Step(it[v \ {Max(v)}], s[Max(v)])]
  <1>1. N \in Nat /\ DOMAIN s = 1 .. N /\ \A k \in 1 .. N : s[k] \in GrantType
    OBVIOUS
  <1> HIDE DEF N
  <1>2. \A sum \in Nat : \A k \in 1 .. N : Step(sum, s[k]) \in Nat
    BY <1>1 DEF GrantType
  <1>3. F \in [1 .. N -> [Nat -> Nat]]
    <2> HIDE DEF Step
    <2> QED BY <1>2
  <1> HIDE DEF Step
  <1>4. PICK h \in [SUBSET (1 .. N) -> Nat] : Folding(h, N, base, F)
    <2> HIDE DEF F
    <2>1. base \in Nat
      OBVIOUS
    <2> QED BY <1>1, <1>3, <2>1, FoldExists
  <1>5. Gathers(h)
    <2>1. ASSUME NEW v \in SUBSET (1 .. N), v # {}
          PROVE  F[Max(v)][h[v \ {Max(v)}]] = Step(h[v \ {Max(v)}], s[Max(v)])
      <3>1. Max(v) \in 1 .. N /\ v \ {Max(v)} \in SUBSET (1 .. N)
        BY <1>1, <2>1, LargestIndex
      <3> QED BY <1>4, <3>1 DEF F
    <2> HIDE DEF F
    <2> QED BY <1>1, <1>4, <2>1 DEF Folding
  <1>6. GivenBy(id, s) = (CHOOSE it : Gathers(it))[DOMAIN s]
    BY DEF GivenBy, FoldLeft, MapThenFoldSet, Step
  <1> HIDE DEF Gathers, F, base
  <1>7. PICK it : Gathers(it) /\ GivenBy(id, s) = it[1 .. N]
    <2>1. Gathers(CHOOSE it : Gathers(it))
      BY <1>5
    <2> QED BY <1>1, <1>6, <2>1
  <1>8. \A v \in SUBSET (1 .. N) : it[v] = IF v = {} THEN base ELSE Step(it[v \ {Max(v)}], s[Max(v)])
    BY <1>1, <1>7 DEF Gathers
  <1> DEFINE t == [k \in 0 .. N |-> it[1 .. k]]
             K == {k \in 0 .. N : it[1 .. k] \in Nat}
  <1>9. it[1 .. 0] = base
    <2>1. 1 .. 0 = {} /\ {} \in SUBSET (1 .. N)
      OBVIOUS
    <2> QED BY <1>8, <2>1
  <1>10. ASSUME NEW k \in 1 .. N PROVE it[1 .. k] = Step(it[1 .. (k - 1)], s[k])
    <2>1. 1 .. k \in SUBSET (1 .. N) /\ 1 .. k # {} /\ Max(1 .. k) = k /\ (1 .. k) \ {k} = 1 .. (k - 1)
      BY <1>1, FirstIndices
    <2>2. it[1 .. k] = Step(it[(1 .. k) \ {Max(1 .. k)}], s[Max(1 .. k)])
      BY <1>8, <2>1
    <2> QED BY <2>1, <2>2
  <1>11. 0 .. N \subseteq K
    <2>1. 0 \in K
      BY <1>1, <1>9 DEF base
    <2>2. ASSUME NEW k \in 0 .. N, k \in K, k < N PROVE k + 1 \in K
      <3>1. k + 1 \in 1 .. N /\ (k + 1) - 1 = k /\ k + 1 \in 0 .. N
        BY <1>1, <2>2
      <3>2. it[1 .. (k + 1)] = Step(it[1 .. k], s[k + 1])
        BY <1>10, <3>1
      <3>3. it[1 .. k] \in Nat
        BY <2>2
      <3> QED BY <1>2, <3>1, <3>2, <3>3
    <2> HIDE DEF K
    <2> QED BY <1>1, <2>1, <2>2, SetInduction
  <1>12. t \in [0 .. N -> Nat] /\ t[0] = 0 /\ GivenBy(id, s) = t[N]
    BY <1>1, <1>7, <1>9, <1>11 DEF base
  <1>13. \A k \in 1 .. N : t[k] = Step(t[k - 1], s[k])
    BY <1>1, <1>10
  <1>14. Traces(t, id, s)
    <2> HIDE DEF t
    <2> QED BY <1>12, <1>13 DEF Traces, Step, N
  <1> QED BY <1>14

LEMMA TotalGrows ==
    ASSUME NEW id, NEW s \in Seq(GrantType), NEW x \in GrantType
    PROVE  /\ GivenBy(id, s) \in Nat
           /\ GivenBy(id, Append(s, x)) = IF x.id = id THEN GivenBy(id, s) + x.n ELSE GivenBy(id, s)
  <1>1. PICK t : Traces(t, id, s)
    BY TotalTrace
  <1>2. /\ Append(s, x) \in Seq(GrantType) /\ Len(Append(s, x)) = Len(s) + 1
        /\ \A i \in 1 .. Len(s) : Append(s, x)[i] = s[i]
        /\ Append(s, x)[Len(s) + 1] = x
    OBVIOUS
  <1>3. PICK u : Traces(u, id, Append(s, x))
    BY <1>2, TotalTrace
  <1> DEFINE N == Len(s)
             K == {k \in 0 .. N : t[k] = u[k]}
  <1>4. N \in Nat
    OBVIOUS
  <1> HIDE DEF N
  <1>5. 0 .. N \subseteq K
    <2>1. 0 \in K
      BY <1>1, <1>3, <1>4 DEF Traces
    <2>2. ASSUME NEW k \in 0 .. N, k \in K, k < N PROVE k + 1 \in K
      <3>1. k + 1 \in 1 .. N /\ (k + 1) - 1 = k /\ k + 1 \in 0 .. N /\ k + 1 \in 1 .. N + 1
        BY <1>4, <2>2
      <3>2. t[k + 1] = IF s[k + 1].id = id THEN t[k] + s[k + 1].n ELSE t[k]
        BY <1>1, <3>1 DEF N, Traces
      <3>3. u[k + 1] = IF s[k + 1].id = id THEN u[k] + s[k + 1].n ELSE u[k]
        BY <1>2, <1>3, <3>1 DEF N, Traces
      <3> QED BY <2>2, <3>1, <3>2, <3>3
    <2> HIDE DEF K
    <2> QED BY <1>4, <2>1, <2>2, SetInduction
  <1>6. t[N] = u[N] /\ t[N] \in Nat
    BY <1>1, <1>4, <1>5 DEF N, Traces
  <1>7. N + 1 \in 1 .. N + 1 /\ (N + 1) - 1 = N
    BY <1>4
  <1>8. u[N + 1] = IF x.id = id THEN u[N] + x.n ELSE u[N]
    BY <1>2, <1>3, <1>7 DEF N, Traces
  <1> QED BY <1>1, <1>2, <1>3, <1>6, <1>8 DEF N, Traces

LEMMA TotalOfNone == ASSUME NEW id PROVE GivenBy(id, <<>>) = 0
  <1>1. <<>> \in Seq(GrantType) /\ Len(<<>>) = 0
    OBVIOUS
  <1>2. PICK t : Traces(t, id, <<>>)
    BY <1>1, TotalTrace
  <1> QED BY <1>1, <1>2 DEF Traces

LEMMA PartOf ==
    ASSUME NEW A, NEW s \in Seq(A), NEW i \in 1 .. Len(s), NEW j \in 0 .. Len(s)
    PROVE  /\ SubSeq(s, i, j) \in Seq(A)
           /\ Len(SubSeq(s, i, j)) = IF i <= j THEN j - i + 1 ELSE 0
           /\ \A k \in 1 .. j - i + 1 : SubSeq(s, i, j)[k] = s[i + k - 1]
  <1>1. i \in Int /\ j \in Int /\ \A k \in i .. j : s[k] \in A
    <2>1. \A k \in i .. j : k \in 1 .. Len(s)
      OBVIOUS
    <2> QED BY <2>1
  <1> QED BY <1>1, SubSeqProperties

LEMMA PartOfLonger ==
    ASSUME NEW A, NEW s \in Seq(A), NEW x \in A, NEW i \in 1 .. Len(s)
    PROVE  /\ \A j \in 1 .. Len(s) : SubSeq(Append(s, x), i, j) = SubSeq(s, i, j)
           /\ SubSeq(Append(s, x), i, Len(s) + 1) = Append(SubSeq(s, i, Len(s)), x)
           /\ SubSeq(s, i, Len(s)) \in Seq(A)
  <1> DEFINE N == Len(s)
  <1> DEFINE z == Append(s, x)
  <1>1. /\ z \in Seq(A) /\ Len(z) = N + 1 /\ z[N + 1] = x
        /\ \A k \in 1 .. N : z[k] = s[k]
    BY AppendProperties
  <1>2. N \in Nat /\ i \in 1 .. N /\ i \in 1 .. N + 1 /\ N \in 0 .. N
    OBVIOUS
  <1> HIDE DEF N, z
  <1>3. ASSUME NEW j \in 1 .. N PROVE SubSeq(z, i, j) = SubSeq(s, i, j)
    <2>1. j \in 0 .. N /\ j \in 0 .. N + 1
      BY <1>2
    <2> DEFINE p == SubSeq(s, i, j)
               q == SubSeq(z, i, j)
    <2>2. /\ p \in Seq(A) /\ Len(p) = IF i <= j THEN j - i + 1 ELSE 0
          /\ \A k \in 1 .. j - i + 1 : p[k] = s[i + k - 1]
      BY <1>2, <2>1, PartOf DEF N
    <2>3. /\ q \in Seq(A) /\ Len(q) = IF i <= j THEN j - i + 1 ELSE 0
          /\ \A k \in 1 .. j - i + 1 : q[k] = z[i + k - 1]
      <3>1. i \in 1 .. Len(z) /\ j \in 0 .. Len(z)
        BY <1>1, <1>2, <2>1
      <3> QED BY <1>1, <3>1, PartOf
    <2> HIDE DEF p, q
    <2>4. ASSUME NEW k \in 1 .. Len(p) PROVE q[k] = p[k]
      <3>1. k \in 1 .. j - i + 1 /\ i + k - 1 \in 1 .. N
        BY <1>2, <2>2, <2>4
      <3> QED BY <1>1, <2>2, <2>3, <3>1
    <2>5. Len(q) = Len(p)
      BY <2>2, <2>3
    <2>6. p = q
      BY <2>2, <2>3, <2>4, <2>5
    <2> QED BY <2>6 DEF p, q
  <1>4. SubSeq(z, i, N + 1) = Append(SubSeq(s, i, N), x) /\ SubSeq(s, i, N) \in Seq(A)
    <2>1. N + 1 \in 0 .. N + 1
      BY <1>2
    <2> DEFINE p == SubSeq(s, i, N)
               q == SubSeq(z, i, N + 1)
    <2>9. i <= N /\ i <= N + 1
      BY <1>2
    <2>2. /\ p \in Seq(A) /\ Len(p) = N - i + 1
          /\ \A k \in 1 .. N - i + 1 : p[k] = s[i + k - 1]
      BY <1>2, <2>9, PartOf DEF N
    <2>3. /\ q \in Seq(A) /\ Len(q) = N + 1 - i + 1
          /\ \A k \in 1 .. N + 1 - i + 1 : q[k] = z[i + k - 1]
      BY <1>1, <1>2, <2>1, <2>9, PartOf
    <2> HIDE DEF p, q
    <2>4. ASSUME NEW k \in 1 .. Len(p) PROVE q[k] = p[k]
      <3>1. k \in 1 .. N - i + 1 /\ k \in 1 .. N + 1 - i + 1 /\ i + k - 1 \in 1 .. N
        BY <1>2, <2>2, <2>4
      <3> QED BY <1>1, <2>2, <2>3, <3>1
    <2>5. Len(q) = Len(p) + 1 /\ q[Len(p) + 1] = x
      <3>1. Len(p) + 1 \in 1 .. N + 1 - i + 1 /\ i + (Len(p) + 1) - 1 = N + 1
        <4>1. i \in Int /\ N \in Int /\ 1 <= i /\ i <= N
          BY <1>2
        <4>2. Len(p) = N - i + 1
          BY <2>2, <4>1
        <4> QED BY <4>1, <4>2
      <3> QED BY <1>1, <1>2, <2>2, <2>3, <3>1
    <2>6. q = Append(p, x)
      BY <2>2, <2>3, <2>4, <2>5
    <2> QED BY <2>2, <2>6 DEF p, q
  <1> QED BY <1>1, <1>3, <1>4 DEF N, z

LEMMA LastPart ==
    ASSUME NEW A, NEW s \in Seq(A), NEW x \in A
    PROVE  SubSeq(Append(s, x), Len(s) + 1, Len(s) + 1) = Append(<<>>, x)
  <1> DEFINE N == Len(s) + 1
  <1> DEFINE z == Append(s, x)
  <1>1. z \in Seq(A) /\ Len(z) = N /\ z[N] = x
    BY AppendProperties
  <1>2. N \in Nat /\ N \in 1 .. N /\ N \in 0 .. N /\ 1 \in 1 .. N - N + 1 /\ N + 1 - 1 = N /\ N - N + 1 = 1
    OBVIOUS
  <1> HIDE DEF N, z
  <1>3. SubSeq(z, N, N) \in Seq(A) /\ Len(SubSeq(z, N, N)) = 1 /\ SubSeq(z, N, N)[1] = x
    <2>1. /\ SubSeq(z, N, N) \in Seq(A)
          /\ Len(SubSeq(z, N, N)) = IF N <= N THEN N - N + 1 ELSE 0
          /\ \A k \in 1 .. N - N + 1 : SubSeq(z, N, N)[k] = z[N + k - 1]
      BY <1>1, <1>2, PartOf
    <2> QED BY <1>1, <1>2, <2>1
  <1> DEFINE p == SubSeq(z, N, N)
  <1>4. p = Append(<<>>, x)
    <2> HIDE DEF p
    <2>1. p \in Seq(A) /\ Len(p) = 1 /\ p[1] = x
      BY <1>3 DEF p
    <2> QED BY <2>1
  <1> QED BY <1>4 DEF N, z

LEMMA GivenGrows ==
    ASSUME NEW s \in Seq(GrantType), NEW x \in GrantType, NEW id, NEW i \in 1 .. Len(s)
    PROVE  /\ \A j \in 1 .. Len(s) : GivenBy(id, SubSeq(Append(s, x), i, j)) = GivenBy(id, SubSeq(s, i, j))
           /\ GivenBy(id, SubSeq(s, i, Len(s))) \in Nat
           /\ GivenBy(id, SubSeq(Append(s, x), i, Len(s) + 1)) =
                IF x.id = id THEN GivenBy(id, SubSeq(s, i, Len(s))) + x.n ELSE GivenBy(id, SubSeq(s, i, Len(s)))
  <1>1. /\ \A j \in 1 .. Len(s) : SubSeq(Append(s, x), i, j) = SubSeq(s, i, j)
        /\ SubSeq(Append(s, x), i, Len(s) + 1) = Append(SubSeq(s, i, Len(s)), x)
        /\ SubSeq(s, i, Len(s)) \in Seq(GrantType)
    BY PartOfLonger
  <1>2. /\ GivenBy(id, SubSeq(s, i, Len(s))) \in Nat
        /\ GivenBy(id, Append(SubSeq(s, i, Len(s)), x)) =
             IF x.id = id THEN GivenBy(id, SubSeq(s, i, Len(s))) + x.n ELSE GivenBy(id, SubSeq(s, i, Len(s)))
    BY <1>1, TotalGrows
  <1> QED BY <1>1, <1>2

LEMMA GivenLast ==
    ASSUME NEW s \in Seq(GrantType), NEW x \in GrantType
    PROVE  GivenBy(x.id, SubSeq(Append(s, x), Len(s) + 1, Len(s) + 1)) = x.n
  <1>1. <<>> \in Seq(GrantType) /\ x.n \in Nat
    BY DEF GrantType
  <1>2. GivenBy(x.id, Append(<<>>, x)) = GivenBy(x.id, <<>>) + x.n
    BY <1>1, TotalGrows
  <1>3. SubSeq(Append(s, x), Len(s) + 1, Len(s) + 1) = Append(<<>>, x)
    BY LastPart
  <1>4. GivenBy(x.id, <<>>) = 0
    BY TotalOfNone
  <1>5. GivenBy(x.id, Append(<<>>, x)) = x.n
    BY <1>1, <1>2, <1>4
  <1> QED BY <1>3, <1>5, Zenon

-----------------------------------------------------------------------------
(* The balance of a bucket through the steps.                                *)

LEMMA GivenIsNat ==
    ASSUME NEW s \in Seq(GrantType), NEW i \in 1 .. Len(s), NEW id
    PROVE  GivenBy(id, SubSeq(s, i, Len(s))) \in Nat
  <1> DEFINE p == SubSeq(s, i, Len(s))
  <1>1. p \in Seq(GrantType) /\ Len(p) \in Nat
    BY PartOf
  <1> HIDE DEF p
  <1>2. PICK t : Traces(t, id, p)
    BY <1>1, TotalTrace
  <1>3. GivenBy(id, p) \in Nat
    BY <1>1, <1>2 DEF Traces
  <1> QED BY <1>3 DEF p

\* what a refill brings is at most what the time since brought
LEMMA FillingIsEarned ==
    ASSUME NEW b \in BucketType, seconds \in Nat, b.at <= seconds, b.tokens <= RateOf[b.host].capacity
    PROVE  /\ Filled(b) \in Nat /\ Filled(b) <= RateOf[b.host].capacity
           /\ Filled(b) <= b.tokens + RateOf[b.host].rate * (seconds - b.at)
  <1> DEFINE rate == RateOf[b.host].rate
             cap == RateOf[b.host].capacity
             d == seconds - b.at
  <1>1. rate \in Nat /\ cap \in Nat /\ d \in Nat /\ b.tokens \in Nat
    BY Rates DEF BucketType
  <1>2. Filled(b) = Least(cap, b.tokens + d * rate)
    BY DEF Filled
  <1> HIDE DEF rate, cap, d
  <1>3. d * rate = rate * d /\ d * rate \in Nat
    BY <1>1
  <1>4. Filled(b) = IF cap <= b.tokens + rate * d THEN cap ELSE b.tokens + rate * d
    BY <1>2, <1>3 DEF Least
  <1> QED BY <1>1, <1>3, <1>4 DEF rate, cap, d

LEMMA Distances ==
    ASSUME NEW rate \in Nat, NEW a \in Nat, NEW b \in Nat, NEW c \in Nat, a <= b, b <= c
    PROVE  /\ rate * (b - a) + rate * (c - b) = rate * (c - a)
           /\ rate * (b - a) \in Nat /\ rate * (c - b) \in Nat /\ rate * (c - a) \in Nat
  <1>1. b - a \in Nat /\ c - b \in Nat /\ c - a \in Nat /\ (b - a) + (c - b) = c - a
    OBVIOUS
  <1>2. \A x, y \in Nat : rate * (x + y) = rate * x + rate * y /\ rate * x \in Nat
    OBVIOUS
  <1> QED BY <1>1, <1>2

\* a bucket that is refilled keeps its host and its balance, whatever it gives
LEMMA RefillKeeps ==
    ASSUME RatesInv, NEW id \in Numbered, NEW n \in Nat, n <= Filled(buckets[id]),
           buckets' = [buckets EXCEPT ![id] = Refilled(buckets[id], Filled(buckets[id]) - n)],
           seconds' = seconds, NEW given \in Nat,
           \/ n = 0 /\ given = 0 /\ granted' = granted
           \/ n = given /\ granted' = Append(granted, [id |-> id, n |-> n, at |-> seconds])
    PROVE  /\ buckets' \in Seq(BucketType) /\ Len(buckets') = Len(buckets) /\ granted' \in Seq(GrantType)
           /\ \A x \in Numbered : buckets'[x].host = buckets[x].host
           /\ BucketsHold' /\ Balanced' /\ GrantsWithinRate'
  <1> DEFINE b == buckets[id]
             c == buckets'[id]
             rate == RateOf[b.host].rate
             cap == RateOf[b.host].capacity
             x == [id |-> id, n |-> n, at |-> seconds]
  <1>1. b \in BucketType /\ b.at <= seconds /\ b.tokens <= cap /\ b.host \in Host /\ b.tokens \in Nat /\ b.at \in Nat
    <2>1. b \in BucketType
      BY DEF RatesInv, ThrottleTypeOK, Numbered
    <2>2. b.at <= seconds /\ b.tokens <= cap
      BY DEF RatesInv, BucketsHold
    <2> HIDE DEF b
    <2>3. b.host \in Host /\ b.tokens \in Nat /\ b.at \in Nat
      BY <2>1 DEF BucketType
    <2> QED BY <2>1, <2>2, <2>3
  <1>2. Filled(b) \in Nat /\ Filled(b) <= cap /\ Filled(b) <= b.tokens + rate * (seconds - b.at)
    BY <1>1, FillingIsEarned DEF RatesInv, ThrottleTypeOK
  <1>3. rate \in Nat /\ cap \in Nat
    BY <1>1, Rates
  <1>4. c = Refilled(b, Filled(b) - n) /\ \A y \in Numbered : y # id => buckets'[y] = buckets[y]
    BY DEF RatesInv, ThrottleTypeOK, Numbered
  <1>6. seconds \in Nat /\ Filled(b) - n \in Nat
    BY <1>2 DEF RatesInv, ThrottleTypeOK
  <1>7. c \in BucketType /\ c.host = b.host /\ c.tokens = Filled(b) - n /\ c.at = seconds
    <2>1. [b EXCEPT !.tokens = Filled(b) - n, !.at = seconds] \in BucketType
      BY <1>1, <1>6 DEF BucketType
    <2>2. DOMAIN b = {"host", "tokens", "at"}
      BY <1>1 DEF BucketType
    <2> HIDE DEF b
    <2>3. LET d == [b EXCEPT !.tokens = Filled(b) - n, !.at = seconds]
          IN  d.host = b.host /\ d.tokens = Filled(b) - n /\ d.at = seconds
      BY <2>2
    <2> QED BY <1>4, <2>1, <2>3 DEF Refilled, b
  <1>8. buckets' \in Seq(BucketType) /\ Len(buckets') = Len(buckets)
    <2>1. Refilled(b, Filled(b) - n) \in BucketType
      BY <1>4, <1>7
    <2> QED BY <2>1 DEF RatesInv, ThrottleTypeOK, Numbered
  <1>9. \A y \in Numbered : buckets'[y].host = buckets[y].host
    BY <1>4, <1>7
  <1>10. x \in GrantType /\ granted' \in Seq(GrantType)
    <2>1. id \in Nat /\ granted \in Seq(GrantType)
      BY DEF RatesInv, ThrottleTypeOK, Numbered
    <2>2. x \in GrantType
      BY <1>6, <2>1 DEF GrantType
    <2>3. Append(granted, x) \in Seq(GrantType)
      <3> HIDE DEF x
      <3> QED BY <2>1, <2>2, AppendProperties
    <2>4. granted' = granted \/ granted' = Append(granted, x)
      OBVIOUS
    <2> HIDE DEF x
    <2> QED BY <2>1, <2>2, <2>3, <2>4
  <1>11. BucketsHold'
    <2>1. Numbered' = Numbered
      BY <1>8 DEF Numbered
    <2> SUFFICES ASSUME NEW y \in Numbered
                 PROVE  buckets'[y].tokens <= RateOf[buckets'[y].host].capacity /\ buckets'[y].at <= seconds'
      BY <2>1 DEF BucketsHold
    <2>2. CASE y = id
      BY <1>2, <1>3, <1>6, <1>7, <2>2
    <2>3. CASE y # id
      BY <1>4, <2>3 DEF RatesInv, BucketsHold
    <2> QED BY <2>2, <2>3
  <1> HIDE DEF b, c, rate, cap
  <1>12. ASSUME NEW i \in DOMAIN granted, granted[i].id = id
         PROVE  /\ GivenBy(id, SubSeq(granted, i, Len(granted))) + n + c.tokens <= cap + rate * (seconds - granted[i].at)
                /\ granted[i].at \in Nat /\ granted[i].at <= seconds
    <2> DEFINE g == granted[i]
               sum == GivenBy(id, SubSeq(granted, i, Len(granted)))
    <2>1. g \in GrantType /\ i \in 1 .. Len(granted)
      BY DEF RatesInv, ThrottleTypeOK
    <2>2. g.at <= b.at /\ sum + b.tokens <= cap + rate * (b.at - g.at)
      BY <1>12 DEF RatesInv, Balanced, b, cap, rate
    <2>3. sum \in Nat /\ g.at \in Nat
      BY <2>1, GivenIsNat DEF RatesInv, ThrottleTypeOK, GrantType
    <2> HIDE DEF sum, g
    <2>4. /\ rate * (b.at - g.at) + rate * (seconds - b.at) = rate * (seconds - g.at)
          /\ rate * (b.at - g.at) \in Nat /\ rate * (seconds - b.at) \in Nat /\ rate * (seconds - g.at) \in Nat
      BY <1>1, <1>3, <1>6, <2>2, <2>3, Distances
    <2>5. sum + Filled(b) <= cap + rate * (seconds - g.at)
      <3> DEFINE before == rate * (b.at - g.at)
                 since == rate * (seconds - b.at)
                 whole == rate * (seconds - g.at)
      <3>1. before + since = whole /\ before \in Nat /\ since \in Nat /\ whole \in Nat
        BY <2>4
      <3>2. Filled(b) <= b.tokens + since /\ sum + b.tokens <= cap + before
        BY <1>2, <2>2
      <3> HIDE DEF before, since, whole
      <3>3. sum + Filled(b) <= cap + whole
        BY <1>1, <1>2, <1>3, <2>3, <3>1, <3>2
      <3> QED BY <3>3 DEF whole
    <2>6. sum + n + c.tokens = sum + Filled(b)
      BY <1>2, <1>7, <2>3
    <2>7. g.at <= seconds
      BY <1>1, <1>6, <2>2, <2>3
    <2> QED BY <2>3, <2>5, <2>6, <2>7 DEF sum, g
  <1>13. CASE granted' = granted /\ n = 0
    <2>1. Balanced'
      <3> SUFFICES ASSUME NEW i \in DOMAIN granted
                   PROVE  /\ granted[i].id \in Numbered /\ granted[i].at <= buckets'[granted[i].id].at
                          /\ GivenBy(granted[i].id, SubSeq(granted, i, Len(granted))) + buckets'[granted[i].id].tokens
                               <= RateOf[buckets'[granted[i].id].host].capacity
                                    + RateOf[buckets'[granted[i].id].host].rate * (buckets'[granted[i].id].at - granted[i].at)
        BY <1>8, <1>13 DEF Balanced, Numbered
      <3>1. granted[i].id \in Numbered
        BY DEF RatesInv, Balanced
      <3>2. CASE granted[i].id = id
        <4> DEFINE sum == GivenBy(id, SubSeq(granted, i, Len(granted)))
        <4>1. sum \in Nat
          <5>1. granted \in Seq(GrantType) /\ i \in 1 .. Len(granted)
            BY DEF RatesInv, ThrottleTypeOK
          <5> QED BY <5>1, GivenIsNat
        <4>2. sum + n + c.tokens <= cap + rate * (seconds - granted[i].at) /\ granted[i].at <= seconds
          BY <1>12, <3>2
        <4> HIDE DEF sum
        <4>3. sum + n + c.tokens = sum + c.tokens
          BY <1>2, <1>7, <1>13, <4>1
        <4>4. sum + c.tokens <= cap + rate * (seconds - granted[i].at)
          BY <4>2, <4>3
        <4> QED BY <1>7, <3>1, <3>2, <4>2, <4>4 DEF sum, c, cap, rate, b
      <3>3. CASE granted[i].id # id
        BY <1>4, <3>1, <3>3 DEF RatesInv, Balanced
      <3> QED BY <3>2, <3>3
    <2>2. GrantsWithinRate'
      <3>1. \A i \in DOMAIN granted : buckets'[granted[i].id].host = buckets[granted[i].id].host
        BY <1>9 DEF RatesInv, Balanced
      <3>2. GrantsWithinRate
        BY DEF RatesInv
      <3> SUFFICES ASSUME NEW i \in DOMAIN granted, NEW j \in DOMAIN granted, i <= j, granted[i].id = granted[j].id
                   PROVE  GivenBy(granted[i].id, SubSeq(granted, i, j))
                            <= RateOf[buckets'[granted[i].id].host].capacity
                                 + RateOf[buckets'[granted[i].id].host].rate * (granted[j].at - granted[i].at)
        BY <1>13 DEF GrantsWithinRate
      <3> QED BY <3>1, <3>2 DEF GrantsWithinRate
    <2> QED BY <1>8, <1>9, <1>10, <1>11, <2>1, <2>2
  <1>14. CASE granted' = Append(granted, x)
    <2> DEFINE N == Len(granted)
    <2>1. /\ N \in Nat /\ DOMAIN granted = 1 .. N /\ DOMAIN granted' = 1 .. N + 1 /\ Len(granted') = N + 1
          /\ (\A k \in 1 .. N : granted'[k] = granted[k]) /\ granted'[N + 1] = x
          /\ granted \in Seq(GrantType)
      BY <1>10, <1>14 DEF RatesInv, ThrottleTypeOK
    <2>2. \A y, i : i \in 1 .. N =>
            /\ \A j \in 1 .. N : GivenBy(y, SubSeq(granted', i, j)) = GivenBy(y, SubSeq(granted, i, j))
            /\ GivenBy(y, SubSeq(granted, i, N)) \in Nat
            /\ GivenBy(y, SubSeq(granted', i, N + 1)) =
                 IF id = y THEN GivenBy(y, SubSeq(granted, i, N)) + n ELSE GivenBy(y, SubSeq(granted, i, N))
      <3> TAKE y, i
      <3> SUFFICES ASSUME i \in 1 .. N
                   PROVE  /\ \A j \in 1 .. N : GivenBy(y, SubSeq(granted', i, j)) = GivenBy(y, SubSeq(granted, i, j))
                          /\ GivenBy(y, SubSeq(granted, i, N)) \in Nat
                          /\ GivenBy(y, SubSeq(granted', i, N + 1)) =
                               IF id = y THEN GivenBy(y, SubSeq(granted, i, N)) + n ELSE GivenBy(y, SubSeq(granted, i, N))
        OBVIOUS
      <3>1. x.id = id /\ x.n = n
        OBVIOUS
      <3> HIDE DEF x
      <3>2. /\ \A j \in 1 .. N : GivenBy(y, SubSeq(Append(granted, x), i, j)) = GivenBy(y, SubSeq(granted, i, j))
            /\ GivenBy(y, SubSeq(granted, i, N)) \in Nat
            /\ GivenBy(y, SubSeq(Append(granted, x), i, N + 1)) =
                 IF x.id = y THEN GivenBy(y, SubSeq(granted, i, N)) + x.n ELSE GivenBy(y, SubSeq(granted, i, N))
        <4>1. granted \in Seq(GrantType) /\ x \in GrantType /\ i \in 1 .. Len(granted)
          BY <1>10, <2>1 DEF N
        <4> QED BY <4>1, GivenGrows DEF N
      <3> QED BY <1>14, <3>1, <3>2
    <2>3. GivenBy(id, SubSeq(granted', N + 1, N + 1)) = n
      <3>1. x.id = id /\ x.n = n
        OBVIOUS
      <3> HIDE DEF x
      <3> QED BY <1>10, <1>14, <2>1, <3>1, GivenLast
    <2> HIDE DEF N
    <2>4. /\ rate * (seconds - seconds) = 0 /\ n + c.tokens <= cap
      BY <1>2, <1>3, <1>6, <1>7
    <2>5. ASSUME NEW i \in 1 .. N + 1, granted'[i].id = id
          PROVE  /\ granted'[i].at <= seconds
                 /\ GivenBy(id, SubSeq(granted', i, N + 1)) + c.tokens <= cap + rate * (seconds - granted'[i].at)
                 /\ GivenBy(id, SubSeq(granted', i, N + 1)) \in Nat
                 /\ granted'[i].at \in Nat
      <3>1. CASE i = N + 1
        <4>1. granted'[i].at = seconds
          BY <2>1, <3>1
        <4> QED BY <1>3, <1>6, <1>7, <2>3, <2>4, <3>1, <4>1
      <3>2. CASE i \in 1 .. N
        <4>1. granted'[i] = granted[i] /\ i \in DOMAIN granted
          BY <2>1, <3>2
        <4>2. GivenBy(id, SubSeq(granted', i, N + 1)) = GivenBy(id, SubSeq(granted, i, N)) + n
          BY <2>2, <3>2
        <4>3. GivenBy(id, SubSeq(granted, i, N)) \in Nat
          BY <2>2, <3>2
        <4>4. GivenBy(id, SubSeq(granted, i, N)) + n + c.tokens <= cap + rate * (seconds - granted[i].at)
          BY <1>12, <2>5, <4>1 DEF N
        <4> QED BY <1>12, <2>5, <4>1, <4>2, <4>3, <4>4
      <3> QED BY <2>1, <3>1, <3>2
    <2>6. Balanced'
      <3> SUFFICES ASSUME NEW i \in 1 .. N + 1
                   PROVE  /\ granted'[i].id \in Numbered /\ granted'[i].at <= buckets'[granted'[i].id].at
                          /\ GivenBy(granted'[i].id, SubSeq(granted', i, N + 1)) + buckets'[granted'[i].id].tokens
                               <= RateOf[buckets'[granted'[i].id].host].capacity
                                    + RateOf[buckets'[granted'[i].id].host].rate
                                        * (buckets'[granted'[i].id].at - granted'[i].at)
        BY <1>8, <2>1 DEF Balanced, Numbered
      <3>1. CASE granted'[i].id = id
        BY <1>7, <2>5, <3>1 DEF c, cap, rate, b
      <3>2. CASE granted'[i].id # id
        <4>1. i \in 1 .. N
          BY <2>1, <3>2
        <4>2. granted'[i] = granted[i] /\ i \in DOMAIN granted /\ granted[i].id \in Numbered
          BY <2>1, <4>1 DEF RatesInv, Balanced
        <4>3. buckets'[granted[i].id] = buckets[granted[i].id]
          BY <1>4, <3>2, <4>2
        <4>4. GivenBy(granted[i].id, SubSeq(granted', i, N + 1)) = GivenBy(granted[i].id, SubSeq(granted, i, N))
          BY <2>2, <3>2, <4>1, <4>2
        <4> QED BY <4>2, <4>3, <4>4 DEF RatesInv, Balanced, N
      <3> QED BY <3>1, <3>2
    <2>7. GrantsWithinRate'
      <3> SUFFICES ASSUME NEW i \in 1 .. N + 1, NEW j \in 1 .. N + 1, i <= j, granted'[i].id = granted'[j].id
                   PROVE  GivenBy(granted'[i].id, SubSeq(granted', i, j))
                            <= RateOf[buckets'[granted'[i].id].host].capacity
                                 + RateOf[buckets'[granted'[i].id].host].rate * (granted'[j].at - granted'[i].at)
        BY <2>1 DEF GrantsWithinRate
      <3>1. CASE j = N + 1
        <4>1. granted'[j].id = id /\ granted'[j].at = seconds
          BY <2>1, <3>1
        <4>2. GivenBy(id, SubSeq(granted', i, N + 1)) <= cap + rate * (seconds - granted'[i].at)
          <5>1. c.tokens \in Nat
            BY <1>6, <1>7
          <5>2. seconds - granted'[i].at \in Nat
            BY <1>6, <2>5, <4>1
          <5>3. rate * (seconds - granted'[i].at) \in Nat
            BY <1>3, <5>2
          <5>4. \A a, t, r \in Nat : a + t <= r => a <= r
            OBVIOUS
          <5>5. cap + rate * (seconds - granted'[i].at) \in Nat
            BY <1>3, <5>3
          <5> QED BY <2>5, <4>1, <5>1, <5>4, <5>5
        <4> QED BY <1>7, <3>1, <4>1, <4>2 DEF c, cap, rate, b
      <3>2. CASE j \in 1 .. N
        <4>1. i \in 1 .. N
          BY <2>1, <3>2
        <4>2. /\ granted'[i] = granted[i] /\ granted'[j] = granted[j] /\ i \in DOMAIN granted /\ j \in DOMAIN granted
              /\ granted[i].id \in Numbered
          BY <2>1, <3>2, <4>1 DEF RatesInv, Balanced
        <4>3. buckets'[granted[i].id].host = buckets[granted[i].id].host
          BY <1>9, <4>2
        <4>4. GivenBy(granted[i].id, SubSeq(granted', i, j)) = GivenBy(granted[i].id, SubSeq(granted, i, j))
          BY <2>2, <3>2, <4>1
        <4>5. GrantsWithinRate
          BY DEF RatesInv
        <4> QED BY <4>2, <4>3, <4>4, <4>5 DEF GrantsWithinRate
      <3> QED BY <2>1, <3>1, <3>2
    <2> QED BY <1>8, <1>9, <1>10, <1>11, <2>6, <2>7
  <1> QED BY <1>13, <1>14

-----------------------------------------------------------------------------
(* The hosts asked for last.                                                 *)

Distinct(s) == \A i, j \in 1 .. Len(s) : s[i] = s[j] => i = j

\* what holds x at p, without it and with it at the end
Moved(s, t, p, x) ==
    /\ p \in 1 .. Len(s) /\ s[p] = x /\ Len(t) = Len(s)
    /\ \A k \in 1 .. Len(s) : t[k] = IF k < p THEN s[k] ELSE IF k < Len(s) THEN s[k + 1] ELSE x

LEMMA MovedToEnd ==
    ASSUME NEW A, NEW s \in Seq(A), NEW x \in A, Distinct(s), NEW p \in 1 .. Len(s), s[p] = x
    PROVE  Append(Without(s, x), x) \in Seq(A) /\ Moved(s, Append(Without(s, x), x), p, x)
  <1> DEFINE N == Len(s)
             front == SubSeq(s, 1, p - 1)
             back == SubSeq(s, p + 1, N)
             w == front \o back
  <1>1. N \in Nat /\ DOMAIN s = 1 .. N /\ p \in 1 .. N /\ \A k \in 1 .. N : s[k] \in A
    OBVIOUS
  <1>2. Without(s, x) = w
    <2>1. x \in ToSet(s)
      BY <1>1 DEF ToSet
    <2>2. (CHOOSE i \in DOMAIN s : s[i] = x) = p
      BY <1>1 DEF Distinct
    <2> QED BY <2>1, <2>2 DEF Without, RemoveAt
  <1> HIDE DEF N
  <1>3. front \in Seq(A) /\ Len(front) = p - 1 /\ \A k \in 1 .. p - 1 : front[k] = s[k]
    <2>1. 1 \in Int /\ p - 1 \in Int /\ \A k \in 1 .. p - 1 : s[k] \in A
      BY <1>1
    <2>2. /\ front \in Seq(A)
          /\ Len(front) = IF 1 <= p - 1 THEN (p - 1) - 1 + 1 ELSE 0
          /\ \A k \in 1 .. (p - 1) - 1 + 1 : front[k] = s[1 + k - 1]
      BY <2>1, SubSeqProperties
    <2> HIDE DEF front
    <2>3. ASSUME NEW k \in 1 .. p - 1 PROVE k \in 1 .. (p - 1) - 1 + 1 /\ 1 + k - 1 = k
      BY <1>1
    <2> QED BY <1>1, <2>2, <2>3
  <1>4. back \in Seq(A) /\ Len(back) = N - p /\ \A k \in 1 .. N - p : back[k] = s[p + k]
    <2>1. p + 1 \in Int /\ N \in Int /\ \A k \in p + 1 .. N : s[k] \in A
      BY <1>1
    <2>2. /\ back \in Seq(A)
          /\ Len(back) = IF p + 1 <= N THEN N - (p + 1) + 1 ELSE 0
          /\ \A k \in 1 .. N - (p + 1) + 1 : back[k] = s[(p + 1) + k - 1]
      BY <2>1, SubSeqProperties
    <2> HIDE DEF back
    <2>3. ASSUME NEW k \in 1 .. N - p PROVE k \in 1 .. N - (p + 1) + 1 /\ (p + 1) + k - 1 = p + k
      BY <1>1
    <2> QED BY <1>1, <2>2, <2>3
  <1> HIDE DEF front, back
  <1>5. /\ w \in Seq(A) /\ Len(w) = N - 1
        /\ \A k \in 1 .. N - 1 : w[k] = IF k < p THEN s[k] ELSE s[k + 1]
    <2>1. /\ w \in Seq(A) /\ Len(w) = Len(front) + Len(back)
          /\ \A k \in 1 .. Len(front) + Len(back) :
               w[k] = IF k <= Len(front) THEN front[k] ELSE back[k - Len(front)]
      BY <1>3, <1>4, ConcatProperties
    <2> HIDE DEF w
    <2>2. Len(w) = N - 1
      BY <1>1, <1>3, <1>4, <2>1
    <2>3. ASSUME NEW k \in 1 .. N - 1 PROVE w[k] = IF k < p THEN s[k] ELSE s[k + 1]
      <3>1. k \in 1 .. Len(front) + Len(back)
        BY <1>1, <1>3, <1>4
      <3>2. CASE k < p
        <4>1. k \in 1 .. p - 1 /\ k <= Len(front)
          BY <1>1, <1>3, <3>2
        <4> QED BY <1>3, <2>1, <3>1, <3>2, <4>1
      <3>3. CASE ~(k < p)
        <4>1. k - (p - 1) \in 1 .. N - p /\ p + (k - (p - 1)) = k + 1 /\ ~(k <= Len(front))
          BY <1>1, <1>3, <3>3
        <4> QED BY <1>3, <1>4, <2>1, <3>1, <3>3, <4>1
      <3> QED BY <3>2, <3>3
    <2> QED BY <2>1, <2>2, <2>3
  <1> HIDE DEF w
  <1> DEFINE t == Append(w, x)
  <1>6. t \in Seq(A) /\ Len(t) = N /\ t[N] = x /\ \A k \in 1 .. N - 1 : t[k] = w[k]
    <2>1. t \in Seq(A) /\ Len(t) = Len(w) + 1 /\ t[Len(w) + 1] = x /\ \A k \in 1 .. Len(w) : t[k] = w[k]
      BY <1>5, AppendProperties
    <2> HIDE DEF t
    <2> QED BY <1>1, <1>5, <2>1
  <1> HIDE DEF t
  <1>7. Moved(s, t, p, x)
    <2>1. ASSUME NEW k \in 1 .. N PROVE t[k] = IF k < p THEN s[k] ELSE IF k < N THEN s[k + 1] ELSE x
      <3>1. CASE k = N
        BY <1>1, <1>6, <3>1
      <3>2. CASE k \in 1 .. N - 1
        BY <1>1, <1>5, <1>6, <3>2
      <3> QED BY <1>1, <3>1, <3>2
    <2> QED BY <1>1, <1>6, <2>1 DEF Moved, N
  <1> QED BY <1>2, <1>6, <1>7 DEF t

LEMMA MovedStaysDistinct ==
    ASSUME NEW A, NEW s \in Seq(A), NEW t, NEW p, NEW x, Distinct(s), Moved(s, t, p, x)
    PROVE  Distinct(t)
  <1> DEFINE N == Len(s)
  <1>1. N \in Nat /\ p \in 1 .. N /\ s[p] = x /\ Len(t) = N
    BY DEF Moved
  <1> DEFINE from == [k \in 1 .. N |-> IF k < p THEN k ELSE IF k < N THEN k + 1 ELSE p]
  <1>2. \A k \in 1 .. N : t[k] = s[from[k]] /\ from[k] \in 1 .. N
    BY <1>1 DEF Moved
  <1>3. \A i, j \in 1 .. N : s[i] = s[j] => i = j
    BY DEF Distinct
  <1> HIDE DEF N
  <1>4. \A i, j \in 1 .. N : from[i] = from[j] => i = j
    BY <1>1
  <1> HIDE DEF from
  <1>5. ASSUME NEW i \in 1 .. N, NEW j \in 1 .. N, t[i] = t[j] PROVE i = j
    <2>1. from[i] = from[j]
      BY <1>2, <1>3, <1>5
    <2> QED BY <1>4, <2>1
  <1> QED BY <1>1, <1>5 DEF Distinct

LEMMA NotThere ==
    ASSUME NEW A, NEW s \in Seq(A), NEW x \in A, Distinct(s), ~ \E p \in 1 .. Len(s) : s[p] = x
    PROVE  Without(s, x) = s /\ Distinct(Append(s, x))
  <1>1. x \notin ToSet(s)
    BY DEF ToSet
  <1>2. /\ Append(s, x) \in Seq(A) /\ Len(Append(s, x)) = Len(s) + 1 /\ Append(s, x)[Len(s) + 1] = x
        /\ \A k \in 1 .. Len(s) : Append(s, x)[k] = s[k]
    BY AppendProperties
  <1> DEFINE t == Append(s, x)
             N == Len(s)
  <1>3. N \in Nat
    OBVIOUS
  <1> HIDE DEF t
  <1>4. Distinct(t)
    BY <1>2, <1>3 DEF Distinct, t
  <1> QED BY <1>1, <1>4 DEF Without, t

\* the buckets kept are of the latest hosts, in their order
LatestKept(bs, ks, rs) ==
    /\ Len(ks) = Least(MaxHosts, Len(rs)) /\ Distinct(rs)
    /\ \A i \in 1 .. Len(ks) : /\ ks[i] \in 1 .. Len(bs)
                               /\ bs[ks[i]].host = rs[Len(rs) - Len(ks) + i]

Recency == LatestKept(buckets, kept, recent)

ThrottleInv == RatesInv /\ Recency

\* a host whose bucket is found
LEMMA FoundKeeps ==
    ASSUME ThrottleTypeOK, Recency, NEW host \in Host, NEW id \in ToSet(kept), buckets[id].host = host
    PROVE  /\ Append(Without(kept, id), id) \in Seq(Nat)
           /\ Append(Without(recent, host), host) \in Seq(Host)
           /\ LatestKept(buckets, Append(Without(kept, id), id), Append(Without(recent, host), host))
           /\ id \in Numbered
  <1> DEFINE L == Len(kept)
             N == Len(recent)
             ks == Append(Without(kept, id), id)
             rs == Append(Without(recent, host), host)
  <1>1. /\ L \in Nat /\ N \in Nat /\ kept \in Seq(Nat) /\ recent \in Seq(Host)
        /\ DOMAIN kept = 1 .. L
    BY DEF ThrottleTypeOK
  <1>2. L <= N /\ L = Least(MaxHosts, N)
    BY <1>1, ThrottleAssumption DEF Recency, LatestKept, Least
  <1>3. \A i \in 1 .. L : kept[i] \in Numbered /\ buckets[kept[i]].host = recent[N - L + i] /\ N - L + i \in 1 .. N
    BY <1>1, <1>2 DEF Recency, LatestKept, Numbered
  <1>4. Distinct(recent)
    BY DEF Recency, LatestKept
  <1> HIDE DEF L, N
  <1>5. Distinct(kept)
    <2> SUFFICES ASSUME NEW i \in 1 .. L, NEW j \in 1 .. L, kept[i] = kept[j] PROVE i = j
      BY DEF Distinct, L
    <2>1. recent[N - L + i] = recent[N - L + j]
      BY <1>3
    <2>2. N - L + i = N - L + j
      BY <1>3, <1>4, <2>1 DEF Distinct, N
    <2> QED BY <1>1, <2>2
  <1>6. PICK p \in 1 .. L : kept[p] = id
    BY <1>1 DEF ToSet
  <1>7. N - L + p \in 1 .. N /\ recent[N - L + p] = host /\ id \in Numbered /\ id \in Nat
    BY <1>3, <1>6 DEF Numbered
  <1>8. ks \in Seq(Nat) /\ Moved(kept, ks, p, id)
    BY <1>1, <1>5, <1>6, <1>7, MovedToEnd DEF L
  <1>9. rs \in Seq(Host) /\ Moved(recent, rs, N - L + p, host)
    BY <1>1, <1>4, <1>7, MovedToEnd DEF N
  <1> HIDE DEF ks, rs
  <1>10. Distinct(rs)
    BY <1>1, <1>4, <1>9, MovedStaysDistinct
  <1>11. Len(ks) = L /\ Len(rs) = N
    BY <1>8, <1>9 DEF Moved, L, N
  <1>12. ASSUME NEW i \in 1 .. L
         PROVE  ks[i] \in Numbered /\ buckets[ks[i]].host = rs[N - L + i]
    <2>1. ks[i] = IF i < p THEN kept[i] ELSE IF i < L THEN kept[i + 1] ELSE id
      BY <1>8 DEF Moved, L
    <2>2. N - L + i \in 1 .. N
      BY <1>3
    <2>3. rs[N - L + i] = IF N - L + i < N - L + p THEN recent[N - L + i]
                          ELSE IF N - L + i < N THEN recent[(N - L + i) + 1] ELSE host
      BY <1>9, <2>2 DEF Moved, N
    <2>4. CASE i < p
      <3>1. N - L + i < N - L + p
        BY <1>1, <2>4
      <3> QED BY <1>3, <2>1, <2>3, <2>4, <3>1
    <2>5. CASE ~(i < p) /\ i < L
      <3>1. /\ ~(N - L + i < N - L + p) /\ N - L + i < N
            /\ i + 1 \in 1 .. L /\ N - L + (i + 1) = (N - L + i) + 1
        BY <1>1, <1>6, <2>5
      <3>2. buckets[kept[i + 1]].host = recent[(N - L + i) + 1]
        BY <1>3, <3>1
      <3> QED BY <1>3, <2>1, <2>3, <2>5, <3>1, <3>2
    <2>6. CASE ~(i < p) /\ ~(i < L)
      <3>1. ~(N - L + i < N - L + p) /\ ~(N - L + i < N)
        BY <1>1, <1>6, <2>6
      <3> QED BY <1>7, <2>1, <2>3, <2>6, <3>1
    <2> QED BY <2>4, <2>5, <2>6
  <1>13. LatestKept(buckets, ks, rs)
    BY <1>2, <1>10, <1>11, <1>12 DEF LatestKept, Numbered
  <1> QED BY <1>7, <1>8, <1>9, <1>13 DEF ks, rs

\* a host that is given a bucket
LEMMA MadeKeeps ==
    ASSUME ThrottleTypeOK, Recency, NEW host \in Host, \A id \in ToSet(kept) : buckets[id].host # host,
           NEW b \in BucketType, b.host = host
    PROVE  LET bs == Append(buckets, b)
               ks == Append(Trimmed(kept), Len(bs))
               rs == Append(Without(recent, host), host)
           IN  /\ bs \in Seq(BucketType) /\ Len(bs) = Len(buckets) + 1
               /\ \A x \in Numbered : bs[x] = buckets[x]
               /\ ks \in Seq(Nat) /\ rs \in Seq(Host) /\ LatestKept(bs, ks, rs)
  <1> DEFINE L == Len(kept)
             N == Len(recent)
             B == Len(buckets)
             bs == Append(buckets, b)
             u == Trimmed(kept)
             ks == Append(u, Len(bs))
             rs == Append(Without(recent, host), host)
  <1>1. /\ L \in Nat /\ N \in Nat /\ B \in Nat /\ kept \in Seq(Nat) /\ recent \in Seq(Host)
        /\ DOMAIN kept = 1 .. L /\ Numbered = 1 .. B
    BY DEF ThrottleTypeOK, Numbered
  <1>2. L <= N /\ L = Least(MaxHosts, N) /\ MaxHosts \in Nat /\ MaxHosts >= 1
    BY <1>1, ThrottleAssumption DEF Recency, LatestKept, Least
  <1>3. \A i \in 1 .. L : kept[i] \in 1 .. B /\ buckets[kept[i]].host = recent[N - L + i] /\ N - L + i \in 1 .. N
    BY <1>1, <1>2 DEF Recency, LatestKept
  <1>4. Distinct(recent)
    BY DEF Recency, LatestKept
  <1>5. \A i \in 1 .. L : recent[N - L + i] # host
    <2> TAKE i \in 1 .. L
    <2>1. kept[i] \in ToSet(kept)
      BY <1>1 DEF ToSet
    <2> QED BY <1>3, <2>1
  <1>6. bs \in Seq(BucketType) /\ Len(bs) = B + 1 /\ bs[B + 1] = b /\ \A x \in 1 .. B : bs[x] = buckets[x]
    <2>1. buckets \in Seq(BucketType)
      BY DEF ThrottleTypeOK
    <2> QED BY <2>1, AppendProperties
  <1>7. u \in Seq(Nat) /\ Len(u) = (IF L >= MaxHosts THEN L - 1 ELSE L)
        /\ \A i \in 1 .. Len(u) : u[i] = IF L >= MaxHosts THEN kept[i + 1] ELSE kept[i]
    <2>1. CASE L >= MaxHosts
      <3>1. kept # <<>>
        BY <1>2, <2>1
      <3>2. Tail(kept) \in Seq(Nat) /\ Len(Tail(kept)) = L - 1 /\ \A i \in 1 .. Len(Tail(kept)) : Tail(kept)[i] = kept[i + 1]
        BY <1>1, <3>1, HeadTailProperties
      <3> QED BY <2>1, <3>2 DEF Trimmed
    <2>2. CASE ~(L >= MaxHosts)
      BY <1>1, <2>2 DEF Trimmed
    <2> QED BY <2>1, <2>2
  <1> HIDE DEF L, N, B, bs, u
  <1>8. /\ ks \in Seq(Nat) /\ Len(ks) = Len(u) + 1 /\ ks[Len(u) + 1] = B + 1
        /\ \A i \in 1 .. Len(u) : ks[i] = u[i]
    <2>1. B + 1 \in Nat /\ ks = Append(u, B + 1)
      BY <1>1, <1>6
    <2> QED BY <1>7, <2>1, AppendProperties
  <1> HIDE DEF ks
  <1> DEFINE shift == IF L >= MaxHosts THEN 1 ELSE 0
             M == Len(ks)
  <1>9. /\ M = L + 1 - shift /\ M \in Nat /\ M >= 1 /\ M <= MaxHosts
        /\ shift \in {0, 1} /\ (shift = 1 => L = MaxHosts) /\ (shift = 0 => L < MaxHosts /\ L = N)
    BY <1>1, <1>2, <1>7, <1>8 DEF Least
  <1>10. \A i \in 1 .. M - 1 : ks[i] = kept[i + shift] /\ i + shift \in 1 .. L
    <2>1. M - 1 = Len(u) /\ Len(u) = L - shift
      BY <1>1, <1>7, <1>8
    <2>2. \A i \in 1 .. Len(u) : u[i] = kept[i + shift]
      BY <1>1, <1>7
    <2> HIDE DEF M, shift
    <2>3. \A i \in 1 .. Len(u) : i + shift \in 1 .. L
      BY <1>1, <1>9, <2>1
    <2> QED BY <1>8, <2>1, <2>2, <2>3
  <1>11. ks[M] = B + 1
    BY <1>8
  <1> HIDE DEF M, shift
  <1>12. \A i \in 1 .. M : ks[i] \in 1 .. B + 1 /\ bs[ks[i]].host = IF i < M THEN recent[N - L + i + shift] ELSE host
    <2> TAKE i \in 1 .. M
    <2>1. CASE i < M
      <3>1. ks[i] = kept[i + shift] /\ i + shift \in 1 .. L /\ N - L + (i + shift) = N - L + i + shift
        <4>1. i \in 1 .. M - 1
          BY <1>9, <2>1
        <4>2. ks[i] = kept[i + shift] /\ i + shift \in 1 .. L
          BY <1>10, <4>1
        <4>3. N - L + (i + shift) = N - L + i + shift
          BY <1>1, <1>9
        <4> QED BY <4>2, <4>3
      <3>2. kept[i + shift] \in 1 .. B /\ buckets[kept[i + shift]].host = recent[N - L + i + shift]
        BY <1>3, <3>1
      <3>3. ks[i] \in 1 .. B + 1 /\ bs[ks[i]] = buckets[kept[i + shift]]
        BY <1>1, <1>6, <3>1, <3>2
      <3> QED BY <2>1, <3>2, <3>3
    <2>2. CASE i = M
      BY <1>1, <1>6, <1>11, <2>2
    <2> QED BY <1>9, <2>1, <2>2
  <1>13. rs \in Seq(Host) /\ Distinct(rs) /\ Len(rs) >= M /\ M = Least(MaxHosts, Len(rs)) /\ Len(rs) \in Nat
         /\ \A i \in 1 .. M : rs[Len(rs) - M + i] = IF i < M THEN recent[N - L + i + shift] ELSE host
    <2>1. CASE ~ \E q \in 1 .. N : recent[q] = host
      <3>1. Without(recent, host) = recent /\ Distinct(Append(recent, host))
        BY <1>1, <1>4, <2>1, NotThere DEF N
      <3>2. /\ rs \in Seq(Host) /\ Len(rs) = N + 1 /\ rs[N + 1] = host
            /\ \A k \in 1 .. N : rs[k] = recent[k]
        BY <1>1, <3>1, AppendProperties DEF N
      <3>3. Distinct(rs)
        BY <3>1
      <3> HIDE DEF rs
      <3>4. M = Least(MaxHosts, N + 1)
        BY <1>1, <1>2, <1>9 DEF Least
      <3>5. M <= N + 1
        BY <1>1, <1>2, <3>4 DEF Least
      <3>6. ASSUME NEW i \in 1 .. M PROVE rs[(N + 1) - M + i] = IF i < M THEN recent[N - L + i + shift] ELSE host
        <4>1. CASE i < M
          <5>1. (N + 1) - M + i = N - L + i + shift /\ (N + 1) - M + i \in 1 .. N
            <6>1. M = L + 1 - shift /\ i \in Int /\ shift \in Int /\ 1 <= i /\ i < M /\ M <= N + 1
              BY <1>1, <1>9, <3>5, <4>1
            <6>2. (N + 1) - M + i = N - L + i + shift
              BY <1>1, <6>1
            <6>3. (N + 1) - M + i \in 1 .. N
              BY <1>1, <6>1
            <6> QED BY <6>2, <6>3
          <5> QED BY <3>2, <4>1, <5>1
        <4>2. CASE i = M
          BY <1>1, <1>9, <3>2, <4>2
        <4> QED BY <1>9, <4>1, <4>2
      <3>7. Len(rs) \in Nat /\ Len(rs) >= M
        BY <1>1, <1>9, <3>2, <3>5
      <3>8. \A i \in 1 .. M : rs[Len(rs) - M + i] = IF i < M THEN recent[N - L + i + shift] ELSE host
        <4>1. Len(rs) = N + 1
          BY <3>2
        <4> QED BY <3>6, <4>1
      <3>9. rs \in Seq(Host) /\ M = Least(MaxHosts, Len(rs))
        BY <3>2, <3>4
      <3> QED BY <3>3, <3>7, <3>8, <3>9
    <2>2. CASE \E q \in 1 .. N : recent[q] = host
      <3>1. PICK q \in 1 .. N : recent[q] = host
        BY <2>2
      <3>2. rs \in Seq(Host) /\ Moved(recent, rs, q, host)
        BY <1>1, <1>4, <3>1, MovedToEnd DEF N
      <3> HIDE DEF rs
      <3>3. Distinct(rs)
        BY <1>1, <1>4, <3>2, MovedStaysDistinct
      <3>4. /\ Len(rs) = N
            /\ \A k \in 1 .. N : rs[k] = IF k < q THEN recent[k] ELSE IF k < N THEN recent[k + 1] ELSE host
        BY <3>2 DEF Moved, N
      <3>5. q <= N - L
        <4> SUFFICES ASSUME ~(q <= N - L) PROVE FALSE
          OBVIOUS
        <4>1. q - (N - L) \in 1 .. L /\ N - L + (q - (N - L)) = q
          <5>1. N \in Nat /\ L \in Nat /\ L <= N /\ q \in Nat /\ q <= N
            BY <1>1, <1>2
          <5>2. ~(q <= N - L)
            OBVIOUS
          <5> QED BY <5>1, <5>2
        <4>2. recent[N - L + (q - (N - L))] # host
          BY <1>5, <4>1
        <4> QED BY <3>1, <4>1, <4>2
      <3>6. L = MaxHosts /\ shift = 1 /\ M = L /\ M <= N
        BY <1>1, <1>2, <1>9, <3>1, <3>5 DEF Least
      <3>7. M = Least(MaxHosts, N)
        BY <1>2, <3>6
      <3>8. ASSUME NEW i \in 1 .. M PROVE rs[N - M + i] = IF i < M THEN recent[N - L + i + shift] ELSE host
        <4>1. N - M + i \in 1 .. N /\ ~(N - M + i < q)
          BY <1>1, <3>1, <3>5, <3>6
        <4>2. rs[N - M + i] = IF N - M + i < N THEN recent[(N - M + i) + 1] ELSE host
          BY <3>4, <4>1
        <4>3. N - M + i < N <=> i < M
          BY <1>1, <1>9
        <4>4. (N - M + i) + 1 = N - L + i + shift
          BY <1>1, <3>6
        <4> QED BY <4>2, <4>3, <4>4
      <3> QED BY <1>1, <3>2, <3>3, <3>4, <3>6, <3>7, <3>8
    <2> QED BY <2>1, <2>2
  <1> HIDE DEF rs
  <1>14. LatestKept(bs, ks, rs)
    BY <1>6, <1>12, <1>13 DEF LatestKept, M
  <1> QED BY <1>1, <1>6, <1>8, <1>13, <1>14 DEF bs, ks, rs, u, B

-----------------------------------------------------------------------------
(* Every step keeps the invariant.                                           *)

LEMMA AskKeeps ==
    ASSUME ThrottleInv, NEW s \in Scraper, NEW host \in Host, NEW n \in TokenAmount, AskTokens(s, host, n)
    PROVE  ThrottleInv'
  <1>1. ThrottleTypeOK /\ BucketsHold /\ Balanced /\ GrantsWithinRate /\ Recency
    BY DEF ThrottleInv, RatesInv
  <1>2. n \in Nat /\ seconds \in Nat /\ seconds' = seconds /\ granted' = granted
    BY <1>1, ThrottleAssumption DEF AskTokens, ThrottleTypeOK
  <1>3. recent' = Append(Without(recent, host), host)
    BY DEF AskTokens
  <1> DEFINE asking(id) == [at |-> "asks", id |-> id, n |-> n, until |-> seconds]
  <1>4. ASSUME NEW id \in Nat, id \in 1 .. Len(buckets'), Len(buckets) <= Len(buckets'), Len(buckets') \in Nat,
               scraper' = [scraper EXCEPT ![s] = asking(id)]
        PROVE  /\ scraper' = [r \in Scraper |-> scraper'[r]]
               /\ \A r \in Scraper : scraper'[r] = Resting \/ scraper'[r] \in Waiting'
    <2>1. asking(id) \in Waiting'
      BY <1>2, <1>4 DEF Waiting, Numbered
    <2> HIDE DEF asking
    <2>2. scraper = [r \in Scraper |-> scraper[r]]
      BY <1>1 DEF ThrottleTypeOK
    <2>3. \A r \in Scraper : scraper[r] \in Waiting => scraper[r] \in Waiting'
      <3>1. Len(buckets) \in Nat
        BY <1>1 DEF ThrottleTypeOK
      <3>2. Numbered \subseteq Numbered'
        BY <1>4, <3>1 DEF Numbered
      <3> QED BY <3>2 DEF Waiting
    <2>4. scraper' = [r \in Scraper |-> IF r = s THEN asking(id) ELSE scraper[r]]
      BY <1>4, <2>2
    <2>5. \A r \in Scraper : scraper'[r] = IF r = s THEN asking(id) ELSE scraper[r]
      BY <2>4
    <2>6. \A r \in Scraper : scraper[r] = Resting \/ scraper[r] \in Waiting
      BY <1>1 DEF ThrottleTypeOK
    <2> QED BY <2>1, <2>3, <2>4, <2>5, <2>6
  <1>5. ASSUME NEW id \in ToSet(kept), buckets[id].host = host, kept' = MovedLast(kept, id),
               scraper' = [scraper EXCEPT ![s] = asking(id)], buckets' = buckets
        PROVE  ThrottleInv'
    <2>1. kept' \in Seq(Nat) /\ recent' \in Seq(Host) /\ LatestKept(buckets, kept', recent') /\ id \in Numbered
      BY <1>1, <1>3, <1>5, FoundKeeps DEF MovedLast
    <2>2. Recency'
      BY <1>5, <2>1 DEF Recency
    <2>3. id \in Nat /\ id \in 1 .. Len(buckets') /\ Len(buckets) <= Len(buckets') /\ Len(buckets') \in Nat
      BY <1>1, <1>5, <2>1 DEF Numbered, ThrottleTypeOK
    <2>4. ThrottleTypeOK'
      BY <1>1, <1>2, <1>4, <1>5, <2>1, <2>3 DEF ThrottleTypeOK, BucketType, GrantType
    <2>5. BucketsHold' /\ Balanced' /\ GrantsWithinRate'
      BY <1>1, <1>2, <1>5 DEF BucketsHold, Balanced, GrantsWithinRate, Numbered
    <2> QED BY <2>2, <2>4, <2>5 DEF ThrottleInv, RatesInv
  <1> DEFINE new == [host |-> host, tokens |-> RateOf[host].capacity, at |-> seconds]
  <1>6. ASSUME \A id \in ToSet(kept) : buckets[id].host # host,
               buckets' = Append(buckets, new),
               kept' = Append(Trimmed(kept), Len(buckets')),
               scraper' = [scraper EXCEPT ![s] = asking(Len(buckets'))]
        PROVE  ThrottleInv'
    <2>1. new \in BucketType /\ new.host = host /\ new.tokens <= RateOf[new.host].capacity /\ new.at <= seconds
      BY <1>2, Rates DEF BucketType
    <2> HIDE DEF new
    <2>2. /\ buckets' \in Seq(BucketType) /\ Len(buckets') = Len(buckets) + 1
          /\ \A x \in Numbered : buckets'[x] = buckets[x]
          /\ kept' \in Seq(Nat) /\ recent' \in Seq(Host) /\ LatestKept(buckets', kept', recent')
      BY <1>1, <1>3, <1>6, <2>1, MadeKeeps
    <2>3. Recency'
      BY <2>2 DEF Recency
    <2>4. Len(buckets) \in Nat /\ Numbered' = Numbered \cup {Len(buckets) + 1} /\ buckets'[Len(buckets) + 1] = new
          /\ Len(buckets') \in Nat /\ Len(buckets') \in 1 .. Len(buckets') /\ Len(buckets) <= Len(buckets')
      BY <1>1, <1>6, <2>1, <2>2 DEF Numbered, ThrottleTypeOK
    <2>5. ThrottleTypeOK'
      BY <1>1, <1>2, <1>4, <1>6, <2>2, <2>4 DEF ThrottleTypeOK, GrantType
    <2>6. BucketsHold'
      BY <1>1, <1>2, <2>1, <2>2, <2>4 DEF BucketsHold
    <2>7. \A i \in DOMAIN granted : granted[i].id \in Numbered /\ buckets'[granted[i].id] = buckets[granted[i].id]
      BY <1>1, <2>2 DEF Balanced
    <2>8. Balanced'
      BY <1>1, <1>2, <2>4, <2>7 DEF Balanced
    <2>9. GrantsWithinRate'
      BY <1>1, <1>2, <2>7 DEF GrantsWithinRate
    <2> QED BY <2>3, <2>5, <2>6, <2>8, <2>9 DEF ThrottleInv, RatesInv
  <1>7. \/ \E id \in ToSet(kept) : /\ buckets[id].host = host /\ kept' = MovedLast(kept, id)
                                   /\ scraper' = [scraper EXCEPT ![s] = asking(id)] /\ buckets' = buckets
        \/ /\ \A id \in ToSet(kept) : buckets[id].host # host
           /\ buckets' = Append(buckets, new)
           /\ kept' = Append(Trimmed(kept), Len(buckets'))
           /\ scraper' = [scraper EXCEPT ![s] = asking(Len(buckets'))]
    BY DEF AskTokens
  <1> HIDE DEF asking, new
  <1> QED BY <1>5, <1>6, <1>7

LEMMA TryKeeps == ASSUME ThrottleInv, NEW s \in Scraper, Try(s) PROVE ThrottleInv'
  <1>1. ThrottleTypeOK /\ BucketsHold /\ Recency /\ RatesInv
    BY DEF ThrottleInv, RatesInv
  <1> DEFINE id == scraper[s].id
             n == scraper[s].n
             b == buckets[id]
             tokens == Filled(b)
  <1>2. scraper[s] \in Waiting
    <2>1. scraper[s] # Resting
      BY DEF Try, Resting
    <2> QED BY <1>1, <2>1 DEF ThrottleTypeOK
  <1>3. id \in Numbered /\ n \in Nat
    BY <1>2 DEF Waiting
  <1>4. b \in BucketType /\ b.host \in Host /\ tokens \in Nat /\ seconds \in Nat
    <2>1. b \in BucketType /\ seconds \in Nat
      BY <1>1, <1>3 DEF ThrottleTypeOK, Numbered
    <2>2. b.at <= seconds /\ b.tokens <= RateOf[b.host].capacity
      BY <1>1, <1>3 DEF BucketsHold
    <2> HIDE DEF b
    <2> QED BY <2>1, <2>2, FillingIsEarned DEF BucketType
  <1>5. seconds' = seconds /\ kept' = kept /\ recent' = recent
    BY DEF Try
  <1>6. scraper = [r \in Scraper |-> scraper[r]] /\ \A r \in Scraper : scraper[r] = Resting \/ scraper[r] \in Waiting
    BY <1>1 DEF ThrottleTypeOK
  <1>7. ASSUME /\ buckets' \in Seq(BucketType) /\ Len(buckets') = Len(buckets) /\ granted' \in Seq(GrantType)
               /\ \A x \in Numbered : buckets'[x].host = buckets[x].host
               /\ BucketsHold' /\ Balanced' /\ GrantsWithinRate',
               NEW next, next = Resting \/ next \in Waiting, scraper' = [scraper EXCEPT ![s] = next]
        PROVE  ThrottleInv'
    <2>1. Recency'
      BY <1>1, <1>5, <1>7 DEF Recency, LatestKept, Numbered
    <2>2. Waiting' = Waiting
      BY <1>7 DEF Waiting, Numbered
    <2>3. scraper' = [r \in Scraper |-> IF r = s THEN next ELSE scraper[r]]
      BY <1>6, <1>7
    <2>4. scraper' = [r \in Scraper |-> scraper'[r]] /\ \A r \in Scraper : scraper'[r] = Resting \/ scraper'[r] \in Waiting'
      BY <1>6, <1>7, <2>2, <2>3
    <2>5. kept' \in Seq(Nat) /\ recent' \in Seq(Host) /\ seconds' \in Nat
      BY <1>1, <1>5 DEF ThrottleTypeOK
    <2>6. ThrottleTypeOK'
      BY <1>7, <2>4, <2>5 DEF ThrottleTypeOK, BucketType, GrantType
    <2> QED BY <1>7, <2>1, <2>6 DEF ThrottleInv, RatesInv
  <1>8. CASE tokens >= n
    <2>1. /\ buckets' = [buckets EXCEPT ![id] = Refilled(buckets[id], Filled(buckets[id]) - n)]
          /\ scraper' = [scraper EXCEPT ![s] = Resting]
          /\ granted' = Append(granted, [id |-> id, n |-> n, at |-> seconds])
      BY <1>8 DEF Try
    <2>2. n <= Filled(buckets[id])
      BY <1>3, <1>4, <1>8
    <2> HIDE DEF id, n
    <2> QED BY <1>1, <1>3, <1>5, <1>7, <2>1, <2>2, RefillKeeps
  <1>9. CASE ~(tokens >= n)
    <2> DEFINE next == [scraper[s] EXCEPT !.until = seconds + Delay(b, n - tokens)]
    <2>1. /\ buckets' = [buckets EXCEPT ![id] = Refilled(buckets[id], Filled(buckets[id]))]
          /\ scraper' = [scraper EXCEPT ![s] = next]
          /\ granted' = granted
      BY <1>9 DEF Try
    <2>2. Filled(buckets[id]) - 0 = Filled(buckets[id]) /\ 0 <= Filled(buckets[id]) /\ 0 \in Nat
      BY <1>4
    <2>3. next \in Waiting
      <3>1. RateOf[b.host].rate \in Nat /\ RateOf[b.host].rate >= 1
        BY <1>4, Rates
      <3>2. \A x \in Int, y \in Nat : y >= 1 => x \div y \in Int
        OBVIOUS
      <3>3. (n - tokens) + RateOf[b.host].rate - 1 \in Int
        BY <1>3, <1>4, <3>1
      <3>4. Delay(b, n - tokens) \in Int
        BY <3>1, <3>2, <3>3 DEF Delay
      <3>5. seconds + Delay(b, n - tokens) \in Int
        BY <1>4, <3>4
      <3> HIDE DEF b, tokens, n
      <3> QED BY <1>2, <3>5 DEF Waiting
    <2>4. buckets' = [buckets EXCEPT ![id] = Refilled(buckets[id], Filled(buckets[id]) - 0)]
      BY <2>1, <2>2
    <2> HIDE DEF id, next
    <2>5. /\ buckets' \in Seq(BucketType) /\ Len(buckets') = Len(buckets) /\ granted' \in Seq(GrantType)
          /\ \A x \in Numbered : buckets'[x].host = buckets[x].host
          /\ BucketsHold' /\ Balanced' /\ GrantsWithinRate'
      BY <1>1, <1>3, <1>5, <2>1, <2>2, <2>4, RefillKeeps
    <2> QED BY <1>7, <2>1, <2>3, <2>5
  <1> QED BY <1>8, <1>9

LEMMA ThrottleStep == ThrottleInv /\ [ThrottleNext]_throttle => ThrottleInv'
  <1> SUFFICES ASSUME ThrottleInv, [ThrottleNext]_throttle PROVE ThrottleInv'
    OBVIOUS
  <1>1. /\ ThrottleTypeOK /\ BucketsHold /\ Balanced /\ GrantsWithinRate /\ Recency
    BY DEF ThrottleInv, RatesInv
  <1>2. ASSUME NEW s \in Scraper, NEW h \in Host, NEW n \in TokenAmount, AskTokens(s, h, n) PROVE ThrottleInv'
    BY <1>2, AskKeeps
  <1>3. ASSUME NEW s \in Scraper, Try(s) PROVE ThrottleInv'
    BY <1>3, TryKeeps
  <1>4. ASSUME buckets' = buckets, kept' = kept, granted' = granted, recent' = recent,
               seconds' \in Nat, seconds <= seconds',
               scraper' = [r \in Scraper |-> scraper'[r]],
               \A r \in Scraper : scraper'[r] = Resting \/ scraper'[r] \in Waiting
        PROVE  ThrottleInv'
    <2>1. Recency'
      BY <1>1, <1>4 DEF Recency
    <2>2. ThrottleTypeOK'
      BY <1>1, <1>4 DEF ThrottleTypeOK, Waiting, Numbered, BucketType, GrantType
    <2>3. BucketsHold'
      <3> SUFFICES ASSUME NEW id \in Numbered
                   PROVE  buckets[id].tokens <= RateOf[buckets[id].host].capacity /\ buckets[id].at <= seconds'
        BY <1>4 DEF BucketsHold, Numbered
      <3>1. buckets[id] \in BucketType /\ seconds \in Nat
        BY <1>1 DEF ThrottleTypeOK, Numbered
      <3>2. buckets[id].at \in Nat
        BY <3>1 DEF BucketType
      <3>3. buckets[id].tokens <= RateOf[buckets[id].host].capacity /\ buckets[id].at <= seconds
        BY <1>1 DEF BucketsHold
      <3> QED BY <1>4, <3>1, <3>2, <3>3
    <2>4. Balanced' /\ GrantsWithinRate'
      BY <1>1, <1>4 DEF Balanced, GrantsWithinRate, Numbered
    <2> QED BY <2>1, <2>2, <2>3, <2>4 DEF ThrottleInv, RatesInv
  <1>5. seconds \in Nat /\ scraper = [r \in Scraper |-> scraper[r]]
        /\ \A r \in Scraper : scraper[r] = Resting \/ scraper[r] \in Waiting
    BY <1>1 DEF ThrottleTypeOK
  <1>6. ASSUME NEW s \in Scraper, CancelSleep(s) PROVE ThrottleInv'
    <2>1. scraper' = [r \in Scraper |-> IF r = s THEN Resting ELSE scraper[r]]
      BY <1>5, <1>6 DEF CancelSleep
    <2>2. scraper' = [r \in Scraper |-> scraper'[r]] /\ \A r \in Scraper : scraper'[r] = Resting \/ scraper'[r] \in Waiting
      BY <1>5, <2>1
    <2> QED BY <1>4, <1>5, <1>6, <2>2 DEF CancelSleep
  <1>7. CASE TimePasses
    BY <1>4, <1>5, <1>7 DEF TimePasses
  <1>8. CASE UNCHANGED throttle
    BY <1>4, <1>5, <1>8 DEF throttle
  <1> QED BY <1>2, <1>3, <1>6, <1>7, <1>8 DEF ThrottleNext

LEMMA KeptShow == ThrottleInv => RecentHostsKept
  <1> SUFFICES ASSUME ThrottleInv PROVE RecentHostsKept
    OBVIOUS
  <1> DEFINE L == Len(kept)
             N == Len(recent)
             from == IF N > MaxHosts THEN N - MaxHosts + 1 ELSE 1
             p == SubSeq(recent, from, N)
             q == [i \in DOMAIN kept |-> buckets[kept[i]].host]
  <1>1. /\ L \in Nat /\ N \in Nat /\ recent \in Seq(Host) /\ DOMAIN kept = 1 .. L
        /\ \A k \in 1 .. N : recent[k] \in Host
    BY DEF ThrottleInv, RatesInv, ThrottleTypeOK
  <1>2. L = Least(MaxHosts, N) /\ L <= N /\ MaxHosts \in Nat /\ MaxHosts >= 1
    BY <1>1, ThrottleAssumption DEF ThrottleInv, Recency, LatestKept, Least
  <1>3. \A i \in 1 .. L : buckets[kept[i]].host = recent[N - L + i]
    BY DEF ThrottleInv, Recency, LatestKept
  <1> HIDE DEF L, N
  <1>4. from = (N - L) + 1
    BY <1>1, <1>2 DEF Least
  <1> HIDE DEF from
  <1>5. /\ p \in Seq(Host)
        /\ Len(p) = IF from <= N THEN N - from + 1 ELSE 0
        /\ \A k \in 1 .. N - from + 1 : p[k] = recent[from + k - 1]
    <2>1. from \in Int /\ N \in Int /\ \A k \in from .. N : recent[k] \in Host
      BY <1>1, <1>2, <1>4
    <2> QED BY <2>1, SubSeqProperties
  <1> HIDE DEF p
  <1>6. Len(p) = L /\ \A k \in 1 .. L : p[k] = recent[N - L + k]
    <2>1. Len(p) = L /\ N - from + 1 = L
      BY <1>1, <1>2, <1>4, <1>5
    <2>2. ASSUME NEW k \in 1 .. L PROVE p[k] = recent[N - L + k]
      <3>1. from + k - 1 = N - L + k
        BY <1>1, <1>4
      <3>2. k \in 1 .. N - from + 1
        BY <2>1
      <3> QED BY <1>5, <3>1, <3>2
    <2> QED BY <2>1, <2>2
  <1>7. p = [k \in 1 .. L |-> p[k]]
    BY <1>5, <1>6
  <1>8. q = [k \in 1 .. L |-> recent[N - L + k]]
    BY <1>1, <1>3
  <1>9. q = p
    BY <1>6, <1>7, <1>8
  <1> QED BY <1>9 DEF RecentHostsKept, p, q, from, N

(* DomainRateLimiter: for any hosts, rates, limit of buckets and callers,    *)
(* however they ask, sleep, wake and are cancelled, what a bucket gives      *)
(* between two moments is what it holds and what the time between brings,    *)
(* and the buckets kept are those of the hosts asked for last.               *)
THEOREM RatesAlwaysHold == ThrottleSpec => []RateHolds
  <1>1. ThrottleInit => ThrottleInv
    <2> SUFFICES ASSUME ThrottleInit PROVE ThrottleInv
      OBVIOUS
    <2>1. ThrottleTypeOK
      BY DEF ThrottleInit, ThrottleTypeOK, Resting
    <2>2. BucketsHold /\ Balanced /\ GrantsWithinRate
      BY DEF ThrottleInit, BucketsHold, Balanced, GrantsWithinRate, Numbered
    <2>3. Recency
      BY ThrottleAssumption DEF ThrottleInit, Recency, LatestKept, Least, Distinct
    <2> QED BY <2>1, <2>2, <2>3 DEF ThrottleInv, RatesInv
  <1>2. ThrottleInv => RateHolds
    BY KeptShow DEF ThrottleInv, RatesInv, RateHolds
  <1> QED BY <1>1, <1>2, ThrottleStep, PTL DEF ThrottleSpec
=============================================================================
