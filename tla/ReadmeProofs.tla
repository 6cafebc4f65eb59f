---------------------------- MODULE ReadmeProofs ----------------------------
(***************************************************************************)
(* Theorems about what runs of the README pipeline write, and what is read *)
(* of the tables of a README: for any rows, files and commits. The folds   *)
(* are those of RecordProofs, here as the last of the values they go       *)
(* through.                                                                *)
(***************************************************************************)
EXTENDS RecordProofs, Ingestion, ReadmeTables

-----------------------------------------------------------------------------
(* Runs of the README pipeline (Ingestion)                                  *)

IngestionSpec == IngestionInit /\ [][IngestionNext]_ingestion

\* what a run carries from row to row: what Redis holds, the signatures met,
\* and the classified items
Hashes == {HashOf(row) : row \in SourceRow}
Remembered == {"NEW_ROLE", "ROLE_UPDATED", "ROLE_CLOSED", "NO_OP"}
ClassifiedRow == [row : SourceRow, file : Nat, state : Remembered]
RunType == [cache : Memories, seen : SUBSET (Nat \X Role \X Hashes), items : Seq(ClassifiedRow)]

\* every item is of a row at one of the places, and every place has an item of its role
ItemsTell(items, places) ==
    /\ \A i \in DOMAIN items : \E n \in places :
         items[i].row = readme[n[1]][n[2]] /\ items[i].file = n[1]
    /\ \A n \in places : \E i \in DOMAIN items : items[i].row.role = readme[n[1]][n[2]].role
RunTells(run, places) ==
    /\ ItemsTell(run.items, places)
    /\ \A g \in run.seen : \E i \in DOMAIN run.items : run.items[i].row.role = g[2]

LEMMA EditionsAreRows ==
    ASSUME readme \in Editions
    PROVE  /\ Len(readme) \in Nat /\ DOMAIN readme = 1 .. Len(readme)
           /\ \A f \in DOMAIN readme : /\ Len(readme[f]) \in 0 .. MaxPerFile
                                       /\ DOMAIN readme[f] = 1 .. Len(readme[f])
                                       /\ \A k \in 1 .. Len(readme[f]) : readme[f][k] \in SourceRow
  <1>1. MaxFiles \in Nat /\ MaxPerFile \in Nat
    BY IngestionAssumption
  <1>2. PICK m \in 0 .. MaxFiles : readme \in [1 .. m -> SeqOf(SourceRow, MaxPerFile)]
    BY DEF Editions, SeqOf
  <1>3. m \in Nat /\ DOMAIN readme = 1 .. m
    BY <1>1, <1>2
  <1>4. Len(readme) = m
    <2>1. readme \in Seq(SeqOf(SourceRow, MaxPerFile))
      BY <1>2, <1>3
    <2> QED BY <1>3, <2>1
  <1>5. ASSUME NEW f \in DOMAIN readme
        PROVE  /\ Len(readme[f]) \in 0 .. MaxPerFile
               /\ DOMAIN readme[f] = 1 .. Len(readme[f])
               /\ \A k \in 1 .. Len(readme[f]) : readme[f][k] \in SourceRow
    <2>1. readme[f] \in SeqOf(SourceRow, MaxPerFile)
      BY <1>2, <1>3
    <2>2. PICK l \in 0 .. MaxPerFile : readme[f] \in [1 .. l -> SourceRow]
      BY <2>1 DEF SeqOf
    <2>3. l \in Nat /\ readme[f] \in Seq(SourceRow)
      BY <1>1, <2>2
    <2>4. Len(readme[f]) = l
      BY <2>2, <2>3
    <2> QED BY <2>2, <2>4
  <1> QED BY <1>3, <1>4, <1>5

LEMMA RowKeeps ==
    ASSUME NEW run \in RunType, NEW row \in SourceRow, NEW number \in Nat
    PROVE  ClassifyRow(run, row, number) \in RunType
  <1> DEFINE signature == <<number, row.role, HashOf(row)>>
             state == Classified(run.cache[row.role], row)
             item == [row |-> row, file |-> number, state |-> state]
             cache == [run.cache EXCEPT ![row.role] = HashOf(row)]
             seen == run.seen \cup {signature}
             items == Append(run.items, item)
  <1>1. row.role \in Role /\ HashOf(row) \in Hashes
    BY IngestionAssumption DEF Hashes
  <1>2. run.cache \in Memories /\ run.seen \in SUBSET (Nat \X Role \X Hashes) /\ run.items \in Seq(ClassifiedRow)
    BY DEF RunType
  <1>3. state \in Remembered
    BY DEF Classified, Remembered
  <1>4. item \in ClassifiedRow
    BY <1>3 DEF ClassifiedRow
  <1>5. items \in Seq(ClassifiedRow)
    <2> HIDE DEF item
    <2> QED BY <1>2, <1>4
  <1>6. cache \in Memories
    BY <1>1, <1>2 DEF Memories, Hashes
  <1>7. seen \in SUBSET (Nat \X Role \X Hashes)
    BY <1>1, <1>2
  <1>8. ClassifyRow(run, row, number) \in {run, [cache |-> cache, seen |-> seen, items |-> items]}
    BY DEF ClassifyRow
  <1> HIDE DEF cache, seen, items
  <1>9. [cache |-> cache, seen |-> seen, items |-> items] \in RunType
    BY <1>5, <1>6, <1>7 DEF RunType
  <1> QED BY <1>8, <1>9

LEMMA RowTells ==
    ASSUME NEW run \in RunType, NEW places, RunTells(run, places), NEW f \in Nat, NEW k \in Nat,
           readme[f][k] \in SourceRow
    PROVE  RunTells(ClassifyRow(run, readme[f][k], f), places \cup {<<f, k>>})
  <1> DEFINE row == readme[f][k]
             signature == <<f, row.role, HashOf(row)>>
             item == [row |-> row, file |-> f, state |-> Classified(run.cache[row.role], row)]
             n == <<f, k>>
  <1>1. CASE signature \in run.seen
    <2>1. ClassifyRow(run, row, f) = run
      BY <1>1 DEF ClassifyRow
    <2>2. \E i \in DOMAIN run.items : run.items[i].row.role = row.role
      <3>1. signature[2] = row.role
        OBVIOUS
      <3> HIDE DEF signature, row
      <3> QED BY <1>1, <3>1 DEF RunTells
    <2>3. readme[n[1]][n[2]] = row
      OBVIOUS
    <2> HIDE DEF row, n
    <2> QED BY <2>1, <2>2, <2>3 DEF RunTells, ItemsTell, n, row
  <1>2. CASE signature \notin run.seen
    <2> DEFINE new == ClassifyRow(run, row, f)
               L == Len(run.items)
    <2>1. new.items = Append(run.items, item) /\ new.seen = run.seen \cup {signature}
      BY <1>2 DEF ClassifyRow
    <2>2. run.items \in Seq(ClassifiedRow) /\ item.row = row /\ item.file = f
      BY DEF RunType
    <2>3. readme[n[1]][n[2]] = row /\ n[1] = f /\ signature[2] = row.role
      OBVIOUS
    <2> HIDE DEF row, n, signature, item, new, L
    <2>4. /\ DOMAIN new.items = DOMAIN run.items \cup {L + 1} /\ new.items[L + 1] = item
          /\ \A i \in DOMAIN run.items : new.items[i] = run.items[i]
      BY <2>1, <2>2 DEF L
    <2>5. ASSUME NEW i \in DOMAIN new.items
          PROVE  \E m \in places \cup {n} : new.items[i].row = readme[m[1]][m[2]] /\ new.items[i].file = m[1]
      <3>1. CASE i = L + 1
        BY <2>2, <2>3, <2>4, <3>1
      <3>2. CASE i \in DOMAIN run.items
        BY <2>4, <3>2 DEF RunTells, ItemsTell
      <3> QED BY <2>4, <3>1, <3>2
    <2>6. ASSUME NEW m \in places \cup {n}
          PROVE  \E i \in DOMAIN new.items : new.items[i].row.role = readme[m[1]][m[2]].role
      <3>1. CASE m = n
        BY <2>2, <2>3, <2>4, <3>1
      <3>2. CASE m \in places
        <4>1. PICK i \in DOMAIN run.items : run.items[i].row.role = readme[m[1]][m[2]].role
          BY <3>2 DEF RunTells, ItemsTell
        <4> QED BY <2>4, <4>1
      <3> QED BY <3>1, <3>2
    <2>7. ASSUME NEW g \in new.seen PROVE \E i \in DOMAIN new.items : new.items[i].row.role = g[2]
      <3>1. CASE g = signature
        BY <2>2, <2>3, <2>4, <3>1
      <3>2. CASE g \in run.seen
        <4>1. PICK i \in DOMAIN run.items : run.items[i].row.role = g[2]
          BY <3>2 DEF RunTells
        <4> QED BY <2>4, <4>1
      <3> QED BY <2>1, <3>1, <3>2
    <2>8. RunTells(new, places \cup {n})
      BY <2>5, <2>6, <2>7 DEF RunTells, ItemsTell
    <2> QED BY <2>8 DEF new, n, row
  <1> QED BY <1>1, <1>2

\* the runs that ClassifyFile and ClassifyAll go through
Passes(t, N, run) == t \in [0 .. N -> RunType] /\ t[0] = run

LEMMA FileSteps ==
    ASSUME readme \in Editions, NEW run \in RunType, NEW f \in DOMAIN readme
    PROVE  \E t : /\ Passes(t, Len(readme[f]), run)
                  /\ ClassifyFile(run, f) = t[Len(readme[f])]
                  /\ \A k \in 1 .. Len(readme[f]) : t[k] = ClassifyRow(t[k - 1], readme[f][k], f)
  <1> DEFINE s == readme[f]
             N == Len(s)
             Step(sofar, row) == ClassifyRow(sofar, row, f)
             F == [i \in 1 .. N |-> [sofar \in RunType |-> Step(sofar, s[i])]]
             base == run
             Gathers(it) == it = [v \in SUBSET DOMAIN s |->
                                   IF v = {} THEN base ELSE Step(it[v \ {Max(v)}], s[Max(v)])]
  <1>1. N \in Nat /\ DOMAIN s = 1 .. N /\ f \in Nat /\ \A k \in 1 .. N : s[k] \in SourceRow
    BY EditionsAreRows
  <1>2. \A sofar \in RunType : \A k \in 1 .. N : Step(sofar, s[k]) \in RunType
    BY <1>1, RowKeeps
  <1>3. ClassifyFile(run, f) = (CHOOSE it : Gathers(it))[DOMAIN s]
    BY DEF ClassifyFile, FoldLeft, MapThenFoldSet
  <1> HIDE DEF N, s, Step
  <1>4. F \in [1 .. N -> [RunType -> RunType]]
    BY <1>2
  <1>5. PICK h \in [SUBSET (1 .. N) -> RunType] : Folding(h, N, base, F)
    <2> HIDE DEF F
    <2> QED BY <1>1, <1>4, FoldExists
  <1>6. Gathers(h)
    <2>1. ASSUME NEW v \in SUBSET (1 .. N), v # {}
          PROVE  F[Max(v)][h[v \ {Max(v)}]] = Step(h[v \ {Max(v)}], s[Max(v)])
      <3>1. Max(v) \in 1 .. N /\ v \ {Max(v)} \in SUBSET (1 .. N)
        BY <1>1, <2>1, LargestIndex
      <3> QED BY <1>5, <3>1 DEF F
    <2> HIDE DEF F
    <2> QED BY <1>1, <1>5, <2>1 DEF Folding
  <1> HIDE DEF Gathers, F, base
  <1>7. PICK it : Gathers(it) /\ ClassifyFile(run, f) = it[1 .. N]
    <2>1. Gathers(CHOOSE it : Gathers(it))
      BY <1>6
    <2> QED BY <1>1, <1>3, <2>1
  <1>8. \A v \in SUBSET (1 .. N) : it[v] = IF v = {} THEN base ELSE Step(it[v \ {Max(v)}], s[Max(v)])
    BY <1>1, <1>7 DEF Gathers
  <1> DEFINE t == [k \in 0 .. N |-> it[1 .. k]]
             K == {k \in 0 .. N : it[1 .. k] \in RunType}
  <1>9. it[1 .. 0] = base
    <2>1. 1 .. 0 = {} /\ {} \in SUBSET (1 .. N)
      OBVIOUS
    <2> QED BY <1>8, <2>1
  <1>10. ASSUME NEW k \in 1 .. N PROVE it[1 .. k] = Step(it[1 .. (k - 1)], s[k])
    <2>1. 1 .. k \in SUBSET (1 .. N) /\ 1 .. k # {} /\ Max(1 .. k) = k /\ (1 .. k) \ {k} = 1 .. (k - 1)
      BY <1>1, FirstIndices
    <2>2. it[1 .. k] = Step(it[(1 .. k) \ {Max(1 .. k)}], s[Max(1 .. k)])
      BY <1>8, <2>1
    <2> QED BY <2>1, <2>2
  <1>11. 0 .. N \subseteq K
    <2>1. 0 \in K
      BY <1>1, <1>9 DEF base
    <2>2. ASSUME NEW k \in 0 .. N, k \in K, k < N PROVE k + 1 \in K
      <3>1. k + 1 \in 1 .. N /\ (k + 1) - 1 = k /\ k + 1 \in 0 .. N
        BY <1>1, <2>2
      <3>2. it[1 .. (k + 1)] = Step(it[1 .. k], s[k + 1])
        BY <1>10, <3>1
      <3>3. it[1 .. k] \in RunType
        BY <2>2
      <3> QED BY <1>2, <3>1, <3>2, <3>3
    <2> HIDE DEF K
    <2> QED BY <1>1, <2>1, <2>2, SetInduction
  <1>12. t \in [0 .. N -> RunType] /\ t[0] = run /\ ClassifyFile(run, f) = t[N]
    BY <1>1, <1>7, <1>9, <1>11 DEF base
  <1>13. \A k \in 1 .. N : t[k] = Step(t[k - 1], s[k])
    BY <1>1, <1>10
  <1>14. Passes(t, N, run) /\ ClassifyFile(run, f) = t[N] /\ \A k \in 1 .. N : t[k] = ClassifyRow(t[k - 1], s[k], f)
    <2> HIDE DEF t
    <2> QED BY <1>12, <1>13 DEF Passes, Step
  <1> QED BY <1>14 DEF N, s

LEMMA FileKeeps ==
    ASSUME readme \in Editions, NEW run \in RunType, NEW f \in DOMAIN readme
    PROVE  /\ ClassifyFile(run, f) \in RunType
           /\ \A places : RunTells(run, places) =>
                RunTells(ClassifyFile(run, f), places \cup {<<f, k>> : k \in 1 .. Len(readme[f])})
  <1> DEFINE N == Len(readme[f])
  <1>1. PICK t : /\ Passes(t, N, run) /\ ClassifyFile(run, f) = t[N]
                 /\ \A k \in 1 .. N : t[k] = ClassifyRow(t[k - 1], readme[f][k], f)
    BY FileSteps
  <1>2. N \in Nat /\ f \in Nat /\ \A k \in 1 .. N : readme[f][k] \in SourceRow
    BY EditionsAreRows
  <1> HIDE DEF N
  <1>3. t[0] = run /\ \A k \in 0 .. N : t[k] \in RunType
    BY <1>1 DEF Passes
  <1>4. ASSUME NEW places, RunTells(run, places)
        PROVE  RunTells(t[N], places \cup {<<f, j>> : j \in 1 .. N})
    <2> DEFINE S == {k \in 0 .. N : RunTells(t[k], places \cup {<<f, j>> : j \in 1 .. k})}
    <2>1. 0 \in S
      <3>1. places \cup {<<f, j>> : j \in 1 .. 0} = places
        OBVIOUS
      <3>2. 0 \in 0 .. N
        BY <1>2
      <3> QED BY <1>3, <1>4, <3>1, <3>2
    <2>2. ASSUME NEW k \in 0 .. N, k \in S, k < N PROVE k + 1 \in S
      <3>1. k + 1 \in 1 .. N /\ (k + 1) - 1 = k /\ k + 1 \in 0 .. N /\ k + 1 \in Nat
        BY <1>2, <2>2
      <3>2. t[k + 1] = ClassifyRow(t[k], readme[f][k + 1], f)
        BY <1>1, <3>1
      <3>3. t[k] \in RunType /\ RunTells(t[k], places \cup {<<f, j>> : j \in 1 .. k})
        BY <1>3, <2>2
      <3>4. readme[f][k + 1] \in SourceRow
        BY <1>2, <3>1
      <3>5. RunTells(t[k + 1], (places \cup {<<f, j>> : j \in 1 .. k}) \cup {<<f, k + 1>>})
        <4> DEFINE before == places \cup {<<f, j>> : j \in 1 .. k}
        <4> HIDE DEF before
        <4>1. RunTells(t[k], before)
          BY <3>3 DEF before
        <4>2. RunTells(ClassifyRow(t[k], readme[f][k + 1], f), before \cup {<<f, k + 1>>})
          BY <1>2, <3>1, <3>3, <3>4, <4>1, RowTells
        <4> QED BY <3>2, <4>2 DEF before
      <3>6. 1 .. (k + 1) = (1 .. k) \cup {k + 1}
        BY <3>1
      <3>7. (places \cup {<<f, j>> : j \in 1 .. k}) \cup {<<f, k + 1>>} = places \cup {<<f, j>> : j \in 1 .. (k + 1)}
        BY <3>6
      <3> QED BY <3>1, <3>5, <3>7
    <2> HIDE DEF S
    <2>3. 0 .. N \subseteq S
      BY <1>2, <2>1, <2>2, SetInduction
    <2>4. N \in S
      BY <1>2, <2>3
    <2> QED BY <2>4 DEF S
  <1>5. N \in 0 .. N
    BY <1>2
  <1> QED BY <1>1, <1>3, <1>4, <1>5 DEF N

LEMMA AllSteps ==
    ASSUME readme \in Editions, NEW cache \in Memories
    PROVE  \E t : /\ Passes(t, Len(readme), [cache |-> cache, seen |-> {}, items |-> <<>>])
                  /\ ClassifyAll(cache) = t[Len(readme)]
                  /\ \A f \in DOMAIN readme : t[f] = ClassifyFile(t[f - 1], f)
  <1> DEFINE s == [i \in DOMAIN readme |-> i]
             N == Len(readme)
             base == [cache |-> cache, seen |-> {}, items |-> <<>>]
             F == [i \in 1 .. N |-> [sofar \in RunType |-> ClassifyFile(sofar, s[i])]]
             Gathers(it) == it = [v \in SUBSET DOMAIN s |->
                                   IF v = {} THEN base ELSE ClassifyFile(it[v \ {Max(v)}], s[Max(v)])]
  <1>1. N \in Nat /\ DOMAIN s = 1 .. N /\ DOMAIN readme = 1 .. N /\ \A k \in 1 .. N : s[k] = k
    BY EditionsAreRows
  <1>2. \A sofar \in RunType : \A k \in 1 .. N : ClassifyFile(sofar, s[k]) \in RunType
    BY <1>1, FileKeeps
  <1>3. ClassifyAll(cache) = (CHOOSE it : Gathers(it))[DOMAIN s]
    BY DEF ClassifyAll, FoldLeft, MapThenFoldSet
  <1>4. base \in RunType
    BY DEF RunType
  <1> HIDE DEF N, s
  <1>5. F \in [1 .. N -> [RunType -> RunType]]
    BY <1>2
  <1>6. PICK h \in [SUBSET (1 .. N) -> RunType] : Folding(h, N, base, F)
    <2> HIDE DEF F, base
    <2> QED BY <1>1, <1>4, <1>5, FoldExists
  <1>7. Gathers(h)
    <2>1. ASSUME NEW v \in SUBSET (1 .. N), v # {}
          PROVE  F[Max(v)][h[v \ {Max(v)}]] = ClassifyFile(h[v \ {Max(v)}], s[Max(v)])
      <3>1. Max(v) \in 1 .. N /\ v \ {Max(v)} \in SUBSET (1 .. N)
        BY <1>1, <2>1, LargestIndex
      <3> QED BY <1>6, <3>1 DEF F
    <2> HIDE DEF F, base
    <2> QED BY <1>1, <1>6, <2>1 DEF Folding
  <1> HIDE DEF Gathers, F, base
  <1>8. PICK it : Gathers(it) /\ ClassifyAll(cache) = it[1 .. N]
    <2>1. Gathers(CHOOSE it : Gathers(it))
      BY <1>7
    <2> QED BY <1>1, <1>3, <2>1
  <1>9. \A v \in SUBSET (1 .. N) : it[v] = IF v = {} THEN base ELSE ClassifyFile(it[v \ {Max(v)}], s[Max(v)])
    BY <1>1, <1>8 DEF Gathers
  <1> DEFINE t == [k \in 0 .. N |-> it[1 .. k]]
             K == {k \in 0 .. N : it[1 .. k] \in RunType}
  <1>10. it[1 .. 0] = base
    <2>1. 1 .. 0 = {} /\ {} \in SUBSET (1 .. N)
      OBVIOUS
    <2> QED BY <1>9, <2>1
  <1>11. ASSUME NEW k \in 1 .. N PROVE it[1 .. k] = ClassifyFile(it[1 .. (k - 1)], k)
    <2>1. 1 .. k \in SUBSET (1 .. N) /\ 1 .. k # {} /\ Max(1 .. k) = k /\ (1 .. k) \ {k} = 1 .. (k - 1)
      BY <1>1, FirstIndices
    <2>2. it[1 .. k] = ClassifyFile(it[(1 .. k) \ {Max(1 .. k)}], s[Max(1 .. k)])
      BY <1>9, <2>1
    <2> QED BY <1>1, <2>1, <2>2
  <1>12. 0 .. N \subseteq K
    <2>1. 0 \in K
      BY <1>1, <1>4, <1>10
    <2>2. ASSUME NEW k \in 0 .. N, k \in K, k < N PROVE k + 1 \in K
      <3>1. k + 1 \in 1 .. N /\ (k + 1) - 1 = k /\ k + 1 \in 0 .. N
        BY <1>1, <2>2
      <3>2. it[1 .. (k + 1)] = ClassifyFile(it[1 .. k], k + 1)
        BY <1>11, <3>1
      <3>3. it[1 .. k] \in RunType /\ s[k + 1] = k + 1
        BY <1>1, <2>2, <3>1
      <3> QED BY <1>2, <3>1, <3>2, <3>3
    <2> HIDE DEF K
    <2> QED BY <1>1, <2>1, <2>2, SetInduction
  <1>13. t \in [0 .. N -> RunType] /\ t[0] = base /\ ClassifyAll(cache) = t[N]
    BY <1>1, <1>8, <1>10, <1>12
  <1>14. \A k \in DOMAIN readme : t[k] = ClassifyFile(t[k - 1], k)
    BY <1>1, <1>11
  <1>15. Passes(t, N, base)
    <2> HIDE DEF t
    <2> QED BY <1>13 DEF Passes
  <1> HIDE DEF t
  <1> QED BY <1>13, <1>14, <1>15 DEF N, base

\* where the files list rows
Spots == {n \in (DOMAIN readme) \X (1 .. MaxPerFile) : n[2] \in DOMAIN readme[n[1]]}

LEMMA AllKeeps ==
    ASSUME readme \in Editions, NEW cache \in Memories
    PROVE  ClassifyAll(cache) \in RunType /\ ItemsTell(ClassifyAll(cache).items, Spots)
  <1> DEFINE N == Len(readme)
             base == [cache |-> cache, seen |-> {}, items |-> <<>>]
             Upto(f) == {n \in Spots : n[1] <= f}
  <1>1. PICK t : /\ Passes(t, N, base) /\ ClassifyAll(cache) = t[N]
                 /\ \A f \in DOMAIN readme : t[f] = ClassifyFile(t[f - 1], f)
    BY AllSteps
  <1>2. N \in Nat /\ DOMAIN readme = 1 .. N
    BY EditionsAreRows
  <1>3. RunTells(base, Upto(0))
    <2>1. Upto(0) = {}
      BY <1>2 DEF Spots
    <2> QED BY <2>1 DEF RunTells, ItemsTell
  <1> HIDE DEF N, base
  <1>4. t[0] = base /\ \A k \in 0 .. N : t[k] \in RunType
    BY <1>1 DEF Passes
  <1>5. ASSUME NEW f \in DOMAIN readme
        PROVE  Upto(f) = Upto(f - 1) \cup {<<f, k>> : k \in 1 .. Len(readme[f])}
    <2>1. DOMAIN readme[f] = 1 .. Len(readme[f]) /\ Len(readme[f]) \in 0 .. MaxPerFile /\ MaxPerFile \in Nat
      BY EditionsAreRows, IngestionAssumption
    <2>2. ASSUME NEW n \in Upto(f) PROVE n \in Upto(f - 1) \cup {<<f, k>> : k \in 1 .. Len(readme[f])}
      <3>1. n \in Spots /\ n[1] \in 1 .. N /\ n[1] <= f /\ n = <<n[1], n[2]>> /\ n[2] \in DOMAIN readme[n[1]]
        BY <1>2 DEF Spots
      <3>2. CASE n[1] = f
        BY <2>1, <3>1, <3>2
      <3>3. CASE n[1] # f
        BY <1>2, <3>1, <3>3
      <3> QED BY <3>2, <3>3
    <2>3. ASSUME NEW n \in Upto(f - 1) PROVE n \in Upto(f)
      <3>1. n \in Spots /\ n[1] \in 1 .. N /\ n[1] <= f - 1
        BY <1>2 DEF Spots
      <3> QED BY <1>2, <3>1
    <2>4. ASSUME NEW k \in 1 .. Len(readme[f]) PROVE <<f, k>> \in Upto(f)
      BY <1>2, <2>1 DEF Spots
    <2> HIDE DEF Upto
    <2> QED BY <2>2, <2>3, <2>4
  <1> DEFINE S == {f \in 0 .. N : RunTells(t[f], Upto(f))}
  <1> HIDE DEF Upto
  <1>6. 0 \in S
    BY <1>2, <1>3, <1>4
  <1>7. ASSUME NEW f \in 0 .. N, f \in S, f < N PROVE f + 1 \in S
    <2>1. f + 1 \in DOMAIN readme /\ (f + 1) - 1 = f /\ f + 1 \in 0 .. N
      BY <1>2, <1>7
    <2>2. t[f + 1] = ClassifyFile(t[f], f + 1)
      BY <1>1, <2>1
    <2>3. t[f] \in RunType /\ RunTells(t[f], Upto(f))
      BY <1>4, <1>7
    <2>4. RunTells(t[f + 1], Upto(f) \cup {<<f + 1, k>> : k \in 1 .. Len(readme[f + 1])})
      BY <2>1, <2>2, <2>3, FileKeeps
    <2>5. Upto(f + 1) = Upto(f) \cup {<<f + 1, k>> : k \in 1 .. Len(readme[f + 1])}
      BY <1>5, <2>1
    <2> QED BY <2>1, <2>4, <2>5
  <1> HIDE DEF S
  <1>8. N \in S
    <2>1. 0 .. N \subseteq S
      BY <1>2, <1>6, <1>7, SetInduction
    <2> QED BY <1>2, <2>1
  <1>9. Upto(N) = Spots
    BY <1>2 DEF Upto, Spots
  <1>10. RunTells(t[N], Spots)
    BY <1>8, <1>9 DEF S
  <1> QED BY <1>1, <1>2, <1>4, <1>10 DEF RunTells

-----------------------------------------------------------------------------
(* The row of a role that a run goes by                                      *)

\* the items among which Chosen chooses
ItemsOf(items, role) == {i \in DOMAIN items : items[i].row.role = role /\ Considered(items[i])}

LEMMA LastFollows ==
    ASSUME NEW items \in Seq(ClassifiedRow), NEW role, NEW N \in Nat,
           \A i \in DOMAIN items : items[i].file \in 1 .. N,
           ItemsOf(items, role) # {}
    PROVE  \E i \in ItemsOf(items, role) : \A j \in ItemsOf(items, role) \ {i} : Follows(items, i, j)
  <1> DEFINE its == ItemsOf(items, role)
             L == Len(items)
             R == [i \in 1 .. L |-> States[items[i].state]]
             Files == {items[i].file : i \in its}
  <1>1. L \in Nat /\ DOMAIN items = 1 .. L /\ \A i \in 1 .. L : items[i] \in ClassifiedRow
    OBVIOUS
  <1>2. \A i \in 1 .. L : R[i] \in 1 .. 5
    <2>1. \A state \in Remembered : States[state] \in 1 .. 5
      BY DEF Remembered, States
    <2>2. \A i \in 1 .. L : items[i].state \in Remembered
      BY <1>1 DEF ClassifiedRow
    <2> QED BY <2>1, <2>2
  <1>3. \A i, j \in 1 .. L : R[i] = R[j] => items[i].state = items[j].state
    <2>1. \A a, b \in Remembered : States[a] = States[b] => a = b
      BY DEF Remembered, States
    <2>2. \A i \in 1 .. L : items[i].state \in Remembered
      BY <1>1 DEF ClassifiedRow
    <2> QED BY <2>1, <2>2
  <1>4. \A i, j \in 1 .. L : Follows(items, i, j) <=>
          \/ items[j].file < items[i].file
          \/ items[j].file = items[i].file /\ R[j] < R[i]
          \/ items[j].file = items[i].file /\ items[j].state = items[i].state /\ j < i
    BY DEF Follows
  <1>5. its \in SUBSET (1 .. L) /\ its # {}
    BY <1>1 DEF ItemsOf
  <1> HIDE DEF its, L, R
  <1>6. PICK F \in Files : \A g \in Files : g <= F
    <2>1. Files \in SUBSET (1 .. N) /\ Files # {}
      BY <1>1, <1>5
    <2> HIDE DEF Files
    <2> QED BY <2>1, LargestIndex
  <1> DEFINE Here == {i \in its : items[i].file = F}
             Ranks5 == {R[i] : i \in Here}
  <1>7. Here # {} /\ Here \in SUBSET (1 .. L)
    BY <1>5, <1>6
  <1>8. PICK T \in Ranks5 : \A u \in Ranks5 : u <= T
    <2>1. Ranks5 \in SUBSET (1 .. 5) /\ Ranks5 # {}
      <3> HIDE DEF Here
      <3> QED BY <1>2, <1>7
    <2>2. 5 \in Nat
      OBVIOUS
    <2> HIDE DEF Ranks5
    <2> QED BY <2>1, <2>2, LargestIndex
  <1> DEFINE Top == {i \in Here : R[i] = T}
  <1>9. PICK m \in Top : \A j \in Top : j <= m
    <2>1. Top \in SUBSET (1 .. L) /\ Top # {}
      <3> HIDE DEF Here
      <3> QED BY <1>7, <1>8
    <2> HIDE DEF Top
    <2> QED BY <1>1, <2>1, LargestIndex
  <1>10. ASSUME NEW j \in its \ {m} PROVE Follows(items, m, j)
    <2>1. m \in 1 .. L /\ j \in 1 .. L /\ items[m].file = F /\ R[m] = T /\ m \in its
      BY <1>5, <1>9
    <2>2. items[j].file \in 1 .. N /\ F \in 1 .. N /\ items[j].file <= F
      BY <1>1, <1>6, <2>1
    <2>3. CASE items[j].file # F
      BY <1>4, <2>1, <2>2, <2>3
    <2>4. CASE items[j].file = F /\ R[j] # T
      <3>1. R[j] <= T /\ R[j] \in 1 .. 5 /\ T \in 1 .. 5
        BY <1>2, <1>8, <2>1, <2>4
      <3>2. R[j] < R[m]
        BY <2>1, <2>4, <3>1
      <3> QED BY <1>4, <2>1, <2>4, <3>2
    <2>5. CASE items[j].file = F /\ R[j] = T
      <3>1. j <= m /\ j # m
        BY <1>9, <2>5
      <3>2. items[j].state = items[m].state
        BY <1>3, <2>1, <2>5
      <3> QED BY <1>4, <2>1, <2>5, <3>1, <3>2
    <2> QED BY <2>3, <2>4, <2>5
  <1> QED BY <1>9, <1>10 DEF its

LEMMA RowsAreListed ==
    ASSUME NEW role
    PROVE  RowsOf(role) = {n \in Spots : readme[n[1]][n[2]].role = role}
  BY DEF RowsOf, Spots

\* the row gone by is one that the files list of the role, if they list any
LEMMA ChosenIsListed ==
    ASSUME readme \in Editions, NEW cache \in Memories, NEW role
    PROVE  LET items == ClassifyAll(cache).items IN
           /\ RowsOf(role) = {} => Chosen(items, role) = <<>>
           /\ RowsOf(role) # {} => \E n \in RowsOf(role) : \E item \in ClassifiedRow :
                /\ Chosen(items, role) = <<item>>
                /\ item.row = readme[n[1]][n[2]] /\ item.file = n[1]
  <1> DEFINE items == ClassifyAll(cache).items
             its == ItemsOf(items, role)
  <1>1. items \in Seq(ClassifiedRow) /\ ItemsTell(items, Spots)
    BY AllKeeps DEF RunType
  <1> HIDE DEF items
  <1>2. \A i \in DOMAIN items : items[i] \in ClassifiedRow
    BY <1>1
  <1>3. \A i \in DOMAIN items : Considered(items[i])
    BY <1>2 DEF Considered, ClassifiedRow, Remembered, States
  <1>4. \A i \in its : \E n \in RowsOf(role) : items[i].row = readme[n[1]][n[2]] /\ items[i].file = n[1]
    BY <1>1, RowsAreListed DEF ItemsTell, ItemsOf
  <1>5. RowsOf(role) # {} => its # {}
    <2>1. ASSUME NEW n \in RowsOf(role) PROVE its # {}
      <3>1. n \in Spots /\ readme[n[1]][n[2]].role = role
        BY RowsAreListed
      <3>2. PICK i \in DOMAIN items : items[i].row.role = readme[n[1]][n[2]].role
        BY <1>1, <3>1 DEF ItemsTell
      <3> QED BY <1>3, <3>1, <3>2 DEF ItemsOf
    <2> QED BY <2>1
  <1>6. CASE its = {}
    <2>1. Chosen(items, role) = <<>>
      BY <1>6 DEF Chosen, ItemsOf
    <2> HIDE DEF its
    <2> QED BY <1>5, <1>6, <2>1 DEF items
  <1>7. CASE its # {}
    <2>1. \A i \in DOMAIN items : items[i].file \in 1 .. Len(readme)
      <3>1. ASSUME NEW i \in DOMAIN items PROVE items[i].file \in 1 .. Len(readme)
        <4>1. PICK n \in Spots : items[i].file = n[1]
          BY <1>1 DEF ItemsTell
        <4>2. n[1] \in DOMAIN readme
          BY DEF Spots
        <4> QED BY <4>1, <4>2, EditionsAreRows
      <3> QED BY <3>1
    <2>2. Len(readme) \in Nat
      BY EditionsAreRows
    <2>3. \E i \in its : \A j \in its \ {i} : Follows(items, i, j)
      BY <1>1, <1>7, <2>1, <2>2, LastFollows
    <2> DEFINE last == CHOOSE i \in its : \A j \in its \ {i} : Follows(items, i, j)
    <2>4. last \in its
      <3> HIDE DEF its
      <3> QED BY <2>3
    <2>5. Chosen(items, role) = <<items[last]>>
      BY <1>7 DEF Chosen, ItemsOf
    <2> HIDE DEF last
    <2>6. items[last] \in ClassifiedRow
      BY <1>2, <2>4 DEF ItemsOf
    <2>7. PICK n \in RowsOf(role) : items[last].row = readme[n[1]][n[2]] /\ items[last].file = n[1]
      BY <1>4, <2>4
    <2> HIDE DEF its
    <2> QED BY <2>5, <2>6, <2>7 DEF items
  <1> QED BY <1>6, <1>7

-----------------------------------------------------------------------------
(* What a run makes of a posting                                             *)

SeenRow == [from : Nat \X Nat, id : Nat]
StatedPlaces == {row.place : row \in SourceRow}
PostingRow == [known : {TRUE}, place : StatedPlaces, closed : BOOLEAN, own : Nat, observed : SUBSET SeenRow]

\* a posting as the last run left it that went by the row
Fits(posting, row, number) ==
    /\ posting \in PostingRow
    /\ {s \in posting.observed : s.from = <<edition, number>>} = {[from |-> <<edition, number>>, id |-> row.id]}
    /\ \/ posting.place = row.place /\ posting.closed = row.closed
       \/ posting.closed /\ ~row.closed

IngestionTypeOK ==
    /\ readme \in Editions /\ edition \in Nat /\ cached \in Memories /\ settled \in BOOLEAN
    /\ stored \in [Role -> PostingRow \cup {NotStored}]
RolesFit == settled => \A r \in Role : \A n \in RowsOf(r) :
              RowsOf(r) = {n} => Fits(stored[r], readme[n[1]][n[2]], n[1])
IngestionInv == IngestionTypeOK /\ RolesFit /\ ReportIsTrue

LEMMA StoredFits ==
    ASSUME NEW item \in ClassifiedRow, NEW posting \in PostingRow \cup {NotStored}, edition \in Nat
    PROVE  Fits(Stored(item, posting), item.row, item.file)
  <1> DEFINE row == item.row
             from == <<edition, item.file>>
             seen == [from |-> from, id |-> row.id]
             fresh == [known |-> TRUE, place |-> row.place, closed |-> row.closed,
                       own |-> row.id, observed |-> {}]
             D == DecideRow(row, posting)
             basis == CASE D \in {"discover", "repost"} -> fresh
                        [] D = "ambiguous" -> posting
                        [] OTHER -> [posting EXCEPT !.place = row.place, !.closed = row.closed]
  <1>1. row \in SourceRow /\ item.file \in Nat
    BY DEF ClassifiedRow
  <1>2. row.id \in Nat /\ row.closed \in BOOLEAN /\ row.place \in StatedPlaces
    BY <1>1, IngestionAssumption DEF StatedPlaces
  <1>3. Stored(item, posting) = Observing(basis, item)
    BY DEF Stored
  <1>4. posting = NotStored => D = "discover"
    BY DEF DecideRow, NotStored
  <1>5. D = "ambiguous" => posting.closed /\ ~row.closed
    <2>1. CASE posting = NotStored
      BY <1>4, <2>1
    <2>2. CASE posting \in PostingRow
      <3>1. posting.known = TRUE /\ posting.closed \in BOOLEAN
        BY <2>2 DEF PostingRow
      <3> QED BY <1>2, <3>1 DEF DecideRow
    <2> QED BY <2>1, <2>2
  <1>6. seen \in SeenRow /\ fresh \in PostingRow
    BY <1>1, <1>2 DEF SeenRow, PostingRow
  <1> HIDE DEF D
  <1>7. /\ basis \in PostingRow
        /\ \/ basis.place = row.place /\ basis.closed = row.closed
           \/ basis.closed /\ ~row.closed
    <2>1. CASE D \in {"discover", "repost"}
      <3>1. basis = fresh
        BY <2>1
      <3> QED BY <1>6, <3>1
    <2>2. CASE D = "ambiguous"
      <3>1. basis = posting
        BY <2>2
      <3> QED BY <1>4, <1>5, <2>2, <3>1
    <2>3. CASE D \notin {"discover", "repost", "ambiguous"}
      <3>1. basis = [posting EXCEPT !.place = row.place, !.closed = row.closed]
        BY <2>3
      <3>2. posting \in PostingRow
        BY <1>4, <2>3
      <3> HIDE DEF basis, row
      <3> QED BY <1>2, <3>1, <3>2 DEF PostingRow
    <2> QED BY <2>1, <2>2, <2>3
  <1> HIDE DEF basis, fresh
  <1> DEFINE new == Observing(basis, item)
  <1>8. /\ new \in PostingRow /\ new.place = basis.place /\ new.closed = basis.closed
        /\ new.observed = {s \in basis.observed : s.from # from} \cup {seen}
    <2>1. new = [basis EXCEPT !.observed = {s \in basis.observed : s.from # from} \cup {seen}]
      BY DEF Observing
    <2> HIDE DEF new, seen, from
    <2> QED BY <1>6, <1>7, <2>1 DEF PostingRow
  <1>9. {s \in new.observed : s.from = from} = {seen}
    BY <1>8
  <1> HIDE DEF new, row
  <1> QED BY <1>3, <1>7, <1>8, <1>9 DEF Fits, new, row

LEMMA ToldIsMade ==
    ASSUME NEW item \in ClassifiedRow, NEW posting \in PostingRow \cup {NotStored}
    PROVE  \/ Told(item, posting) = Made(item, posting)
           \/ Told(item, posting) = "ROLE_CLOSED" /\ Made(item, posting) = "ROLE_UPDATED"
  <1> DEFINE row == item.row
             D == DecideRow(row, posting)
             new == Stored(item, posting)
  <1>1. row \in SourceRow /\ item.state \in Remembered
    BY DEF ClassifiedRow
  <1>2. row.closed \in BOOLEAN
    BY <1>1, IngestionAssumption
  <1>3. CASE posting = NotStored
    <2>1. posting.known = FALSE
      BY <1>3 DEF NotStored
    <2>2. D = "discover"
      BY <2>1 DEF DecideRow
    <2> QED BY <2>1, <2>2 DEF Told, Made
  <1>4. CASE posting \in PostingRow
    <2>1. posting.known = TRUE /\ posting.closed \in BOOLEAN
      BY <1>4 DEF PostingRow
    <2>2. D \in {"close", "open_update", "reopen", "repost", "ambiguous"}
      BY <1>2, <2>1 DEF DecideRow
    <2>3. D = "close" => row.closed /\ ~posting.closed
      BY <1>2, <2>1 DEF DecideRow
    <2>4. D = "open_update" => row.closed = posting.closed
      BY <1>2, <2>1 DEF DecideRow
    <2>5. D = "reopen" => ~row.closed /\ posting.closed
      BY <1>2, <2>1 DEF DecideRow
    <2>6. D = "ambiguous" => new.place = posting.place /\ new.closed = posting.closed
      BY <1>4 DEF Stored, Observing, PostingRow
    <2>7. D \in {"close", "open_update", "reopen"} => new.place = row.place /\ new.closed = row.closed
      <3>1. HAVE D \in {"close", "open_update", "reopen"}
      <3> DEFINE basis == [posting EXCEPT !.place = row.place, !.closed = row.closed]
      <3>2. new = Observing(basis, item)
        BY <3>1 DEF Stored
      <3>3. basis.place = row.place /\ basis.closed = row.closed /\ DOMAIN basis = DOMAIN posting
            /\ DOMAIN posting = {"known", "place", "closed", "own", "observed"}
        <4> HIDE DEF row
        <4> QED BY <1>4 DEF PostingRow
      <3> HIDE DEF basis
      <3> QED BY <3>2, <3>3 DEF Observing
    <2>8. D = "repost" => Told(item, posting) = "ROLE_REPOSTED" /\ Made(item, posting) = "ROLE_REPOSTED"
      BY <2>1 DEF Told, Made
    <2>9. D # "repost" => Made(item, posting) =
            IF ~posting.closed /\ new.closed THEN "ROLE_CLOSED"
            ELSE IF <<posting.place, posting.closed>> # <<new.place, new.closed>>
              THEN "ROLE_UPDATED" ELSE "NO_OP"
      BY <2>1 DEF Made
    <2>10. Told(item, posting) =
            CASE D = "repost" -> "ROLE_REPOSTED"
              [] D = "ambiguous" -> "NO_OP"
              [] D = "discover" -> "NEW_ROLE"
              [] D = "reopen" -> "ROLE_UPDATED"
              [] D = "close" -> "ROLE_CLOSED"
              [] D = "open_update" ->
                   IF HashOf(row) = <<posting.place, posting.closed>> THEN "NO_OP"
                   ELSE IF item.state \in {"NO_OP", "NEW_ROLE"} THEN "ROLE_UPDATED" ELSE item.state
      BY DEF Told
    <2> HIDE DEF D, new, row
    <2>11. CASE D = "repost"
      BY <2>8, <2>11
    <2>12. CASE D = "ambiguous"
      BY <2>6, <2>9, <2>10, <2>12
    <2>13. CASE D = "close"
      BY <2>3, <2>7, <2>9, <2>10, <2>13
    <2>14. CASE D = "reopen"
      BY <2>5, <2>7, <2>9, <2>10, <2>14
    <2>15. CASE D = "open_update"
      <3>1. Told(item, posting) = IF <<row.place, row.closed>> = <<posting.place, posting.closed>> THEN "NO_OP"
                ELSE IF item.state \in {"NO_OP", "NEW_ROLE"} THEN "ROLE_UPDATED" ELSE item.state
        BY <2>10, <2>15 DEF HashOf
      <3>2. Made(item, posting) = IF <<posting.place, posting.closed>> # <<row.place, row.closed>>
                THEN "ROLE_UPDATED" ELSE "NO_OP"
        BY <1>2, <2>1, <2>4, <2>7, <2>9, <2>15
      <3> QED BY <1>1, <3>1, <3>2 DEF Remembered
    <2> QED BY <2>2, <2>11, <2>12, <2>13, <2>14, <2>15
  <1> QED BY <1>3, <1>4

LEMMA FittingIsQuiet ==
    ASSUME NEW item \in ClassifiedRow, NEW posting, Fits(posting, item.row, item.file),
           posting.closed => item.row.closed
    PROVE  Stored(item, posting) = posting /\ Told(item, posting) = "NO_OP"
  <1> DEFINE row == item.row
             from == <<edition, item.file>>
             seen == [from |-> from, id |-> row.id]
  <1>1. row.closed \in BOOLEAN
    BY IngestionAssumption DEF ClassifiedRow
  <1>2. posting \in PostingRow /\ posting.known = TRUE /\ posting.closed \in BOOLEAN
    BY DEF Fits, PostingRow
  <1>3. posting.place = row.place /\ posting.closed = row.closed
    BY <1>1, <1>2 DEF Fits
  <1>4. DecideRow(row, posting) = "open_update"
    BY <1>1, <1>2, <1>3 DEF DecideRow
  <1>5. Told(item, posting) = "NO_OP"
    BY <1>3, <1>4 DEF Told, HashOf
  <1>6. [posting EXCEPT !.place = row.place, !.closed = row.closed] = posting
    <2> HIDE DEF row
    <2> QED BY <1>2, <1>3 DEF PostingRow
  <1>7. Stored(item, posting) = Observing(posting, item)
    <2>1. Stored(item, posting) = Observing([posting EXCEPT !.place = row.place, !.closed = row.closed], item)
      BY <1>4 DEF Stored
    <2> QED BY <1>6, <2>1
  <1>8. {s \in posting.observed : s.from # from} \cup {seen} = posting.observed
    <2>1. {s \in posting.observed : s.from = from} = {seen}
      BY DEF Fits
    <2> HIDE DEF seen, from
    <2> QED BY <2>1
  <1>9. Observing(posting, item) = [posting EXCEPT !.observed = posting.observed]
    <2>1. Observing(posting, item) = [posting EXCEPT !.observed = {s \in posting.observed : s.from # from} \cup {seen}]
      BY DEF Observing
    <2> QED BY <1>8, <2>1
  <1>10. [posting EXCEPT !.observed = posting.observed] = posting
    BY <1>2 DEF PostingRow
  <1> QED BY <1>5, <1>7, <1>9, <1>10

LEMMA OnceIsOne ==
    ASSUME readme \in Editions, NEW role, Cardinality(RowsOf(role)) <= 1
    PROVE  RowsOf(role) = {} \/ \E n \in RowsOf(role) : RowsOf(role) = {n}
  <1>1. IsFiniteSet(DOMAIN readme) /\ IsFiniteSet(1 .. MaxPerFile)
    <2>1. 1 \in Int /\ Len(readme) \in Int /\ MaxPerFile \in Int /\ DOMAIN readme = 1 .. Len(readme)
      BY EditionsAreRows, IngestionAssumption
    <2> QED BY <2>1, FS_Interval
  <1>2. IsFiniteSet((DOMAIN readme) \X (1 .. MaxPerFile))
    BY <1>1, FS_Product
  <1>3. RowsOf(role) \subseteq (DOMAIN readme) \X (1 .. MaxPerFile)
    BY DEF RowsOf
  <1>4. IsFiniteSet(RowsOf(role))
    BY <1>2, <1>3, FS_Subset
  <1>5. Cardinality(RowsOf(role)) \in Nat
    BY <1>4, FS_CardinalityType
  <1>6. CASE Cardinality(RowsOf(role)) = 0
    BY <1>4, <1>6, FS_EmptySet
  <1>7. CASE Cardinality(RowsOf(role)) = 1
    <2>1. \E n : RowsOf(role) = {n}
      BY <1>4, <1>7, FS_Singleton
    <2> QED BY <2>1
  <1> QED BY <1>5, <1>6, <1>7

\* what a run makes of a role that the files list once
LEMMA OneRowDecides ==
    ASSUME IngestionTypeOK, NEW cache \in Memories, NEW r \in Role, NEW n, RowsOf(r) = {n}
    PROVE  LET items == ClassifyAll(cache).items IN
           \E item \in ClassifiedRow :
             /\ item.row = readme[n[1]][n[2]] /\ item.file = n[1]
             /\ Persisted(items)[r] = Stored(item, stored[r])
             /\ Reported(items)[r].told = Told(item, stored[r])
  <1> DEFINE items == ClassifyAll(cache).items
  <1>1. PICK item \in ClassifiedRow : /\ Chosen(items, r) = <<item>>
                                      /\ item.row = readme[n[1]][n[2]] /\ item.file = n[1]
    <2>1. RowsOf(r) # {}
      OBVIOUS
    <2>2. PICK m \in RowsOf(r) : \E item \in ClassifiedRow :
            /\ Chosen(items, r) = <<item>> /\ item.row = readme[m[1]][m[2]] /\ item.file = m[1]
      BY <2>1, ChosenIsListed DEF IngestionTypeOK
    <2>3. m = n
      OBVIOUS
    <2> QED BY <2>2, <2>3
  <1> HIDE DEF items
  <1>2. Persisted(items)[r] = Stored(item, stored[r])
    <2>1. <<item>> # <<>> /\ <<item>>[1] = item
      OBVIOUS
    <2> QED BY <1>1, <2>1 DEF Persisted
  <1>3. Reported(items)[r].told = Told(item, stored[r])
    <2>1. <<item>> # <<>> /\ <<item>>[1] = item
      OBVIOUS
    <2>2. Reported(items)[r] = [told |-> Told(item, stored[r]), made |-> Made(item, stored[r])]
      BY <1>1, <2>1 DEF Reported
    <2> QED BY <2>2
  <1> QED BY <1>1, <1>2, <1>3 DEF items

LEMMA UnlistedStays ==
    ASSUME IngestionTypeOK, NEW cache \in Memories, NEW r \in Role, RowsOf(r) = {}
    PROVE  LET items == ClassifyAll(cache).items IN
           Persisted(items)[r] = stored[r] /\ Reported(items)[r].told = "nothing"
  <1> DEFINE items == ClassifyAll(cache).items
  <1>1. Chosen(items, r) = <<>>
    BY ChosenIsListed DEF IngestionTypeOK
  <1> HIDE DEF items
  <1>2. Persisted(items)[r] = stored[r] /\ Reported(items)[r].told = "nothing"
    BY <1>1 DEF Persisted, Reported
  <1> QED BY <1>2 DEF items

LEMMA CacheDecidesNothing == IngestionTypeOK => SqlDecides
  <1> SUFFICES ASSUME IngestionTypeOK, ListedOnce, NEW memory \in Memories
               PROVE  Persisted(ClassifyAll(memory).items) = Persisted(ClassifyAll(cached).items)
    BY DEF SqlDecides
  <1>1. cached \in Memories /\ readme \in Editions
    BY DEF IngestionTypeOK
  <1>2. ASSUME NEW r \in Role
        PROVE  Persisted(ClassifyAll(memory).items)[r] = Persisted(ClassifyAll(cached).items)[r]
    <2>1. CASE RowsOf(r) = {}
      BY <1>1, <2>1, UnlistedStays
    <2>2. CASE RowsOf(r) # {}
      <3>1. PICK n \in RowsOf(r) : RowsOf(r) = {n}
        BY <1>1, <2>2, OnceIsOne DEF ListedOnce
      <3>2. PICK one \in ClassifiedRow : /\ one.row = readme[n[1]][n[2]] /\ one.file = n[1]
                                         /\ Persisted(ClassifyAll(memory).items)[r] = Stored(one, stored[r])
        BY <3>1, OneRowDecides
      <3>3. PICK two \in ClassifiedRow : /\ two.row = readme[n[1]][n[2]] /\ two.file = n[1]
                                         /\ Persisted(ClassifyAll(cached).items)[r] = Stored(two, stored[r])
        BY <1>1, <3>1, OneRowDecides
      <3>4. Stored(one, stored[r]) = Stored(two, stored[r])
        <4>1. one.row = two.row /\ one.file = two.file
          BY <3>2, <3>3
        <4>2. \A posting : Observing(posting, one) = Observing(posting, two)
          BY <4>1 DEF Observing
        <4> QED BY <4>1, <4>2 DEF Stored
      <3> QED BY <3>2, <3>3, <3>4
    <2> QED BY <2>1, <2>2
  <1>3. \A items : Persisted(items) = [r \in Role |-> Persisted(items)[r]]
    BY DEF Persisted
  <1> QED BY <1>2, <1>3

LEMMA SettledIsQuiet == IngestionInv => RepeatsAreQuiet
  <1> SUFFICES ASSUME IngestionInv, settled, ListedOnce, NEW r \in Role, ~Contradicted(r)
               PROVE  /\ Persisted(ClassifyAll(cached).items)[r] = stored[r]
                      /\ Reported(ClassifyAll(cached).items)[r].told \in {"nothing", "NO_OP"}
    BY DEF RepeatsAreQuiet
  <1>1. cached \in Memories /\ readme \in Editions /\ IngestionTypeOK
    BY DEF IngestionInv, IngestionTypeOK
  <1>2. CASE RowsOf(r) = {}
    BY <1>1, <1>2, UnlistedStays
  <1>3. CASE RowsOf(r) # {}
    <2>1. PICK n \in RowsOf(r) : RowsOf(r) = {n}
      BY <1>1, <1>3, OnceIsOne DEF ListedOnce
    <2>2. PICK item \in ClassifiedRow : /\ item.row = readme[n[1]][n[2]] /\ item.file = n[1]
                                        /\ Persisted(ClassifyAll(cached).items)[r] = Stored(item, stored[r])
                                        /\ Reported(ClassifyAll(cached).items)[r].told = Told(item, stored[r])
      BY <1>1, <2>1, OneRowDecides
    <2>3. Fits(stored[r], item.row, item.file)
      BY <2>1, <2>2 DEF IngestionInv, RolesFit
    <2>4. stored[r].closed => item.row.closed
      BY <2>1, <2>2, <2>3 DEF Contradicted, Fits, PostingRow
    <2> QED BY <2>2, <2>3, <2>4, FittingIsQuiet
  <1> QED BY <1>2, <1>3

LEMMA IngestionStart == IngestionInit => IngestionInv
  <1> SUFFICES ASSUME IngestionInit PROVE IngestionInv
    OBVIOUS
  <1>1. IngestionTypeOK
    BY DEF IngestionInit, IngestionTypeOK, Memories
  <1>2. ReportIsTrue
    BY DEF IngestionInit, ReportIsTrue
  <1>3. RolesFit
    BY DEF IngestionInit, RolesFit
  <1> QED BY <1>1, <1>2, <1>3 DEF IngestionInv

LEMMA SynchroniseKeeps == IngestionInv /\ Synchronise => IngestionInv'
  <1> SUFFICES ASSUME IngestionInv, Synchronise PROVE IngestionInv'
    OBVIOUS
  <1> DEFINE run == ClassifyAll(cached)
  <1>1. IngestionTypeOK /\ cached \in Memories /\ readme \in Editions /\ edition \in Nat
        /\ \A r \in Role : stored[r] \in PostingRow \cup {NotStored}
    BY DEF IngestionInv, IngestionTypeOK
  <1>2. /\ cached' = run.cache /\ stored' = Persisted(run.items) /\ report' = Reported(run.items)
        /\ settled' = TRUE /\ readme' = readme /\ edition' = edition
    BY DEF Synchronise
  <1>3. run \in RunType
    BY <1>1, AllKeeps
  <1> HIDE DEF run
  <1>4. ASSUME NEW r \in Role
        PROVE  \/ RowsOf(r) = {} /\ Chosen(run.items, r) = <<>>
               \/ \E n \in RowsOf(r) : \E item \in ClassifiedRow :
                    /\ Chosen(run.items, r) = <<item>>
                    /\ item.row = readme[n[1]][n[2]] /\ item.file = n[1]
    BY <1>1, ChosenIsListed DEF run
  <1>5. ASSUME NEW r \in Role, NEW item, Chosen(run.items, r) = <<item>>
        PROVE  /\ stored'[r] = Stored(item, stored[r])
               /\ report'[r] = [told |-> Told(item, stored[r]), made |-> Made(item, stored[r])]
    <2>1. <<item>> # <<>> /\ <<item>>[1] = item
      OBVIOUS
    <2> QED BY <1>2, <1>5, <2>1 DEF Persisted, Reported
  <1>6. ASSUME NEW r \in Role, Chosen(run.items, r) = <<>>
        PROVE  stored'[r] = stored[r] /\ report'[r] = [told |-> "nothing", made |-> "nothing"]
    BY <1>2, <1>6 DEF Persisted, Reported
  <1>7. IngestionTypeOK'
    <2>1. ASSUME NEW r \in Role PROVE stored'[r] \in PostingRow \cup {NotStored}
      <3>1. CASE Chosen(run.items, r) = <<>>
        BY <1>1, <1>6, <3>1
      <3>2. ASSUME NEW item \in ClassifiedRow, Chosen(run.items, r) = <<item>>
            PROVE  stored'[r] \in PostingRow
        BY <1>1, <1>5, <3>2, StoredFits DEF Fits
      <3> QED BY <1>4, <3>1, <3>2
    <2>2. stored' = [r \in Role |-> stored'[r]]
      BY <1>2 DEF Persisted
    <2>3. run.cache \in Memories
      BY <1>3 DEF RunType
    <2> QED BY <1>1, <1>2, <2>1, <2>2, <2>3 DEF IngestionTypeOK
  <1>8. RolesFit'
    <2>1. ASSUME NEW r \in Role, NEW n \in RowsOf(r), RowsOf(r) = {n}
          PROVE  Fits(stored'[r], readme[n[1]][n[2]], n[1])
      <3>1. PICK item \in ClassifiedRow : /\ Chosen(run.items, r) = <<item>>
                                          /\ item.row = readme[n[1]][n[2]] /\ item.file = n[1]
        BY <1>4, <2>1
      <3>2. Fits(Stored(item, stored[r]), item.row, item.file)
        BY <1>1, StoredFits
      <3> QED BY <1>5, <3>1, <3>2
    <2>2. \A r : RowsOf(r)' = RowsOf(r)
      BY <1>2 DEF RowsOf
    <2>3. \A posting, row, number : Fits(posting, row, number)' <=> Fits(posting, row, number)
      BY <1>2 DEF Fits
    <2> QED BY <1>2, <2>1, <2>2, <2>3 DEF RolesFit, Fits
  <1>9. ReportIsTrue'
    <2>1. ASSUME NEW r \in Role
          PROVE  \/ report'[r].told = report'[r].made
                 \/ report'[r] = [told |-> "ROLE_CLOSED", made |-> "ROLE_UPDATED"]
      <3>1. CASE Chosen(run.items, r) = <<>>
        BY <1>6, <3>1
      <3>2. ASSUME NEW item \in ClassifiedRow, Chosen(run.items, r) = <<item>>
            PROVE  \/ report'[r].told = report'[r].made
                   \/ report'[r] = [told |-> "ROLE_CLOSED", made |-> "ROLE_UPDATED"]
        <4>1. report'[r] = [told |-> Told(item, stored[r]), made |-> Made(item, stored[r])]
          BY <1>5, <3>2
        <4>2. \/ Told(item, stored[r]) = Made(item, stored[r])
              \/ Told(item, stored[r]) = "ROLE_CLOSED" /\ Made(item, stored[r]) = "ROLE_UPDATED"
          BY <1>1, ToldIsMade
        <4> QED BY <4>1, <4>2
      <3> QED BY <1>4, <3>1, <3>2
    <2> QED BY <2>1 DEF ReportIsTrue
  <1> QED BY <1>7, <1>8, <1>9 DEF IngestionInv

LEMMA IngestionStep == IngestionInv /\ [IngestionNext]_ingestion => IngestionInv'
  <1> SUFFICES ASSUME IngestionInv, [IngestionNext]_ingestion PROVE IngestionInv'
    OBVIOUS
  <1> USE DEF IngestionInv
  <1>1. CASE Synchronise
    BY <1>1, SynchroniseKeeps
  <1>2. CASE cached' \in Memories /\ UNCHANGED <<readme, edition, stored, report, settled>>
    BY <1>2 DEF IngestionTypeOK, RolesFit, ReportIsTrue, Fits, RowsOf
  <1>3. CASE SynchroniseFails
    <2>1. ClassifyAll(cached).cache \in Memories
      BY AllKeeps DEF IngestionTypeOK, RunType
    <2> QED BY <1>2, <1>3, <2>1 DEF SynchroniseFails
  <1>4. CASE \E r \in Role : CacheLoses(r)
    <2>1. PICK r \in Role : CacheLoses(r)
      BY <1>4
    <2>2. [cached EXCEPT ![r] = <<>>] \in Memories
      BY DEF IngestionTypeOK, Memories
    <2> QED BY <1>2, <2>1, <2>2 DEF CacheLoses
  <1>5. CASE Rewrite
    <2>1. IngestionTypeOK'
      <3>1. /\ readme' \in Editions /\ edition' = edition + 1 /\ settled' = FALSE
            /\ cached' = cached /\ stored' = stored
        BY <1>5 DEF Rewrite
      <3>2. edition \in Nat /\ cached \in Memories /\ stored \in [Role -> PostingRow \cup {NotStored}]
        BY DEF IngestionTypeOK
      <3>3. edition' \in Nat /\ cached' \in Memories
        BY <3>1, <3>2
      <3>6. settled' \in BOOLEAN
        BY <3>1
      <3>4. readme' \in Editions
        BY <3>1
      <3>5. stored' \in [Role -> PostingRow \cup {NotStored}]
        BY <3>1, <3>2
      <3> QED BY <3>3, <3>4, <3>5, <3>6 DEF IngestionTypeOK
    <2> QED BY <1>5, <2>1 DEF Rewrite, RolesFit, ReportIsTrue
  <1>6. CASE UNCHANGED ingestion
    BY <1>2, <1>6 DEF ingestion, IngestionTypeOK
  <1> QED BY <1>1, <1>3, <1>4, <1>5, <1>6 DEF IngestionNext

(* A run of the README pipeline writes what SQL and the files decide,        *)
(* whatever Redis remembers, forgot or was told by a run that failed; what   *)
(* it reports of a role is what it made of it, but for a closed role that    *)
(* moved; and a run over files that have not changed writes and reports      *)
(* nothing, but for the roles that are closed and still listed as open.      *)
THEOREM RunsAlwaysFollowSql == IngestionSpec => []RunsFollowSql
  <1>1. IngestionInv => RunsFollowSql
    BY CacheDecidesNothing, SettledIsQuiet DEF IngestionInv, RunsFollowSql
  <1> QED BY <1>1, IngestionStart, IngestionStep, PTL DEF IngestionSpec

-----------------------------------------------------------------------------
(* A fold as the last of the values it goes through, from one element to the *)
(* next                                                                      *)

Traced(t, F, base, s) ==
    /\ t = [k \in 0 .. Len(s) |-> t[k]] /\ t[0] = base
    /\ \A k \in 1 .. Len(s) : t[k] = F[t[k - 1]][s[k]]

FoldOf(F, base, s) == (CHOOSE t : Traced(t, F, base, s))[Len(s)]

StepOf(F, A, X) == F \in [A -> [X -> A]]

LEMMA StepIn ==
    ASSUME NEW A, NEW X, NEW F, StepOf(F, A, X), NEW a \in A, NEW x \in X PROVE F[a][x] \in A
  BY DEF StepOf

LEMMA TraceTyped ==
    ASSUME NEW A, NEW X, NEW base \in A, NEW s \in Seq(X), NEW F, StepOf(F, A, X),
           NEW t, Traced(t, F, base, s)
    PROVE  \A k \in 0 .. Len(s) : t[k] \in A
  <1> DEFINE N == Len(s)
             S == {k \in 0 .. N : t[k] \in A}
  <1>1. N \in Nat /\ \A k \in 1 .. N : s[k] \in X
    OBVIOUS
  <1>2. t[0] = base /\ \A k \in 1 .. N : t[k] = F[t[k - 1]][s[k]]
    BY DEF Traced
  <1> HIDE DEF N
  <1>3. 0 \in S
    BY <1>1, <1>2
  <1>4. ASSUME NEW k \in 0 .. N, k \in S, k < N PROVE k + 1 \in S
    <2>1. k + 1 \in 1 .. N /\ (k + 1) - 1 = k /\ k + 1 \in 0 .. N
      BY <1>1, <1>4
    <2>2. t[k + 1] = F[t[k]][s[k + 1]] /\ s[k + 1] \in X /\ t[k] \in A
      BY <1>1, <1>2, <1>4, <2>1
    <2>3. t[k + 1] \in A
      BY <2>2, StepIn
    <2> QED BY <2>1, <2>3
  <1> HIDE DEF S
  <1>5. 0 .. N \subseteq S
    BY <1>1, <1>3, <1>4, SetInduction
  <1> QED BY <1>5 DEF S, N

LEMMA TracesAgree ==
    ASSUME NEW X, NEW base, NEW s \in Seq(X), NEW F, NEW t, NEW u,
           Traced(t, F, base, s), Traced(u, F, base, s)
    PROVE  t = u
  <1> DEFINE N == Len(s)
             S == {k \in 0 .. N : t[k] = u[k]}
  <1>1. N \in Nat
    OBVIOUS
  <1>2. /\ t[0] = u[0]
        /\ \A k \in 1 .. N : t[k] = F[t[k - 1]][s[k]] /\ u[k] = F[u[k - 1]][s[k]]
    BY DEF Traced
  <1>3. t = [k \in 0 .. N |-> t[k]] /\ u = [k \in 0 .. N |-> u[k]]
    BY DEF Traced
  <1> HIDE DEF N
  <1>4. 0 \in S
    BY <1>1, <1>2
  <1>5. ASSUME NEW k \in 0 .. N, k \in S, k < N PROVE k + 1 \in S
    <2>1. k + 1 \in 1 .. N /\ (k + 1) - 1 = k /\ k + 1 \in 0 .. N
      BY <1>1, <1>5
    <2>2. t[k + 1] = F[t[k]][s[k + 1]] /\ u[k + 1] = F[u[k]][s[k + 1]] /\ t[k] = u[k]
      BY <1>2, <1>5, <2>1
    <2> QED BY <2>1, <2>2
  <1>6. \A k \in 0 .. N : t[k] = u[k]
    <2> HIDE DEF S
    <2>1. 0 .. N \subseteq S
      BY <1>1, <1>4, <1>5, SetInduction
    <2> QED BY <2>1 DEF S
  <1>7. [k \in 0 .. N |-> t[k]] = [k \in 0 .. N |-> u[k]]
    BY <1>6
  <1> QED BY <1>3, <1>7

\* the fold over sets of indices, which the library's folds are, goes through such values
Gathered(it, F, A, base, s) ==
    /\ it[{}] = base
    /\ \A v \in SUBSET (1 .. Len(s)) : v # {} /\ it[v \ {Max(v)}] \in A =>
           it[v] = F[it[v \ {Max(v)}]][s[Max(v)]]

LEMMA TraceOfFold ==
    ASSUME NEW A, NEW X, NEW base \in A, NEW s \in Seq(X), NEW F, StepOf(F, A, X), NEW it,
           Gathered(it, F, A, base, s)
    PROVE  FoldOf(F, base, s) = it[1 .. Len(s)]
  <1> DEFINE N == Len(s)
             t == [k \in 0 .. N |-> it[1 .. k]]
             S == {k \in 0 .. N : /\ t[k] \in A
                                  /\ k # 0 => t[k] = F[t[k - 1]][s[k]]}
  <1>1. N \in Nat /\ \A k \in 1 .. N : s[k] \in X
    OBVIOUS
  <1>2. \A v \in SUBSET (1 .. N) : v # {} /\ it[v \ {Max(v)}] \in A =>
           it[v] = F[it[v \ {Max(v)}]][s[Max(v)]]
    BY DEF Gathered
  <1> HIDE DEF N
  <1>3. t[0] = base
    <2>1. 1 .. 0 = {} /\ 0 \in 0 .. N /\ it[{}] = base
      BY <1>1 DEF Gathered
    <2> QED BY <2>1
  <1>4. 0 \in S
    BY <1>1, <1>3
  <1>5. ASSUME NEW k \in 0 .. N, k \in S, k < N PROVE k + 1 \in S
    <2>1. k + 1 \in 1 .. N /\ (k + 1) - 1 = k /\ k + 1 \in 0 .. N
      BY <1>1, <1>5
    <2>2. /\ 1 .. (k + 1) \in SUBSET (1 .. N) /\ 1 .. (k + 1) # {} /\ Max(1 .. (k + 1)) = k + 1
          /\ (1 .. (k + 1)) \ {k + 1} = 1 .. k
      BY <1>1, <2>1, FirstIndices
    <2>3. t[k] = it[1 .. k] /\ t[k + 1] = it[1 .. (k + 1)] /\ t[k] \in A
      BY <1>5, <2>1
    <2> HIDE DEF t
    <2>4. (1 .. (k + 1)) \ {Max(1 .. (k + 1))} = 1 .. k
      BY <2>2
    <2>5. it[1 .. (k + 1)] = F[it[1 .. k]][s[k + 1]]
      BY <1>2, <2>2, <2>3, <2>4
    <2>6. t[k + 1] \in A /\ t[k + 1] = F[t[k]][s[k + 1]]
      BY <1>1, <2>1, <2>3, <2>5, StepIn
    <2> QED BY <2>1, <2>6
  <1>6. \A k \in 0 .. N : k # 0 => t[k] = F[t[k - 1]][s[k]]
    <2> HIDE DEF S
    <2>1. 0 .. N \subseteq S
      BY <1>1, <1>4, <1>5, SetInduction
    <2> QED BY <2>1 DEF S
  <1>7. Traced(t, F, base, s)
    <2>1. t = [k \in 0 .. N |-> t[k]]
      OBVIOUS
    <2> HIDE DEF t
    <2>2. \A k \in 1 .. N : t[k] = F[t[k - 1]][s[k]]
      <3>1. \A k \in 1 .. N : k \in 0 .. N /\ k # 0
        BY <1>1
      <3> QED BY <1>6, <3>1
    <2> QED BY <1>3, <2>1, <2>2 DEF Traced, N
  <1>8. t[N] = it[1 .. N]
    BY <1>1
  <1> HIDE DEF t
  <1>9. FoldOf(F, base, s) = t[N]
    <2>1. Traced((CHOOSE u : Traced(u, F, base, s)), F, base, s)
      BY <1>7
    <2>2. t = CHOOSE u : Traced(u, F, base, s)
      BY <1>7, <2>1, TracesAgree
    <2> QED BY <2>2 DEF FoldOf, N
  <1> QED BY <1>8, <1>9 DEF N

TracedTo(t, F, A, base, s, n) ==
    /\ t = [k \in 0 .. n |-> t[k]] /\ t[0] = base /\ \A k \in 0 .. n : t[k] \in A
    /\ \A k \in 1 .. n : t[k] = F[t[k - 1]][s[k]]

HasTrace(F, base, s) == \E t : Traced(t, F, base, s) /\ FoldOf(F, base, s) = t[Len(s)]

LEMMA TraceExists ==
    ASSUME NEW A, NEW X, NEW base \in A, NEW s \in Seq(X), NEW F, StepOf(F, A, X)
    PROVE  HasTrace(F, base, s)
  <1> DEFINE N == Len(s)
             S == {n \in 0 .. N : \E t : TracedTo(t, F, A, base, s, n)}
  <1>1. N \in Nat /\ \A k \in 1 .. N : s[k] \in X
    OBVIOUS
  <1> HIDE DEF N
  <1>2. 0 \in S
    <2> DEFINE t == [k \in 0 .. 0 |-> base]
    <2>1. t = [k \in 0 .. 0 |-> t[k]] /\ t[0] = base /\ \A k \in 0 .. 0 : t[k] \in A
      OBVIOUS
    <2>2. \A k \in 1 .. 0 : t[k] = F[t[k - 1]][s[k]]
      OBVIOUS
    <2> HIDE DEF t
    <2>3. TracedTo(t, F, A, base, s, 0) /\ 0 \in 0 .. N
      BY <1>1, <2>1, <2>2 DEF TracedTo
    <2> QED BY <2>3
  <1>3. ASSUME NEW n \in 0 .. N, n \in S, n < N PROVE n + 1 \in S
    <2>1. n + 1 \in 1 .. N /\ n + 1 \in 0 .. N /\ n \in Nat /\ n \in 0 .. n
      BY <1>1, <1>3
    <2>2. PICK t : /\ t = [k \in 0 .. n |-> t[k]] /\ t[0] = base
                   /\ \A k \in 0 .. n : t[k] \in A
                   /\ \A k \in 1 .. n : t[k] = F[t[k - 1]][s[k]]
      BY <1>3 DEF TracedTo
    <2> DEFINE new == F[t[n]][s[n + 1]]
               u == [k \in 0 .. (n + 1) |-> IF k = n + 1 THEN new ELSE t[k]]
    <2>3. new \in A
      <3>1. t[n] \in A /\ s[n + 1] \in X
        BY <1>1, <2>1, <2>2
      <3> QED BY <3>1, StepIn
    <2>4. \A k \in 0 .. n : k # n + 1 /\ k \in 0 .. (n + 1)
      BY <2>1
    <2>5. u[n + 1] = new /\ \A k \in 0 .. n : u[k] = t[k]
      BY <2>1, <2>4
    <2>6. u = [k \in 0 .. (n + 1) |-> u[k]]
      OBVIOUS
    <2> HIDE DEF u, new
    <2>7. u[0] = base
      <3>1. 0 \in 0 .. n
        BY <2>1
      <3> QED BY <2>2, <2>5, <3>1
    <2>8. \A k \in 0 .. (n + 1) : u[k] \in A
      <3>1. \A k \in 0 .. (n + 1) : k = n + 1 \/ k \in 0 .. n
        BY <2>1
      <3> QED BY <2>2, <2>3, <2>5, <3>1
    <2>9. \A k \in 1 .. (n + 1) : u[k] = F[u[k - 1]][s[k]]
      <3> TAKE k \in 1 .. (n + 1)
      <3>1. CASE k = n + 1
        <4>1. k - 1 = n
          BY <2>1, <3>1
        <4> QED BY <2>1, <2>5, <3>1, <4>1 DEF new
      <3>2. CASE k # n + 1
        <4>1. k \in 1 .. n /\ k \in 0 .. n /\ k - 1 \in 0 .. n
          BY <2>1, <3>2
        <4> QED BY <2>2, <2>5, <4>1
      <3> QED BY <3>1, <3>2
    <2>10. TracedTo(u, F, A, base, s, n + 1)
      BY <2>6, <2>7, <2>8, <2>9 DEF TracedTo
    <2> QED BY <2>1, <2>10
  <1>4. N \in S
    <2> HIDE DEF S
    <2>1. 0 .. N \subseteq S
      BY <1>1, <1>2, <1>3, SetInduction
    <2> QED BY <1>1, <2>1
  <1>5. PICK t : Traced(t, F, base, s)
    BY <1>4 DEF S, Traced, TracedTo, N
  <1>6. Traced((CHOOSE u : Traced(u, F, base, s)), F, base, s)
    BY <1>5
  <1> QED BY <1>6 DEF FoldOf, HasTrace

LEMMA FoldedNone == ASSUME NEW F, NEW base PROVE FoldOf(F, base, <<>>) = base
  <1> DEFINE t == [k \in 0 .. 0 |-> base]
  <1>1. Len(<<>>) = 0
    OBVIOUS
  <1>2. Traced(t, F, base, <<>>)
    BY <1>1 DEF Traced
  <1> HIDE DEF t
  <1>3. Traced((CHOOSE u : Traced(u, F, base, <<>>)), F, base, <<>>)
    BY <1>2
  <1> QED BY <1>1, <1>3 DEF FoldOf, Traced

LEMMA FoldedIn ==
    ASSUME NEW A, NEW X, NEW base \in A, NEW s \in Seq(X), NEW F, StepOf(F, A, X)
    PROVE  FoldOf(F, base, s) \in A
  <1>1. PICK t : Traced(t, F, base, s) /\ FoldOf(F, base, s) = t[Len(s)]
    BY TraceExists DEF HasTrace
  <1>2. \A k \in 0 .. Len(s) : t[k] \in A
    BY <1>1, TraceTyped
  <1> QED BY <1>1, <1>2

LEMMA FoldedBoth ==
    ASSUME NEW A, NEW X, NEW base \in A, NEW s \in Seq(X), NEW r \in Seq(X), NEW F, StepOf(F, A, X)
    PROVE  FoldOf(F, base, s \o r) = FoldOf(F, FoldOf(F, base, s), r)
  <1> DEFINE z == s \o r
             N == Len(s)
             M == Len(r)
  <1>1. /\ N \in Nat /\ M \in Nat /\ z \in Seq(X) /\ Len(z) = N + M
        /\ \A k \in 1 .. N : z[k] = s[k]
        /\ \A k \in 1 .. M : z[N + k] = r[k]
    BY ConcatProperties
  <1>2. PICK t : Traced(t, F, base, s) /\ FoldOf(F, base, s) = t[N]
    BY TraceExists DEF HasTrace
  <1>3. t[N] \in A
    BY <1>2, FoldedIn
  <1>4. PICK u : Traced(u, F, t[N], r) /\ FoldOf(F, t[N], r) = u[M]
    BY <1>3, TraceExists DEF HasTrace
  <1>5. t[0] = base /\ \A k \in 1 .. N : t[k] = F[t[k - 1]][s[k]]
    BY <1>2 DEF Traced
  <1>6. u[0] = t[N] /\ \A k \in 1 .. M : u[k] = F[u[k - 1]][r[k]]
    BY <1>4 DEF Traced
  <1>7. PICK w : Traced(w, F, base, z) /\ FoldOf(F, base, z) = w[N + M]
    <2>1. PICK w : Traced(w, F, base, z) /\ FoldOf(F, base, z) = w[Len(z)]
      <3>1. z \in Seq(X)
        BY <1>1
      <3> HIDE DEF z
      <3> QED BY <3>1, TraceExists DEF HasTrace
    <2> QED BY <1>1, <2>1
  <1>8. w[0] = base /\ \A k \in 1 .. N + M : w[k] = F[w[k - 1]][z[k]]
    BY <1>1, <1>7 DEF Traced
  <1> HIDE DEF N, M, z
  <1>9. w[N] = t[N]
    <2> DEFINE S == {k \in 0 .. N : w[k] = t[k]}
    <2>1. 0 \in S
      BY <1>1, <1>5, <1>8
    <2>2. ASSUME NEW k \in 0 .. N, k \in S, k < N PROVE k + 1 \in S
      <3>1. k + 1 \in 1 .. N /\ k + 1 \in 1 .. N + M /\ (k + 1) - 1 = k /\ k + 1 \in 0 .. N
        BY <1>1, <2>2
      <3>2. w[k + 1] = F[w[k]][z[k + 1]] /\ t[k + 1] = F[t[k]][s[k + 1]]
        BY <1>5, <1>8, <3>1
      <3>3. w[k] = t[k] /\ z[k + 1] = s[k + 1]
        BY <1>1, <2>2, <3>1
      <3> QED BY <3>1, <3>2, <3>3
    <2> HIDE DEF S
    <2>3. 0 .. N \subseteq S
      BY <1>1, <2>1, <2>2, SetInduction
    <2>4. N \in S
      BY <1>1, <2>3
    <2> QED BY <2>4 DEF S
  <1>10. w[N + M] = u[M]
    <2> DEFINE S == {k \in 0 .. M : w[N + k] = u[k]}
    <2>1. 0 \in S
      BY <1>1, <1>6, <1>9
    <2>2. ASSUME NEW k \in 0 .. M, k \in S, k < M PROVE k + 1 \in S
      <3>1. /\ k + 1 \in 1 .. M /\ (k + 1) - 1 = k /\ k + 1 \in 0 .. M
            /\ N + (k + 1) \in 1 .. N + M /\ (N + (k + 1)) - 1 = N + k
        BY <1>1, <2>2
      <3>2. w[N + (k + 1)] = F[w[N + k]][z[N + (k + 1)]] /\ u[k + 1] = F[u[k]][r[k + 1]]
        BY <1>6, <1>8, <3>1
      <3>3. w[N + k] = u[k] /\ z[N + (k + 1)] = r[k + 1]
        BY <1>1, <2>2, <3>1
      <3> QED BY <3>1, <3>2, <3>3
    <2> HIDE DEF S
    <2>3. 0 .. M \subseteq S
      BY <1>1, <2>1, <2>2, SetInduction
    <2>4. M \in S
      BY <1>1, <2>3
    <2> QED BY <2>4 DEF S
  <1> QED BY <1>2, <1>4, <1>7, <1>10 DEF z

LEMMA FoldedOne ==
    ASSUME NEW A, NEW X, NEW base \in A, NEW x \in X, NEW F, StepOf(F, A, X)
    PROVE  FoldOf(F, base, <<x>>) = F[base][x]
  <1>1. <<x>> \in Seq(X) /\ Len(<<x>>) = 1 /\ <<x>>[1] = x
    OBVIOUS
  <1>2. PICK t : Traced(t, F, base, <<x>>) /\ FoldOf(F, base, <<x>>) = t[1]
    <2> DEFINE s == <<x>>
    <2>1. s \in Seq(X)
      BY <1>1
    <2> HIDE DEF s
    <2>2. PICK t : Traced(t, F, base, s) /\ FoldOf(F, base, s) = t[Len(s)]
      BY <2>1, TraceExists DEF HasTrace
    <2> QED BY <1>1, <2>2 DEF s
  <1>3. t[0] = base /\ t[1] = F[t[1 - 1]][<<x>>[1]]
    BY <1>1, <1>2 DEF Traced
  <1>4. t[1] = F[base][x]
    BY <1>1, <1>3
  <1> QED BY <1>2, <1>4

\* what a concatenation of sequences is, from one of them to the next
HasSteps(X, n, ss) ==
    \E h \in [0 .. n -> Seq(X)] :
      /\ h[0] = <<>> /\ FlattenSeq(ss) = h[n]
      /\ \A k \in 1 .. n : h[k] = h[k - 1] \o ss[k]

LEMMA FlattenSteps ==
    ASSUME NEW X, NEW n \in Nat, NEW ss \in [1 .. n -> Seq(X)]
    PROVE  HasSteps(X, n, ss)
  <1>1. ss \in Seq(Seq(X)) /\ Len(ss) = n
    OBVIOUS
  <1>2. CASE n = 0
    <2>1. FlattenSeq(ss) = <<>>
      BY <1>1, <1>2 DEF FlattenSeq
    <2> DEFINE h == [k \in 0 .. n |-> <<>>]
    <2>2. h \in [0 .. n -> Seq(X)] /\ h[0] = <<>> /\ FlattenSeq(ss) = h[n]
      BY <1>2, <2>1
    <2>3. 1 .. n = {}
      BY <1>2
    <2> HIDE DEF h
    <2> QED BY <2>2, <2>3 DEF HasSteps
  <1>3. CASE n # 0
    <2> DEFINE Flat(h) == h = [i \in 1 .. Len(ss) |-> IF i = 1 THEN ss[i] ELSE h[i - 1] \o ss[i]]
    <2>1. \E h : Flat(h)
      <3>1. PICK h \in [1 .. n -> Seq(X)] : Flattening(h, n, ss)
        BY FlattenExists
      <3>2. Flat(h)
        BY <1>1, <3>1 DEF Flattening
      <3> QED BY <3>2
    <2>2. FlattenSeq(ss) = (CHOOSE h : Flat(h))[Len(ss)]
      BY <1>1, <1>3 DEF FlattenSeq
    <2> HIDE DEF Flat
    <2>3. PICK h : Flat(h) /\ FlattenSeq(ss) = h[n]
      <3>1. Flat(CHOOSE h : Flat(h))
        BY <2>1
      <3> QED BY <1>1, <2>2, <3>1
    <2>4. \A k \in 1 .. n : h[k] = IF k = 1 THEN ss[k] ELSE h[k - 1] \o ss[k]
      BY <1>1, <2>3 DEF Flat
    <2> DEFINE g == [k \in 0 .. n |-> IF k = 0 THEN <<>> ELSE h[k]]
               S == {k \in 0 .. n : g[k] \in Seq(X)}
    <2>5. g[0] = <<>> /\ g[n] = h[n]
      BY <1>3
    <2>6. \A k \in 1 .. n : g[k] = IF k = 1 THEN ss[k] ELSE g[k - 1] \o ss[k]
      <3> TAKE k \in 1 .. n
      <3>1. k # 0 /\ k \in 0 .. n /\ g[k] = h[k]
        OBVIOUS
      <3>2. k # 1 => k - 1 \in 0 .. n /\ k - 1 # 0 /\ g[k - 1] = h[k - 1]
        OBVIOUS
      <3> HIDE DEF g
      <3> QED BY <2>4, <3>1, <3>2
    <2>7. g = [k \in 0 .. n |-> g[k]]
      OBVIOUS
    <2> HIDE DEF g
    <2>8. \A k \in 1 .. n : g[k] = g[k - 1] \o ss[k]
      <3> TAKE k \in 1 .. n
      <3>1. CASE k = 1
        <4>1. ss[1] \in Seq(X) /\ <<>> \o ss[1] = ss[1]
          <5>1. ss[1] \in Seq(X)
            BY <3>1
          <5> QED BY <5>1, ConcatEmptySeq
        <4> QED BY <2>5, <2>6, <3>1, <4>1
      <3>2. CASE k # 1
        BY <2>6, <3>2
      <3> QED BY <3>1, <3>2
    <2>9. 0 \in S
      <3>1. 0 \in 0 .. n /\ <<>> \in Seq(X)
        OBVIOUS
      <3> QED BY <2>5, <3>1
    <2>10. ASSUME NEW k \in 0 .. n, k \in S, k < n PROVE k + 1 \in S
      <3>1. k + 1 \in 1 .. n /\ k + 1 \in 0 .. n /\ (k + 1) - 1 = k /\ ss[k + 1] \in Seq(X)
        BY <2>10
      <3>2. g[k + 1] = g[k] \o ss[k + 1] /\ g[k] \in Seq(X)
        BY <2>8, <2>10, <3>1
      <3>3. g[k + 1] \in Seq(X)
        BY <3>1, <3>2
      <3> QED BY <3>1, <3>3
    <2> HIDE DEF S
    <2>11. 0 .. n \subseteq S
      BY <2>9, <2>10, SetInduction
    <2>12. \A k \in 0 .. n : g[k] \in Seq(X)
      BY <2>11 DEF S
    <2>13. g \in [0 .. n -> Seq(X)]
      BY <2>7, <2>12
    <2> QED BY <2>3, <2>5, <2>8, <2>13 DEF HasSteps
  <1> QED BY <1>2, <1>3

-----------------------------------------------------------------------------
(* Reading the tables of a README (ReadmeTables)                             *)

ReadmeSpec == ReadmeInit /\ [][ReadmeNext]_file
EntryType == [row : RowType, mark : {"kept", "added", "removed", "edited"}]
ReadmeTypeOK == file \in Seq(EntryType)

\* lines, what they are joined to and jobs, of which those added are of the rows in S
InFile == 1 .. Len(file)
Company == {"A", "B", "same", Nobody}
PieceType == [at : InFile, k : Nat, change : Int, starts : BOOLEAN, ends : BOOLEAN]
LineType(S) == {l \in [kind : {"added", "removed"}, piece : PieceType] :
                  l.kind = "added" => l.piece.at \in S}
TextType(S) == {t \in [kind : {"added", "removed"}, pieces : Seq(PieceType)] :
                  Len(t.pieces) >= 1 /\ (t.kind = "added" => t.pieces[1].at \in S)}
JoinType(S) == [out : Seq(TextType(S)), buffer : Seq(LineType(S)), depth : Int]
JobType(S) == {j \in [at : InFile, company : Company, kind : {"added", "removed"}] :
                  j.kind = "added" => j.at \in S}
ParseType(S) == [last : Company, jobs : Seq(JobType(S))]
AddedJob(S) == {j \in JobType(S) : j.kind = "added"}
GitLine(S) == {l \in [kind : {"kept", "added", "removed"}, piece : PieceType] :
                  l.kind = "added" => l.piece.at \in S}
DiffType(S) == [lines : Seq(LineType(S)), added : Seq(LineType(S))]

LEMMA EntryTyped ==
    ASSUME ReadmeTypeOK, NEW i \in InFile
    PROVE  /\ Len(file) \in Nat /\ file[i] \in EntryType
           /\ file[i].row.company \in {"A", "B", "same"}
           /\ file[i].row.shape \in {"pipe", "tag", "spread", "open", "header"}
           /\ file[i].row.linked \in BOOLEAN
           /\ file[i].mark \in {"kept", "added", "removed", "edited"}
  <1>1. Len(file) \in Nat /\ file[i] \in EntryType
    BY DEF ReadmeTypeOK, InFile
  <1>2. file[i].row \in RowType /\ file[i].mark \in {"kept", "added", "removed", "edited"}
    BY <1>1 DEF EntryType
  <1> QED BY <1>1, <1>2 DEF RowType

LEMMA JoinFields ==
    ASSUME NEW S, NEW acc \in JoinType(S)
    PROVE  /\ acc.out \in Seq(TextType(S)) /\ acc.buffer \in Seq(LineType(S)) /\ acc.depth \in Int
           /\ acc = [out |-> acc.out, buffer |-> acc.buffer, depth |-> acc.depth]
  BY DEF JoinType

LEMMA ParseFields ==
    ASSUME NEW S, NEW acc \in ParseType(S)
    PROVE  /\ acc.last \in Company /\ acc.jobs \in Seq(JobType(S))
           /\ acc = [last |-> acc.last, jobs |-> acc.jobs]
  BY DEF ParseType

LEMMA ParseFieldsChange ==
    ASSUME NEW acc, NEW l, NEW j, acc = [last |-> l, jobs |-> j], NEW new
    PROVE  /\ [acc EXCEPT !.last = new] = [last |-> new, jobs |-> j]
           /\ [acc EXCEPT !.jobs = new] = [last |-> l, jobs |-> new]
  OBVIOUS

LEMMA TextTyped ==
    ASSUME NEW S, NEW lines \in Seq(LineType(S)), Len(lines) >= 1
    PROVE  /\ Text(lines) \in TextType(S)
           /\ Text(lines).kind = lines[1].kind /\ Len(Text(lines).pieces) = Len(lines)
           /\ \A j \in 1 .. Len(lines) : Text(lines).pieces[j] = lines[j].piece
  <1> DEFINE N == Len(lines)
             pieces == [j \in DOMAIN lines |-> lines[j].piece]
  <1>1. N \in Nat /\ N >= 1 /\ DOMAIN lines = 1 .. N /\ \A j \in 1 .. N : lines[j] \in LineType(S)
    OBVIOUS
  <1>2. \A j \in 1 .. N : lines[j].piece \in PieceType
    BY <1>1 DEF LineType
  <1>3. pieces \in [1 .. N -> PieceType]
    BY <1>1, <1>2
  <1>4. pieces \in Seq(PieceType) /\ Len(pieces) = N /\ \A j \in 1 .. N : pieces[j] = lines[j].piece
    <2>1. \A j \in 1 .. N : pieces[j] = lines[j].piece
      BY <1>1
    <2> HIDE DEF pieces, N
    <2> QED BY <1>1, <1>3, <2>1
  <1>5. Text(lines) = [kind |-> lines[1].kind, pieces |-> pieces]
    BY DEF Text
  <1> HIDE DEF pieces, N
  <1>6. 1 \in 1 .. N
    BY <1>1
  <1>7. lines[1].kind \in {"added", "removed"} /\ (lines[1].kind = "added" => lines[1].piece.at \in S)
    BY <1>1, <1>6 DEF LineType
  <1> QED BY <1>1, <1>4, <1>5, <1>6, <1>7 DEF TextType, N

LEMMA VerbatimTyped ==
    ASSUME NEW S, NEW lines \in Seq(LineType(S))
    PROVE  /\ Verbatim(lines) \in Seq(TextType(S)) /\ Len(Verbatim(lines)) = Len(lines)
           /\ \A j \in 1 .. Len(lines) : Verbatim(lines)[j] = Text(<<lines[j]>>)
  <1> DEFINE N == Len(lines)
  <1>1. N \in Nat /\ DOMAIN lines = 1 .. N /\ \A j \in 1 .. N : lines[j] \in LineType(S)
    OBVIOUS
  <1>2. Verbatim(lines) = [j \in 1 .. N |-> Text(<<lines[j]>>)]
    BY <1>1 DEF Verbatim
  <1> HIDE DEF N
  <1>3. ASSUME NEW j \in 1 .. N PROVE Text(<<lines[j]>>) \in TextType(S)
    <2> DEFINE one == <<lines[j]>>
    <2>1. one \in Seq(LineType(S)) /\ Len(one) >= 1
      BY <1>1
    <2> HIDE DEF one
    <2>2. Text(one) \in TextType(S)
      BY <2>1, TextTyped
    <2> QED BY <2>2 DEF one
  <1>4. Verbatim(lines) \in [1 .. N -> TextType(S)]
    BY <1>2, <1>3
  <1> QED BY <1>1, <1>2, <1>4 DEF N

LEMMA CoalesceTyped ==
    ASSUME NEW S, NEW acc \in JoinType(S), NEW line \in LineType(S)
    PROVE  Coalesce(acc, line) \in JoinType(S)
  <1> DEFINE depth == acc.depth + line.piece.change
             flushed == acc.out \o Verbatim(acc.buffer)
             more == Append(acc.buffer, line)
             one == <<line>>
  <1>1. acc.out \in Seq(TextType(S)) /\ acc.buffer \in Seq(LineType(S)) /\ acc.depth \in Int
    BY JoinFields
  <1>2. line.piece.change \in Int /\ depth \in Int
    BY <1>1 DEF LineType, PieceType
  <1>3. flushed \in Seq(TextType(S))
    BY <1>1, VerbatimTyped, ConcatProperties
  <1>4. more \in Seq(LineType(S)) /\ Len(more) >= 1 /\ one \in Seq(LineType(S)) /\ Len(one) >= 1
    BY <1>1
  <1> HIDE DEF depth, flushed, more, one
  <1>5. Text(more) \in TextType(S) /\ Text(one) \in TextType(S)
    BY <1>4, TextTyped
  <1>6. Append(acc.out, Text(more)) \in Seq(TextType(S)) /\ Append(flushed, Text(one)) \in Seq(TextType(S))
        /\ <<>> \in Seq(LineType(S)) /\ 0 \in Int
    BY <1>1, <1>3, <1>5
  <1>7. Coalesce(acc, line) \in
          {[out |-> Append(acc.out, Text(more)), buffer |-> <<>>, depth |-> 0],
           [out |-> acc.out, buffer |-> more, depth |-> depth],
           [out |-> flushed, buffer |-> one, depth |-> line.piece.change],
           [out |-> Append(flushed, Text(one)), buffer |-> <<>>, depth |-> 0]}
    BY DEF Coalesce, depth, flushed, more, one
  <1>8. JoinType(S) = [out : Seq(TextType(S)), buffer : Seq(LineType(S)), depth : Int]
    BY DEF JoinType
  <1>9. /\ [out |-> Append(acc.out, Text(more)), buffer |-> <<>>, depth |-> 0] \in JoinType(S)
         /\ [out |-> acc.out, buffer |-> more, depth |-> depth] \in JoinType(S)
         /\ [out |-> flushed, buffer |-> one, depth |-> line.piece.change] \in JoinType(S)
         /\ [out |-> Append(flushed, Text(one)), buffer |-> <<>>, depth |-> 0] \in JoinType(S)
    BY <1>1, <1>2, <1>3, <1>4, <1>6, <1>8
  <1> QED BY <1>7, <1>9

LEMMA ParseTyped ==
    ASSUME ReadmeTypeOK, NEW S, NEW acc \in ParseType(S), NEW text \in TextType(S)
    PROVE  Parse(acc, text) \in ParseType(S)
  <1> DEFINE at == text.pieces[1].at
             row == file[at].row
             AJob(company) == [at |-> at, company |-> company, kind |-> text.kind]
  <1>1. acc.last \in Company /\ acc.jobs \in Seq(JobType(S)) /\ acc = [last |-> acc.last, jobs |-> acc.jobs]
    BY ParseFields
  <1>2. text.pieces[1] \in PieceType /\ text.kind \in {"added", "removed"} /\ (text.kind = "added" => at \in S)
    BY DEF TextType
  <1>3. at \in InFile /\ row.company \in Company
    <2>1. at \in InFile
      BY <1>2 DEF PieceType
    <2>2. row.company \in {"A", "B", "same"}
      BY <2>1, EntryTyped
    <2> QED BY <2>1, <2>2 DEF Company
  <1>4. \A company \in Company : AJob(company) \in JobType(S)
    BY <1>2, <1>3 DEF JobType
  <1>5. \A company \in Company : Append(acc.jobs, AJob(company)) \in Seq(JobType(S))
    <2> HIDE DEF AJob
    <2> QED BY <1>1, <1>4
  <1>6. [acc EXCEPT !.last = Nobody] = [last |-> Nobody, jobs |-> acc.jobs] /\ Nobody \in Company
    <2>1. Nobody \in Company
      BY DEF Company
    <2> QED BY <1>1, <2>1, ParseFieldsChange
  <1>7. \A more : [acc EXCEPT !.jobs = more] = [last |-> acc.last, jobs |-> more]
    BY <1>1, ParseFieldsChange
  <1>8. Parse(acc, text) \in
          {acc, [last |-> Nobody, jobs |-> acc.jobs],
           [last |-> row.company, jobs |-> Append(acc.jobs, AJob(row.company))],
           [last |-> acc.last, jobs |-> Append(acc.jobs, AJob(acc.last))]}
    BY <1>6, <1>7 DEF Parse
  <1> HIDE DEF AJob, row, at
  <1>9. /\ [last |-> Nobody, jobs |-> acc.jobs] \in ParseType(S)
        /\ [last |-> row.company, jobs |-> Append(acc.jobs, AJob(row.company))] \in ParseType(S)
        /\ [last |-> acc.last, jobs |-> Append(acc.jobs, AJob(acc.last))] \in ParseType(S)
    <2>1. \A company \in Company, jobs \in Seq(JobType(S)) : [last |-> company, jobs |-> jobs] \in ParseType(S)
      BY DEF ParseType
    <2> QED BY <1>1, <1>3, <1>5, <1>6, <2>1
  <1> QED BY <1>8, <1>9

LEMMA FollowTyped ==
    ASSUME NEW S, NEW diff \in DiffType(S), NEW line \in GitLine(S)
    PROVE  Follow(diff, line) \in DiffType(S)
  <1>1. /\ diff.lines \in Seq(LineType(S)) /\ diff.added \in Seq(LineType(S))
        /\ diff = [lines |-> diff.lines, added |-> diff.added]
    BY DEF DiffType
  <1>2. line.kind # "kept" => line \in LineType(S)
    BY DEF GitLine, LineType
  <1>3. CASE line.kind = "kept"
    <2>1. diff.lines \o diff.added \in Seq(LineType(S)) /\ <<>> \in Seq(LineType(S))
      BY <1>1, ConcatProperties
    <2>2. Follow(diff, line) = [lines |-> diff.lines \o diff.added, added |-> <<>>]
      BY <1>3 DEF Follow
    <2> QED BY <2>1, <2>2 DEF DiffType
  <1>4. CASE line.kind = "removed"
    <2>1. Append(diff.lines, line) \in Seq(LineType(S))
      BY <1>1, <1>2, <1>4
    <2>2. Follow(diff, line) = [lines |-> Append(diff.lines, line), added |-> diff.added]
      BY <1>1, <1>4 DEF Follow
    <2> QED BY <1>1, <2>1, <2>2 DEF DiffType
  <1>5. CASE line.kind = "added"
    <2>1. Append(diff.added, line) \in Seq(LineType(S))
      BY <1>1, <1>2, <1>5
    <2>2. Follow(diff, line) = [lines |-> diff.lines, added |-> Append(diff.added, line)]
      BY <1>1, <1>5 DEF Follow
    <2> QED BY <1>1, <2>1, <2>2 DEF DiffType
  <1> QED BY <1>3, <1>4, <1>5 DEF GitLine

LEMMA AdmitTyped ==
    ASSUME NEW S, NEW found \in Seq(AddedJob(S)), NEW job \in JobType(S)
    PROVE  Admit(found, job) \in Seq(AddedJob(S))
  <1>1. job.kind # "removed" => job \in AddedJob(S)
    BY DEF AddedJob, JobType
  <1> QED BY <1>1 DEF Admit

-----------------------------------------------------------------------------
(* The four folds, from one element to the next                              *)

JoinStep(S) == [acc \in JoinType(S) |-> [line \in LineType(S) |-> Coalesce(acc, line)]]
ReadStep(S) == [acc \in ParseType(S) |-> [text \in TextType(S) |-> Parse(acc, text)]]
DiffStep(S) == [diff \in DiffType(S) |-> [line \in GitLine(S) |-> Follow(diff, line)]]
PickStep(S) == [found \in Seq(AddedJob(S)) |-> [job \in JobType(S) |-> Admit(found, job)]]

LEMMA JoinIsFolded ==
    ASSUME NEW S, NEW base \in JoinType(S), NEW s \in Seq(LineType(S))
    PROVE  /\ StepOf(JoinStep(S), JoinType(S), LineType(S))
           /\ FoldLeft(Coalesce, base, s) = FoldOf(JoinStep(S), base, s)
  <1> DEFINE N == Len(s)
             A == JoinType(S)
             X == LineType(S)
             F == [i \in 1 .. N |-> [a \in A |-> Coalesce(a, s[i])]]
             Gathers(it) == it = [v \in SUBSET DOMAIN s |->
                                   IF v = {} THEN base ELSE Coalesce(it[v \ {Max(v)}], s[Max(v)])]
  <1>1. N \in Nat /\ DOMAIN s = 1 .. N /\ base \in A /\ s \in Seq(X) /\ \A k \in 1 .. N : s[k] \in X
    OBVIOUS
  <1>2. \A a \in A : \A x \in X : Coalesce(a, x) \in A
    BY CoalesceTyped
  <1>3. FoldLeft(Coalesce, base, s) = (CHOOSE it : Gathers(it))[DOMAIN s]
    BY DEF FoldLeft, MapThenFoldSet
  <1>4. JoinStep(S) = [a \in A |-> [x \in X |-> Coalesce(a, x)]]
    BY DEF JoinStep
  <1>5. \A a \in A : \A x \in X : JoinStep(S)[a][x] = Coalesce(a, x)
    <2> HIDE DEF A, X
    <2> QED BY <1>4
  <1> HIDE DEF N, A, X
  <1>6. StepOf(JoinStep(S), A, X)
    BY <1>2, <1>4 DEF StepOf
  <1>7. PICK h \in [SUBSET (1 .. N) -> A] : Folding(h, N, base, F)
    <2>1. F \in [1 .. N -> [A -> A]]
      BY <1>1, <1>2
    <2> HIDE DEF F
    <2> QED BY <1>1, <2>1, FoldExists
  <1>8. Gathers(h)
    <2>1. ASSUME NEW v \in SUBSET (1 .. N), v # {}
          PROVE  F[Max(v)][h[v \ {Max(v)}]] = Coalesce(h[v \ {Max(v)}], s[Max(v)])
      <3>1. Max(v) \in 1 .. N /\ v \ {Max(v)} \in SUBSET (1 .. N)
        BY <1>1, <2>1, LargestIndex
      <3> QED BY <1>7, <3>1 DEF F
    <2> HIDE DEF F
    <2> QED BY <1>1, <1>7, <2>1 DEF Folding
  <1> HIDE DEF Gathers, F
  <1>9. PICK it : Gathers(it) /\ FoldLeft(Coalesce, base, s) = it[1 .. N]
    <2>1. Gathers(CHOOSE it : Gathers(it))
      BY <1>8
    <2> QED BY <1>1, <1>3, <2>1
  <1>10. \A v \in SUBSET (1 .. N) : it[v] = IF v = {} THEN base ELSE Coalesce(it[v \ {Max(v)}], s[Max(v)])
    BY <1>1, <1>9 DEF Gathers
  <1>11. it[{}] = base
    BY <1>10
  <1>12. ASSUME NEW v \in SUBSET (1 .. N), v # {}, it[v \ {Max(v)}] \in A
         PROVE  it[v] = JoinStep(S)[it[v \ {Max(v)}]][s[Max(v)]]
    <2>1. Max(v) \in 1 .. N
      BY <1>1, <1>12, LargestIndex
    <2>2. s[Max(v)] \in X
      BY <1>1, <2>1
    <2>3. it[v] = Coalesce(it[v \ {Max(v)}], s[Max(v)])
      BY <1>10, <1>12
    <2> QED BY <1>5, <1>12, <2>2, <2>3
  <1>13. FoldOf(JoinStep(S), base, s) = it[1 .. N]
    <2>1. Gathered(it, JoinStep(S), A, base, s)
      BY <1>11, <1>12 DEF Gathered, N
    <2> QED BY <1>1, <1>6, <2>1, TraceOfFold DEF N
  <1> QED BY <1>6, <1>9, <1>13 DEF A, X

LEMMA JoinFolds ==
    ASSUME NEW S, NEW base \in JoinType(S)
    PROVE  /\ FoldLeft(Coalesce, base, <<>>) = base
           /\ \A x \in LineType(S) : FoldLeft(Coalesce, base, <<x>>) = Coalesce(base, x)
           /\ \A s \in Seq(LineType(S)) : FoldLeft(Coalesce, base, s) \in JoinType(S)
           /\ \A s, r \in Seq(LineType(S)) :
                FoldLeft(Coalesce, base, s \o r) = FoldLeft(Coalesce, FoldLeft(Coalesce, base, s), r)
  <1> DEFINE A == JoinType(S)
             X == LineType(S)
             F == JoinStep(S)
  <1>1. \A a \in A : \A s \in Seq(X) : StepOf(F, A, X) /\ FoldLeft(Coalesce, a, s) = FoldOf(F, a, s)
    BY JoinIsFolded
  <1>2. base \in A /\ <<>> \in Seq(X)
    OBVIOUS
  <1>3. \A x \in X : F[base][x] = Coalesce(base, x)
    BY DEF JoinStep
  <1> HIDE DEF A, X, F
  <1>4. StepOf(F, A, X)
    BY <1>1, <1>2
  <1>5. FoldLeft(Coalesce, base, <<>>) = base
    BY <1>1, <1>2, FoldedNone
  <1>6. ASSUME NEW x \in X PROVE FoldLeft(Coalesce, base, <<x>>) = Coalesce(base, x)
    <2>1. FoldLeft(Coalesce, base, <<x>>) = FoldOf(F, base, <<x>>)
      <3>1. <<x>> \in Seq(X)
        OBVIOUS
      <3> QED BY <1>1, <1>2, <3>1
    <2>2. FoldOf(F, base, <<x>>) = F[base][x]
      BY <1>2, <1>4, FoldedOne
    <2> QED BY <1>3, <2>1, <2>2
  <1>7. ASSUME NEW s \in Seq(X) PROVE FoldLeft(Coalesce, base, s) \in A
    BY <1>1, <1>2, <1>4, FoldedIn
  <1>8. ASSUME NEW s \in Seq(X), NEW r \in Seq(X)
        PROVE  FoldLeft(Coalesce, base, s \o r) = FoldLeft(Coalesce, FoldLeft(Coalesce, base, s), r)
    <2>1. s \o r \in Seq(X)
      BY ConcatProperties
    <2>2. FoldOf(F, base, s \o r) = FoldOf(F, FoldOf(F, base, s), r)
      BY <1>2, <1>4, FoldedBoth
    <2> QED BY <1>1, <1>2, <1>7, <2>1, <2>2
  <1> QED BY <1>5, <1>6, <1>7, <1>8 DEF A, X

HasJoinTrace(S, base, s) ==
    \E t \in [0 .. Len(s) -> JoinType(S)] :
      /\ t[0] = base /\ t[Len(s)] = FoldLeft(Coalesce, base, s)
      /\ \A k \in 1 .. Len(s) : t[k] = Coalesce(t[k - 1], s[k])

LEMMA JoinTrace ==
    ASSUME NEW S, NEW base \in JoinType(S), NEW s \in Seq(LineType(S))
    PROVE  HasJoinTrace(S, base, s)
  <1> DEFINE A == JoinType(S)
             X == LineType(S)
             F == JoinStep(S)
             N == Len(s)
  <1>1. StepOf(F, A, X) /\ FoldLeft(Coalesce, base, s) = FoldOf(F, base, s) /\ base \in A /\ s \in Seq(X)
    BY JoinIsFolded
  <1>2. \A a \in A : \A x \in X : F[a][x] = Coalesce(a, x)
    BY DEF JoinStep
  <1> HIDE DEF A, X, F
  <1>3. N \in Nat /\ \A k \in 1 .. N : s[k] \in X
    BY <1>1
  <1>4. PICK t : Traced(t, F, base, s) /\ FoldOf(F, base, s) = t[N]
    BY <1>1, TraceExists DEF HasTrace
  <1>5. \A k \in 0 .. N : t[k] \in A
    BY <1>1, <1>4, TraceTyped
  <1> HIDE DEF N
  <1>6. t = [k \in 0 .. N |-> t[k]] /\ t[0] = base /\ \A k \in 1 .. N : t[k] = F[t[k - 1]][s[k]]
    BY <1>4 DEF Traced, N
  <1>7. \A k \in 1 .. N : t[k] = Coalesce(t[k - 1], s[k])
    <2> TAKE k \in 1 .. N
    <2>1. k - 1 \in 0 .. N
      BY <1>3
    <2>2. t[k - 1] \in A /\ s[k] \in X
      BY <1>3, <1>5, <2>1
    <2> QED BY <1>2, <1>6, <2>2
  <1>8. t \in [0 .. N -> A]
    BY <1>5, <1>6
  <1> QED BY <1>1, <1>4, <1>6, <1>7, <1>8 DEF A, N, HasJoinTrace

LEMMA ReadIsFolded ==
    ASSUME ReadmeTypeOK, NEW S, NEW base \in ParseType(S), NEW s \in Seq(TextType(S))
    PROVE  /\ StepOf(ReadStep(S), ParseType(S), TextType(S))
           /\ FoldLeft(Parse, base, s) = FoldOf(ReadStep(S), base, s)
  <1> DEFINE N == Len(s)
             A == ParseType(S)
             X == TextType(S)
             F == [i \in 1 .. N |-> [a \in A |-> Parse(a, s[i])]]
             Gathers(it) == it = [v \in SUBSET DOMAIN s |->
                                   IF v = {} THEN base ELSE Parse(it[v \ {Max(v)}], s[Max(v)])]
  <1>1. N \in Nat /\ DOMAIN s = 1 .. N /\ base \in A /\ s \in Seq(X) /\ \A k \in 1 .. N : s[k] \in X
    OBVIOUS
  <1>2. \A a \in A : \A x \in X : Parse(a, x) \in A
    BY ParseTyped
  <1>3. FoldLeft(Parse, base, s) = (CHOOSE it : Gathers(it))[DOMAIN s]
    BY DEF FoldLeft, MapThenFoldSet
  <1>4. ReadStep(S) = [a \in A |-> [x \in X |-> Parse(a, x)]]
    BY DEF ReadStep
  <1>5. \A a \in A : \A x \in X : ReadStep(S)[a][x] = Parse(a, x)
    <2> HIDE DEF A, X
    <2> QED BY <1>4
  <1> HIDE DEF N, A, X
  <1>6. StepOf(ReadStep(S), A, X)
    BY <1>2, <1>4 DEF StepOf
  <1>7. PICK h \in [SUBSET (1 .. N) -> A] : Folding(h, N, base, F)
    <2>1. F \in [1 .. N -> [A -> A]]
      BY <1>1, <1>2
    <2> HIDE DEF F
    <2> QED BY <1>1, <2>1, FoldExists
  <1>8. Gathers(h)
    <2>1. ASSUME NEW v \in SUBSET (1 .. N), v # {}
          PROVE  F[Max(v)][h[v \ {Max(v)}]] = Parse(h[v \ {Max(v)}], s[Max(v)])
      <3>1. Max(v) \in 1 .. N /\ v \ {Max(v)} \in SUBSET (1 .. N)
        BY <1>1, <2>1, LargestIndex
      <3> QED BY <1>7, <3>1 DEF F
    <2> HIDE DEF F
    <2> QED BY <1>1, <1>7, <2>1 DEF Folding
  <1> HIDE DEF Gathers, F
  <1>9. PICK it : Gathers(it) /\ FoldLeft(Parse, base, s) = it[1 .. N]
    <2>1. Gathers(CHOOSE it : Gathers(it))
      BY <1>8
    <2> QED BY <1>1, <1>3, <2>1
  <1>10. \A v \in SUBSET (1 .. N) : it[v] = IF v = {} THEN base ELSE Parse(it[v \ {Max(v)}], s[Max(v)])
    BY <1>1, <1>9 DEF Gathers
  <1>11. it[{}] = base
    BY <1>10
  <1>12. ASSUME NEW v \in SUBSET (1 .. N), v # {}, it[v \ {Max(v)}] \in A
         PROVE  it[v] = ReadStep(S)[it[v \ {Max(v)}]][s[Max(v)]]
    <2>1. Max(v) \in 1 .. N
      BY <1>1, <1>12, LargestIndex
    <2>2. s[Max(v)] \in X
      BY <1>1, <2>1
    <2>3. it[v] = Parse(it[v \ {Max(v)}], s[Max(v)])
      BY <1>10, <1>12
    <2> QED BY <1>5, <1>12, <2>2, <2>3
  <1>13. FoldOf(ReadStep(S), base, s) = it[1 .. N]
    <2>1. Gathered(it, ReadStep(S), A, base, s)
      BY <1>11, <1>12 DEF Gathered, N
    <2> QED BY <1>1, <1>6, <2>1, TraceOfFold DEF N
  <1> QED BY <1>6, <1>9, <1>13 DEF A, X

LEMMA ReadFolds ==
    ASSUME ReadmeTypeOK, NEW S, NEW base \in ParseType(S)
    PROVE  /\ FoldLeft(Parse, base, <<>>) = base
           /\ \A x \in TextType(S) : FoldLeft(Parse, base, <<x>>) = Parse(base, x)
           /\ \A s \in Seq(TextType(S)) : FoldLeft(Parse, base, s) \in ParseType(S)
           /\ \A s, r \in Seq(TextType(S)) :
                FoldLeft(Parse, base, s \o r) = FoldLeft(Parse, FoldLeft(Parse, base, s), r)
  <1> DEFINE A == ParseType(S)
             X == TextType(S)
             F == ReadStep(S)
  <1>1. \A a \in A : \A s \in Seq(X) : StepOf(F, A, X) /\ FoldLeft(Parse, a, s) = FoldOf(F, a, s)
    BY ReadIsFolded
  <1>2. base \in A /\ <<>> \in Seq(X)
    OBVIOUS
  <1>3. \A x \in X : F[base][x] = Parse(base, x)
    BY DEF ReadStep
  <1> HIDE DEF A, X, F
  <1>4. StepOf(F, A, X)
    BY <1>1, <1>2
  <1>5. FoldLeft(Parse, base, <<>>) = base
    BY <1>1, <1>2, FoldedNone
  <1>6. ASSUME NEW x \in X PROVE FoldLeft(Parse, base, <<x>>) = Parse(base, x)
    <2>1. FoldLeft(Parse, base, <<x>>) = FoldOf(F, base, <<x>>)
      <3>1. <<x>> \in Seq(X)
        OBVIOUS
      <3> QED BY <1>1, <1>2, <3>1
    <2>2. FoldOf(F, base, <<x>>) = F[base][x]
      BY <1>2, <1>4, FoldedOne
    <2> QED BY <1>3, <2>1, <2>2
  <1>7. ASSUME NEW s \in Seq(X) PROVE FoldLeft(Parse, base, s) \in A
    BY <1>1, <1>2, <1>4, FoldedIn
  <1>8. ASSUME NEW s \in Seq(X), NEW r \in Seq(X)
        PROVE  FoldLeft(Parse, base, s \o r) = FoldLeft(Parse, FoldLeft(Parse, base, s), r)
    <2>1. s \o r \in Seq(X)
      BY ConcatProperties
    <2>2. FoldOf(F, base, s \o r) = FoldOf(F, FoldOf(F, base, s), r)
      BY <1>2, <1>4, FoldedBoth
    <2> QED BY <1>1, <1>2, <1>7, <2>1, <2>2
  <1> QED BY <1>5, <1>6, <1>7, <1>8 DEF A, X

LEMMA DiffIsFolded ==
    ASSUME NEW S, NEW base \in DiffType(S), NEW s \in Seq(GitLine(S))
    PROVE  /\ StepOf(DiffStep(S), DiffType(S), GitLine(S))
           /\ FoldLeft(Follow, base, s) = FoldOf(DiffStep(S), base, s)
  <1> DEFINE N == Len(s)
             A == DiffType(S)
             X == GitLine(S)
             F == [i \in 1 .. N |-> [a \in A |-> Follow(a, s[i])]]
             Gathers(it) == it = [v \in SUBSET DOMAIN s |->
                                   IF v = {} THEN base ELSE Follow(it[v \ {Max(v)}], s[Max(v)])]
  <1>1. N \in Nat /\ DOMAIN s = 1 .. N /\ base \in A /\ s \in Seq(X) /\ \A k \in 1 .. N : s[k] \in X
    OBVIOUS
  <1>2. \A a \in A : \A x \in X : Follow(a, x) \in A
    BY FollowTyped
  <1>3. FoldLeft(Follow, base, s) = (CHOOSE it : Gathers(it))[DOMAIN s]
    BY DEF FoldLeft, MapThenFoldSet
  <1>4. DiffStep(S) = [a \in A |-> [x \in X |-> Follow(a, x)]]
    BY DEF DiffStep
  <1>5. \A a \in A : \A x \in X : DiffStep(S)[a][x] = Follow(a, x)
    <2> HIDE DEF A, X
    <2> QED BY <1>4
  <1> HIDE DEF N, A, X
  <1>6. StepOf(DiffStep(S), A, X)
    BY <1>2, <1>4 DEF StepOf
  <1>7. PICK h \in [SUBSET (1 .. N) -> A] : Folding(h, N, base, F)
    <2>1. F \in [1 .. N -> [A -> A]]
      BY <1>1, <1>2
    <2> HIDE DEF F
    <2> QED BY <1>1, <2>1, FoldExists
  <1>8. Gathers(h)
    <2>1. ASSUME NEW v \in SUBSET (1 .. N), v # {}
          PROVE  F[Max(v)][h[v \ {Max(v)}]] = Follow(h[v \ {Max(v)}], s[Max(v)])
      <3>1. Max(v) \in 1 .. N /\ v \ {Max(v)} \in SUBSET (1 .. N)
        BY <1>1, <2>1, LargestIndex
      <3> QED BY <1>7, <3>1 DEF F
    <2> HIDE DEF F
    <2> QED BY <1>1, <1>7, <2>1 DEF Folding
  <1> HIDE DEF Gathers, F
  <1>9. PICK it : Gathers(it) /\ FoldLeft(Follow, base, s) = it[1 .. N]
    <2>1. Gathers(CHOOSE it : Gathers(it))
      BY <1>8
    <2> QED BY <1>1, <1>3, <2>1
  <1>10. \A v \in SUBSET (1 .. N) : it[v] = IF v = {} THEN base ELSE Follow(it[v \ {Max(v)}], s[Max(v)])
    BY <1>1, <1>9 DEF Gathers
  <1>11. it[{}] = base
    BY <1>10
  <1>12. ASSUME NEW v \in SUBSET (1 .. N), v # {}, it[v \ {Max(v)}] \in A
         PROVE  it[v] = DiffStep(S)[it[v \ {Max(v)}]][s[Max(v)]]
    <2>1. Max(v) \in 1 .. N
      BY <1>1, <1>12, LargestIndex
    <2>2. s[Max(v)] \in X
      BY <1>1, <2>1
    <2>3. it[v] = Follow(it[v \ {Max(v)}], s[Max(v)])
      BY <1>10, <1>12
    <2> QED BY <1>5, <1>12, <2>2, <2>3
  <1>13. FoldOf(DiffStep(S), base, s) = it[1 .. N]
    <2>1. Gathered(it, DiffStep(S), A, base, s)
      BY <1>11, <1>12 DEF Gathered, N
    <2> QED BY <1>1, <1>6, <2>1, TraceOfFold DEF N
  <1> QED BY <1>6, <1>9, <1>13 DEF A, X

LEMMA DiffFolds ==
    ASSUME NEW S, NEW base \in DiffType(S)
    PROVE  /\ FoldLeft(Follow, base, <<>>) = base
           /\ \A x \in GitLine(S) : FoldLeft(Follow, base, <<x>>) = Follow(base, x)
           /\ \A s \in Seq(GitLine(S)) : FoldLeft(Follow, base, s) \in DiffType(S)
           /\ \A s, r \in Seq(GitLine(S)) :
                FoldLeft(Follow, base, s \o r) = FoldLeft(Follow, FoldLeft(Follow, base, s), r)
  <1> DEFINE A == DiffType(S)
             X == GitLine(S)
             F == DiffStep(S)
  <1>1. \A a \in A : \A s \in Seq(X) : StepOf(F, A, X) /\ FoldLeft(Follow, a, s) = FoldOf(F, a, s)
    BY DiffIsFolded
  <1>2. base \in A /\ <<>> \in Seq(X)
    OBVIOUS
  <1>3. \A x \in X : F[base][x] = Follow(base, x)
    BY DEF DiffStep
  <1> HIDE DEF A, X, F
  <1>4. StepOf(F, A, X)
    BY <1>1, <1>2
  <1>5. FoldLeft(Follow, base, <<>>) = base
    BY <1>1, <1>2, FoldedNone
  <1>6. ASSUME NEW x \in X PROVE FoldLeft(Follow, base, <<x>>) = Follow(base, x)
    <2>1. FoldLeft(Follow, base, <<x>>) = FoldOf(F, base, <<x>>)
      <3>1. <<x>> \in Seq(X)
        OBVIOUS
      <3> QED BY <1>1, <1>2, <3>1
    <2>2. FoldOf(F, base, <<x>>) = F[base][x]
      BY <1>2, <1>4, FoldedOne
    <2> QED BY <1>3, <2>1, <2>2
  <1>7. ASSUME NEW s \in Seq(X) PROVE FoldLeft(Follow, base, s) \in A
    BY <1>1, <1>2, <1>4, FoldedIn
  <1>8. ASSUME NEW s \in Seq(X), NEW r \in Seq(X)
        PROVE  FoldLeft(Follow, base, s \o r) = FoldLeft(Follow, FoldLeft(Follow, base, s), r)
    <2>1. s \o r \in Seq(X)
      BY ConcatProperties
    <2>2. FoldOf(F, base, s \o r) = FoldOf(F, FoldOf(F, base, s), r)
      BY <1>2, <1>4, FoldedBoth
    <2> QED BY <1>1, <1>2, <1>7, <2>1, <2>2
  <1> QED BY <1>5, <1>6, <1>7, <1>8 DEF A, X

LEMMA PickIsFolded ==
    ASSUME NEW S, NEW base \in Seq(AddedJob(S)), NEW s \in Seq(JobType(S))
    PROVE  /\ StepOf(PickStep(S), Seq(AddedJob(S)), JobType(S))
           /\ FoldLeft(Admit, base, s) = FoldOf(PickStep(S), base, s)
  <1> DEFINE N == Len(s)
             A == Seq(AddedJob(S))
             X == JobType(S)
             F == [i \in 1 .. N |-> [a \in A |-> Admit(a, s[i])]]
             Gathers(it) == it = [v \in SUBSET DOMAIN s |->
                                   IF v = {} THEN base ELSE Admit(it[v \ {Max(v)}], s[Max(v)])]
  <1>1. N \in Nat /\ DOMAIN s = 1 .. N /\ base \in A /\ s \in Seq(X) /\ \A k \in 1 .. N : s[k] \in X
    OBVIOUS
  <1>2. \A a \in A : \A x \in X : Admit(a, x) \in A
    BY AdmitTyped
  <1>3. FoldLeft(Admit, base, s) = (CHOOSE it : Gathers(it))[DOMAIN s]
    BY DEF FoldLeft, MapThenFoldSet
  <1>4. PickStep(S) = [a \in A |-> [x \in X |-> Admit(a, x)]]
    BY DEF PickStep
  <1>5. \A a \in A : \A x \in X : PickStep(S)[a][x] = Admit(a, x)
    <2> HIDE DEF A, X
    <2> QED BY <1>4
  <1> HIDE DEF N, A, X
  <1>6. StepOf(PickStep(S), A, X)
    BY <1>2, <1>4 DEF StepOf
  <1>7. PICK h \in [SUBSET (1 .. N) -> A] : Folding(h, N, base, F)
    <2>1. F \in [1 .. N -> [A -> A]]
      BY <1>1, <1>2
    <2> HIDE DEF F
    <2> QED BY <1>1, <2>1, FoldExists
  <1>8. Gathers(h)
    <2>1. ASSUME NEW v \in SUBSET (1 .. N), v # {}
          PROVE  F[Max(v)][h[v \ {Max(v)}]] = Admit(h[v \ {Max(v)}], s[Max(v)])
      <3>1. Max(v) \in 1 .. N /\ v \ {Max(v)} \in SUBSET (1 .. N)
        BY <1>1, <2>1, LargestIndex
      <3> QED BY <1>7, <3>1 DEF F
    <2> HIDE DEF F
    <2> QED BY <1>1, <1>7, <2>1 DEF Folding
  <1> HIDE DEF Gathers, F
  <1>9. PICK it : Gathers(it) /\ FoldLeft(Admit, base, s) = it[1 .. N]
    <2>1. Gathers(CHOOSE it : Gathers(it))
      BY <1>8
    <2> QED BY <1>1, <1>3, <2>1
  <1>10. \A v \in SUBSET (1 .. N) : it[v] = IF v = {} THEN base ELSE Admit(it[v \ {Max(v)}], s[Max(v)])
    BY <1>1, <1>9 DEF Gathers
  <1>11. it[{}] = base
    BY <1>10
  <1>12. ASSUME NEW v \in SUBSET (1 .. N), v # {}, it[v \ {Max(v)}] \in A
         PROVE  it[v] = PickStep(S)[it[v \ {Max(v)}]][s[Max(v)]]
    <2>1. Max(v) \in 1 .. N
      BY <1>1, <1>12, LargestIndex
    <2>2. s[Max(v)] \in X
      BY <1>1, <2>1
    <2>3. it[v] = Admit(it[v \ {Max(v)}], s[Max(v)])
      BY <1>10, <1>12
    <2> QED BY <1>5, <1>12, <2>2, <2>3
  <1>13. FoldOf(PickStep(S), base, s) = it[1 .. N]
    <2>1. Gathered(it, PickStep(S), A, base, s)
      BY <1>11, <1>12 DEF Gathered, N
    <2> QED BY <1>1, <1>6, <2>1, TraceOfFold DEF N
  <1> QED BY <1>6, <1>9, <1>13 DEF A, X

LEMMA PickFolds ==
    ASSUME NEW S, NEW base \in Seq(AddedJob(S))
    PROVE  /\ FoldLeft(Admit, base, <<>>) = base
           /\ \A x \in JobType(S) : FoldLeft(Admit, base, <<x>>) = Admit(base, x)
           /\ \A s \in Seq(JobType(S)) : FoldLeft(Admit, base, s) \in Seq(AddedJob(S))
           /\ \A s, r \in Seq(JobType(S)) :
                FoldLeft(Admit, base, s \o r) = FoldLeft(Admit, FoldLeft(Admit, base, s), r)
  <1> DEFINE A == Seq(AddedJob(S))
             X == JobType(S)
             F == PickStep(S)
  <1>1. \A a \in A : \A s \in Seq(X) : StepOf(F, A, X) /\ FoldLeft(Admit, a, s) = FoldOf(F, a, s)
    BY PickIsFolded
  <1>2. base \in A /\ <<>> \in Seq(X)
    OBVIOUS
  <1>3. \A x \in X : F[base][x] = Admit(base, x)
    BY DEF PickStep
  <1> HIDE DEF A, X, F
  <1>4. StepOf(F, A, X)
    BY <1>1, <1>2
  <1>5. FoldLeft(Admit, base, <<>>) = base
    BY <1>1, <1>2, FoldedNone
  <1>6. ASSUME NEW x \in X PROVE FoldLeft(Admit, base, <<x>>) = Admit(base, x)
    <2>1. FoldLeft(Admit, base, <<x>>) = FoldOf(F, base, <<x>>)
      <3>1. <<x>> \in Seq(X)
        OBVIOUS
      <3> QED BY <1>1, <1>2, <3>1
    <2>2. FoldOf(F, base, <<x>>) = F[base][x]
      BY <1>2, <1>4, FoldedOne
    <2> QED BY <1>3, <2>1, <2>2
  <1>7. ASSUME NEW s \in Seq(X) PROVE FoldLeft(Admit, base, s) \in A
    BY <1>1, <1>2, <1>4, FoldedIn
  <1>8. ASSUME NEW s \in Seq(X), NEW r \in Seq(X)
        PROVE  FoldLeft(Admit, base, s \o r) = FoldLeft(Admit, FoldLeft(Admit, base, s), r)
    <2>1. s \o r \in Seq(X)
      BY ConcatProperties
    <2>2. FoldOf(F, base, s \o r) = FoldOf(F, FoldOf(F, base, s), r)
      BY <1>2, <1>4, FoldedBoth
    <2> QED BY <1>1, <1>2, <1>7, <2>1, <2>2
  <1> QED BY <1>5, <1>6, <1>7, <1>8 DEF A, X

-----------------------------------------------------------------------------
(* Lines, texts and jobs                                                     *)

LEMMA SeqInduction ==
    ASSUME NEW X, NEW G, <<>> \in G, \A s \in Seq(X) : \A x \in X : s \in G => s \o <<x>> \in G
    PROVE  Seq(X) \subseteq G
  <1> SUFFICES ASSUME NEW s \in Seq(X) PROVE s \in G
    OBVIOUS
  <1> DEFINE N == Len(s)
             S == {k \in 0 .. N : SubSeq(s, 1, k) \in G}
  <1>1. N \in Nat /\ \A k \in 1 .. N : s[k] \in X
    OBVIOUS
  <1>2. 0 \in S
    <2>1. SubSeq(s, 1, 0) = <<>> /\ 0 \in 0 .. N
      BY <1>1, SubSeqEmpty
    <2> QED BY <2>1
  <1>3. ASSUME NEW k \in 0 .. N, k \in S, k < N PROVE k + 1 \in S
    <2>1. k + 1 \in 1 .. N /\ 1 \in 1 .. N /\ k + 1 \in 1 .. N /\ (k + 1) - 1 = k /\ k + 1 \in 0 .. N
      BY <1>1, <1>3
    <2>2. SubSeq(s, 1, k + 1) = SubSeq(s, 1, k) \o <<s[k + 1]>>
      BY <2>1, SubSeqRecursiveSecond
    <2>3. SubSeq(s, 1, k) \in Seq(X)
      <3>1. \A j \in 1 .. k : s[j] \in X
        BY <1>1, <2>1
      <3> QED BY <2>1, <3>1, SubSeqProperties
    <2>4. s[k + 1] \in X /\ SubSeq(s, 1, k) \in G
      BY <1>1, <1>3, <2>1
    <2>5. SubSeq(s, 1, k + 1) \in G
      BY <2>2, <2>3, <2>4
    <2> QED BY <2>1, <2>5
  <1>4. N \in S
    <2> HIDE DEF S, N
    <2>1. 0 .. N \subseteq S
      BY <1>1, <1>2, <1>3, SetInduction
    <2> QED BY <1>1, <2>1
  <1>5. SubSeq(s, 1, N) = s
    BY SubSeqFull
  <1> QED BY <1>4, <1>5

Shapes == {"pipe", "tag", "spread", "open", "header"}
LineKinds == {"kept", "added", "removed"}

OneLiners == {"pipe", "tag", "header", "open"}

LEMMA OneOf ==
    ASSUME NEW X, NEW p \in X
    PROVE  <<p>> \in Seq(X) /\ Len(<<p>>) = 1 /\ \A j \in 1 .. 1 : j = 1 /\ <<p>>[j] = p
  OBVIOUS

LEMMA FiveOf ==
    ASSUME NEW X, NEW p1 \in X, NEW p2 \in X, NEW p3 \in X, NEW p4 \in X, NEW p5 \in X
    PROVE  /\ <<p1, p2, p3, p4, p5>> \in Seq(X) /\ Len(<<p1, p2, p3, p4, p5>>) = 5
           /\ \A j \in 1 .. 5 : <<p1, p2, p3, p4, p5>>[j] \in {p1, p2, p3, p4, p5}
  <1> DEFINE f == <<p1, p2, p3, p4, p5>>
  <1>1. Len(f) = 5 /\ DOMAIN f = 1 .. 5 /\ f[1] = p1 /\ f[2] = p2 /\ f[3] = p3 /\ f[4] = p4 /\ f[5] = p5
    OBVIOUS
  <1>2. \A j \in 1 .. 5 : j = 1 \/ j = 2 \/ j = 3 \/ j = 4 \/ j = 5
    OBVIOUS
  <1>3. f = [j \in 1 .. 5 |-> f[j]]
    OBVIOUS
  <1> HIDE DEF f
  <1>4. \A j \in 1 .. 5 : f[j] \in {p1, p2, p3, p4, p5}
    BY <1>1, <1>2
  <1>5. \A j \in 1 .. 5 : f[j] \in X
    BY <1>4
  <1>6. f \in Seq(X)
    BY <1>3, <1>5
  <1> QED BY <1>1, <1>4, <1>6 DEF f

LEMMA PiecesAre ==
    ASSUME NEW i \in InFile, NEW shape \in Shapes
    PROVE  /\ PiecesOf(i, shape) \in Seq(PieceType) /\ Len(PiecesOf(i, shape)) = IF shape = "spread" THEN 5 ELSE 1
           /\ \A j \in 1 .. Len(PiecesOf(i, shape)) : PiecesOf(i, shape)[j].at = i
  <1>1. \A k \in Nat, c \in Int, b, e \in BOOLEAN : Piece(i, k, c, b, e) \in PieceType /\ Piece(i, k, c, b, e).at = i
    BY DEF Piece, PieceType
  <1>2. 1 \in Nat /\ 2 \in Nat /\ 3 \in Nat /\ 4 \in Nat /\ 5 \in Nat /\ 0 \in Int /\ 1 \in Int /\ -1 \in Int
        /\ TRUE \in BOOLEAN /\ FALSE \in BOOLEAN
    OBVIOUS
  <1>3. shape # "spread" => \E p \in PieceType : p.at = i /\ PiecesOf(i, shape) = <<p>>
    <2>1. shape = "pipe" => PiecesOf(i, shape) = <<Piece(i, 1, 0, FALSE, FALSE)>>
      BY DEF PiecesOf
    <2>2. shape \in {"tag", "header"} => PiecesOf(i, shape) = <<Piece(i, 1, 0, TRUE, TRUE)>>
      BY DEF PiecesOf
    <2>3. shape = "open" => PiecesOf(i, shape) = <<Piece(i, 1, 1, TRUE, FALSE)>>
      BY DEF PiecesOf
    <2> QED BY <1>1, <1>2, <2>1, <2>2, <2>3 DEF Shapes
  <1>4. CASE shape # "spread"
    BY <1>3, <1>4, OneOf
  <1>5. CASE shape = "spread"
    <2> DEFINE p1 == Piece(i, 1, 1, TRUE, FALSE)
               p2 == Piece(i, 2, 1, TRUE, FALSE)
               p3 == Piece(i, 3, -1, FALSE, TRUE)
               p4 == Piece(i, 4, 0, TRUE, FALSE)
               p5 == Piece(i, 5, -1, FALSE, TRUE)
    <2>1. PiecesOf(i, shape) = <<p1, p2, p3, p4, p5>>
      BY <1>5 DEF PiecesOf
    <2>2. /\ p1 \in PieceType /\ p2 \in PieceType /\ p3 \in PieceType /\ p4 \in PieceType /\ p5 \in PieceType
          /\ p1.at = i /\ p2.at = i /\ p3.at = i /\ p4.at = i /\ p5.at = i
      BY <1>1, <1>2
    <2> HIDE DEF p1, p2, p3, p4, p5
    <2>3. /\ <<p1, p2, p3, p4, p5>> \in Seq(PieceType) /\ Len(<<p1, p2, p3, p4, p5>>) = 5
          /\ \A j \in 1 .. 5 : <<p1, p2, p3, p4, p5>>[j] \in {p1, p2, p3, p4, p5}
      BY <2>2, FiveOf
    <2> QED BY <1>5, <2>1, <2>2, <2>3
  <1> QED BY <1>4, <1>5

LEMMA RecordedTyped ==
    ASSUME NEW S, NEW i \in InFile, NEW ps \in Seq(PieceType), NEW kind \in LineKinds,
           \A j \in 1 .. Len(ps) : ps[j].at = i, kind = "added" => i \in S
    PROVE  /\ Recorded(ps, kind) \in Seq(GitLine(S)) /\ Len(Recorded(ps, kind)) = Len(ps)
           /\ \A j \in 1 .. Len(ps) : Recorded(ps, kind)[j] = [kind |-> kind, piece |-> ps[j]]
           /\ kind # "kept" => Recorded(ps, kind) \in Seq(LineType(S))
  <1> DEFINE N == Len(ps)
             l == Recorded(ps, kind)
  <1>1. N \in Nat /\ DOMAIN ps = 1 .. N /\ \A j \in 1 .. N : ps[j] \in PieceType
    OBVIOUS
  <1>2. l = [j \in 1 .. N |-> [kind |-> kind, piece |-> ps[j]]]
    BY <1>1 DEF Recorded
  <1> HIDE DEF N, l
  <1>3. ASSUME NEW j \in 1 .. N
        PROVE  /\ l[j] = [kind |-> kind, piece |-> ps[j]] /\ l[j] \in GitLine(S)
               /\ kind # "kept" => l[j] \in LineType(S)
    <2>1. l[j] = [kind |-> kind, piece |-> ps[j]] /\ ps[j] \in PieceType /\ ps[j].at = i
      BY <1>1, <1>2 DEF N
    <2>2. l[j].kind = kind /\ l[j].piece = ps[j]
      BY <2>1
    <2>3. l[j] \in [kind : LineKinds, piece : PieceType]
      BY <2>1
    <2>4. kind # "kept" => l[j] \in [kind : {"added", "removed"}, piece : PieceType]
      BY <2>1 DEF LineKinds
    <2> QED BY <2>1, <2>2, <2>3, <2>4 DEF GitLine, LineType, LineKinds
  <1>4. l \in Seq(GitLine(S)) /\ Len(l) = N
    BY <1>1, <1>2, <1>3
  <1>5. kind # "kept" => l \in Seq(LineType(S))
    BY <1>1, <1>2, <1>3
  <1> QED BY <1>3, <1>4, <1>5 DEF N, l

Shape(i) == file[i].row.shape
Lines(i, kind) == Recorded(PiecesOf(i, Shape(i)), kind)

LEMMA LinesTyped ==
    ASSUME ReadmeTypeOK, NEW S, NEW i \in InFile, NEW kind \in LineKinds, kind = "added" => i \in S
    PROVE  /\ Lines(i, kind) \in Seq(GitLine(S))
           /\ kind # "kept" => Lines(i, kind) \in Seq(LineType(S))
           /\ Len(Lines(i, kind)) = IF Shape(i) = "spread" THEN 5 ELSE 1
           /\ \A j \in 1 .. Len(Lines(i, kind)) :
                Lines(i, kind)[j] = [kind |-> kind, piece |-> PiecesOf(i, Shape(i))[j]]
  <1>1. Shape(i) \in Shapes
    BY EntryTyped DEF Shape, Shapes
  <1> DEFINE ps == PiecesOf(i, Shape(i))
  <1>2. /\ ps \in Seq(PieceType) /\ Len(ps) = IF Shape(i) = "spread" THEN 5 ELSE 1
        /\ \A j \in 1 .. Len(ps) : ps[j].at = i
    BY <1>1, PiecesAre
  <1> HIDE DEF ps
  <1>3. /\ Recorded(ps, kind) \in Seq(GitLine(S)) /\ Len(Recorded(ps, kind)) = Len(ps)
        /\ \A j \in 1 .. Len(ps) : Recorded(ps, kind)[j] = [kind |-> kind, piece |-> ps[j]]
        /\ kind # "kept" => Recorded(ps, kind) \in Seq(LineType(S))
    BY <1>2, RecordedTyped
  <1>4. Lines(i, kind) = Recorded(ps, kind)
    BY DEF Lines, ps
  <1> QED BY <1>2, <1>3, <1>4 DEF ps

LEMMA WrittenIs ==
    ASSUME ReadmeTypeOK, NEW i \in InFile
    PROVE  /\ file[i].mark # "edited" => WrittenOf(i) = Lines(i, file[i].mark)
           /\ file[i].mark = "edited" /\ Shape(i) # "spread" =>
                WrittenOf(i) = Lines(i, "removed") \o Lines(i, "added")
  <1>1. Shape(i) \in Shapes
    BY EntryTyped DEF Shape, Shapes
  <1>2. Shape(i) # "spread" => Len(PiecesOf(i, Shape(i))) = 1
    BY <1>1, PiecesAre
  <1> QED BY <1>2 DEF WrittenOf, Lines, Shape

LEMMA WrittenTyped ==
    ASSUME ReadmeTypeOK, NEW S, NEW i \in InFile, Is(i, {"added", "edited"}) => i \in S
    PROVE  WrittenOf(i) \in Seq(GitLine(S))
  <1>1. file[i].mark \in {"kept", "added", "removed", "edited"} /\ Shape(i) \in Shapes
    BY EntryTyped DEF Shape, Shapes
  <1>2. CASE file[i].mark # "edited"
    <2>1. file[i].mark \in LineKinds /\ (file[i].mark = "added" => i \in S)
      BY <1>1, <1>2 DEF LineKinds, Is
    <2> QED BY <1>2, <2>1, LinesTyped, WrittenIs
  <1>3. CASE file[i].mark = "edited" /\ Shape(i) # "spread"
    <2>1. i \in S /\ "removed" \in LineKinds /\ "added" \in LineKinds
      BY <1>3 DEF Is, LineKinds
    <2>2. Lines(i, "removed") \in Seq(GitLine(S)) /\ Lines(i, "added") \in Seq(GitLine(S))
      BY <2>1, LinesTyped
    <2> QED BY <1>3, <2>2, WrittenIs, ConcatProperties
  <1>4. CASE file[i].mark = "edited" /\ Shape(i) = "spread"
    <2> DEFINE all == PiecesOf(i, Shape(i))
               K(j) == Recorded(<<all[j]>>, "kept")
               R(kind) == Recorded(<<all[4]>>, kind)
    <2>1. all \in Seq(PieceType) /\ Len(all) = 5 /\ \A j \in 1 .. 5 : all[j].at = i
      BY <1>1, <1>4, PiecesAre
    <2>2. WrittenOf(i) = K(1) \o K(2) \o K(3) \o (R("removed") \o R("added")) \o K(5)
      BY <1>4, <2>1 DEF WrittenOf, Shape
    <2>3. ASSUME NEW j \in 1 .. 5, NEW kind \in LineKinds PROVE Recorded(<<all[j]>>, kind) \in Seq(GitLine(S))
      <3> DEFINE ps == <<all[j]>>
      <3> HIDE DEF all
      <3>1. all[j] \in PieceType
        BY <2>1, ElementOfSeq
      <3>2. all[j].at = i
        BY <2>1
      <3>3. ps \in Seq(PieceType) /\ Len(ps) = 1 /\ \A m \in 1 .. 1 : ps[m].at = i
        BY <3>1, <3>2, OneOf
      <3>4. i \in S
        BY <1>4 DEF Is
      <3> HIDE DEF ps
      <3>5. Recorded(ps, kind) \in Seq(GitLine(S))
        BY <3>3, <3>4, RecordedTyped
      <3> QED BY <3>5 DEF ps
    <2> HIDE DEF all
    <2>4. /\ K(1) \in Seq(GitLine(S)) /\ K(2) \in Seq(GitLine(S)) /\ K(3) \in Seq(GitLine(S))
          /\ K(5) \in Seq(GitLine(S)) /\ R("removed") \in Seq(GitLine(S)) /\ R("added") \in Seq(GitLine(S))
      BY <2>3 DEF LineKinds
    <2> HIDE DEF K, R
    <2>5. R("removed") \o R("added") \in Seq(GitLine(S))
      BY <2>4, ConcatProperties
    <2>6. K(1) \o K(2) \in Seq(GitLine(S))
      BY <2>4, ConcatProperties
    <2>7. K(1) \o K(2) \o K(3) \in Seq(GitLine(S))
      BY <2>4, <2>6, ConcatProperties
    <2>8. K(1) \o K(2) \o K(3) \o (R("removed") \o R("added")) \in Seq(GitLine(S))
      BY <2>5, <2>7, ConcatProperties
    <2> QED BY <2>2, <2>4, <2>8, ConcatProperties
  <1> QED BY <1>2, <1>3, <1>4

LEMMA JoinStart == ASSUME NEW S PROVE [out |-> <<>>, buffer |-> <<>>, depth |-> 0] \in JoinType(S)
  <1>1. <<>> \in Seq(TextType(S)) /\ <<>> \in Seq(LineType(S)) /\ 0 \in Int
    OBVIOUS
  <1> QED BY <1>1 DEF JoinType

LEMMA ParseStart == ASSUME NEW S PROVE [last |-> Nobody, jobs |-> <<>>] \in ParseType(S)
  <1>1. <<>> \in Seq(JobType(S)) /\ Nobody \in Company
    BY DEF Company
  <1> QED BY <1>1 DEF ParseType

Whole(acc) == acc.out \o Verbatim(acc.buffer)

LEMMA WholeTyped == ASSUME NEW S, NEW acc \in JoinType(S) PROVE Whole(acc) \in Seq(TextType(S))
  <1>1. acc.out \in Seq(TextType(S)) /\ Verbatim(acc.buffer) \in Seq(TextType(S))
    BY JoinFields, VerbatimTyped
  <1> QED BY <1>1, ConcatProperties DEF Whole

\* what is made of lines, and of the jobs in them
Joined(lines) == FoldLeft(Coalesce, [out |-> <<>>, buffer |-> <<>>, depth |-> 0], lines)
Parsed(texts) == FoldLeft(Parse, [last |-> Nobody, jobs |-> <<>>], texts)

LEMMA ReadIs ==
    ASSUME ReadmeTypeOK, NEW S, NEW lines \in Seq(LineType(S))
    PROVE  /\ Joined(lines) \in JoinType(S) /\ Whole(Joined(lines)) \in Seq(TextType(S))
           /\ Parsed(Whole(Joined(lines))) \in ParseType(S)
           /\ Read(lines) = Candidates(Parsed(Whole(Joined(lines))).jobs)
           /\ Read(lines) \in Seq(AddedJob(S))
  <1>1. Joined(lines) \in JoinType(S)
    BY JoinStart, JoinFolds DEF Joined
  <1>2. Whole(Joined(lines)) \in Seq(TextType(S))
    BY <1>1, WholeTyped
  <1> DEFINE texts == Whole(Joined(lines))
  <1>3. Coalesced(lines) = texts
    BY DEF Coalesced, Whole, Joined
  <1>4. Read(lines) = Candidates(Parsed(texts).jobs)
    BY <1>3 DEF Read, Parsed
  <1> HIDE DEF texts
  <1>5. texts \in Seq(TextType(S))
    BY <1>2 DEF texts
  <1>6. Parsed(texts) \in ParseType(S)
    BY <1>5, ParseStart, ReadFolds DEF Parsed
  <1>7. Parsed(texts).jobs \in Seq(JobType(S)) /\ <<>> \in Seq(AddedJob(S))
    BY <1>6, ParseFields
  <1>8. Candidates(Parsed(texts).jobs) \in Seq(AddedJob(S))
    <2> DEFINE jobs == Parsed(texts).jobs
    <2> HIDE DEF jobs
    <2>1. jobs \in Seq(JobType(S))
      BY <1>7 DEF jobs
    <2>2. FoldLeft(Admit, <<>>, jobs) \in Seq(AddedJob(S))
      BY <1>7, <2>1, PickFolds
    <2> QED BY <2>2 DEF Candidates, jobs
  <1> QED BY <1>1, <1>2, <1>4, <1>6, <1>8 DEF texts

Diff(s) == FoldLeft(Follow, [lines |-> <<>>, added |-> <<>>], s)

LEMMA DiffStart == ASSUME NEW S PROVE [lines |-> <<>>, added |-> <<>>] \in DiffType(S)
  BY DEF DiffType

LEMMA PatchTyped ==
    ASSUME ReadmeTypeOK, NEW S, \A i \in InFile : Is(i, {"added", "edited"}) => i \in S
    PROVE  Patch \in Seq(LineType(S))
  <1> DEFINE N == Len(file)
             ss == [i \in 1 .. N |-> WrittenOf(i)]
             all == FlattenSeq(ss)
  <1>1. N \in Nat /\ \A i \in 1 .. N : i \in InFile
    BY DEF ReadmeTypeOK, InFile
  <1>2. Patch = Diff(all).lines \o Diff(all).added
    BY DEF Patch, Diff
  <1> HIDE DEF N
  <1>3. ss \in [1 .. N -> Seq(GitLine(S))]
    BY <1>1, WrittenTyped
  <1> HIDE DEF ss
  <1>4. PICK h \in [0 .. N -> Seq(GitLine(S))] : FlattenSeq(ss) = h[N]
    <2>1. HasSteps(GitLine(S), N, ss)
      BY <1>1, <1>3, FlattenSteps
    <2> QED BY <2>1 DEF HasSteps
  <1>5. all \in Seq(GitLine(S))
    BY <1>1, <1>4
  <1> HIDE DEF all
  <1>6. Diff(all) \in DiffType(S)
    BY <1>5, DiffStart, DiffFolds DEF Diff
  <1>7. Diff(all).lines \in Seq(LineType(S)) /\ Diff(all).added \in Seq(LineType(S))
    BY <1>6 DEF DiffType
  <1> QED BY <1>2, <1>7, ConcatProperties

LEMMA YieldsOnlyListed == ASSUME ReadmeTypeOK PROVE OnlyListed
  <1> DEFINE S == {i \in InFile : Is(i, {"added", "edited"})}
  <1>1. \A i \in InFile : Is(i, {"added", "edited"}) => i \in S
    OBVIOUS
  <1> HIDE DEF S
  <1>2. Patch \in Seq(LineType(S))
    BY <1>1, PatchTyped
  <1>3. CommitRead \in Seq(AddedJob(S))
    BY <1>2, ReadIs DEF CommitRead
  <1>4. ASSUME NEW j \in DOMAIN CommitRead PROVE CommitRead[j].at \in S
    <2>1. CommitRead[j] \in AddedJob(S)
      BY <1>3
    <2> QED BY <2>1 DEF AddedJob, JobType
  <1> QED BY <1>4 DEF OnlyListed, S

-----------------------------------------------------------------------------
(* The lines of a row, joined                                                *)

Waits(acc, kind) == acc.buffer # <<>> /\ acc.buffer[1].kind = kind

LEMMA JoinCases ==
    ASSUME NEW acc, NEW line
    PROVE  /\ ~Waits(acc, line.kind) /\ ~Begins(line) =>
                Coalesce(acc, line) = [out |-> Append(Whole(acc), Text(<<line>>)), buffer |-> <<>>, depth |-> 0]
           /\ ~Waits(acc, line.kind) /\ Begins(line) =>
                Coalesce(acc, line) = [out |-> Whole(acc), buffer |-> <<line>>, depth |-> line.piece.change]
           /\ Waits(acc, line.kind) /\ ~Closes(acc.depth + line.piece.change, line) =>
                Coalesce(acc, line) = [out |-> acc.out, buffer |-> Append(acc.buffer, line),
                                       depth |-> acc.depth + line.piece.change]
           /\ Waits(acc, line.kind) /\ Closes(acc.depth + line.piece.change, line) =>
                Coalesce(acc, line) = [out |-> Append(acc.out, Text(Append(acc.buffer, line))),
                                       buffer |-> <<>>, depth |-> 0]
  BY DEF Coalesce, Whole, Continues, Waits

LEMMA JoinAlone ==
    ASSUME NEW acc, NEW line, ~Waits(acc, line.kind),
           line.piece.change = 0, line.piece.starts => line.piece.ends
    PROVE  Coalesce(acc, line) = [out |-> Append(Whole(acc), Text(<<line>>)), buffer |-> <<>>, depth |-> 0]
  <1>1. ~(line.piece.change > 0)
    OBVIOUS
  <1>2. ~Begins(line)
    BY <1>1 DEF Begins
  <1> QED BY <1>2, JoinCases

LEMMA JoinBegins ==
    ASSUME NEW acc, NEW line, ~Waits(acc, line.kind), line.piece.change = 1, line.piece.starts
    PROVE  Coalesce(acc, line) = [out |-> Whole(acc), buffer |-> <<line>>, depth |-> 1]
  <1>1. line.piece.change > 0
    OBVIOUS
  <1>2. Begins(line)
    BY <1>1 DEF Begins
  <1>3. Coalesce(acc, line) = [out |-> Whole(acc), buffer |-> <<line>>, depth |-> line.piece.change]
    BY <1>2, JoinCases
  <1> QED BY <1>3

LEMMA JoinWaits ==
    ASSUME NEW acc, NEW line, Waits(acc, line.kind),
           acc.depth + line.piece.change \in Int, line.piece.ends => acc.depth + line.piece.change >= 1
    PROVE  Coalesce(acc, line) = [out |-> acc.out, buffer |-> Append(acc.buffer, line),
                                  depth |-> acc.depth + line.piece.change]
  <1>1. CASE ~line.piece.ends
    <2>1. ~Closes(acc.depth + line.piece.change, line)
      BY <1>1 DEF Closes
    <2> QED BY <2>1, JoinCases
  <1>2. CASE acc.depth + line.piece.change >= 1
    <2>1. ~(acc.depth + line.piece.change <= 0)
      BY <1>2
    <2>2. ~Closes(acc.depth + line.piece.change, line)
      BY <2>1 DEF Closes
    <2> QED BY <2>2, JoinCases
  <1> QED BY <1>1, <1>2

LEMMA JoinCloses ==
    ASSUME NEW acc, NEW line, Waits(acc, line.kind), line.piece.ends, acc.depth + line.piece.change = 0
    PROVE  Coalesce(acc, line) =
             [out |-> Append(acc.out, Text(Append(acc.buffer, line))), buffer |-> <<>>, depth |-> 0]
  <1>1. Closes(acc.depth + line.piece.change, line)
    BY DEF Closes
  <1> QED BY <1>1, JoinCases

AreLines(S, s, ps, kind) ==
    \A j \in 1 .. Len(s) :
      /\ s[j] \in LineType(S) /\ s[j].kind = kind /\ s[j].piece = ps[j]
      /\ s[j].piece.change \in Int /\ s[j].piece.starts \in BOOLEAN /\ s[j].piece.ends \in BOOLEAN

LEMMA LineAt ==
    ASSUME ReadmeTypeOK, NEW S, NEW i \in InFile, NEW kind \in {"added", "removed"}, kind = "added" => i \in S
    PROVE  AreLines(S, Lines(i, kind), PiecesOf(i, Shape(i)), kind)
  <1> DEFINE s == Lines(i, kind)
             ps == PiecesOf(i, Shape(i))
  <1>1. s \in Seq(LineType(S)) /\ \A j \in 1 .. Len(s) : s[j] = [kind |-> kind, piece |-> ps[j]]
    BY LinesTyped DEF LineKinds
  <1> HIDE DEF s, ps
  <1>2. ASSUME NEW j \in 1 .. Len(s)
        PROVE  /\ s[j] \in LineType(S) /\ s[j].kind = kind /\ s[j].piece = ps[j]
               /\ s[j].piece.change \in Int /\ s[j].piece.starts \in BOOLEAN /\ s[j].piece.ends \in BOOLEAN
    <2>1. s[j] \in LineType(S)
      BY <1>1, ElementOfSeq
    <2>2. s[j] = [kind |-> kind, piece |-> ps[j]]
      BY <1>1
    <2>3. s[j].piece.change \in Int /\ s[j].piece.starts \in BOOLEAN /\ s[j].piece.ends \in BOOLEAN
      BY <2>1 DEF LineType, PieceType
    <2> QED BY <2>1, <2>2, <2>3
  <1> QED BY <1>2 DEF s, ps, AreLines

LEMMA OneLineIs ==
    ASSUME ReadmeTypeOK, NEW i \in InFile, Shape(i) # "spread"
    PROVE  LET p == PiecesOf(i, Shape(i))[1]
           IN  IF Shape(i) = "pipe" THEN p.change = 0 /\ ~p.starts /\ ~p.ends
               ELSE IF Shape(i) = "open" THEN p.change = 1 /\ p.starts /\ ~p.ends
               ELSE p.change = 0 /\ p.starts /\ p.ends
  <1>1. Shape(i) \in {"pipe", "tag", "header", "open"}
    BY EntryTyped DEF Shape
  <1>2. CASE Shape(i) = "pipe"
    BY <1>2 DEF PiecesOf, Piece
  <1>3. CASE Shape(i) \in {"tag", "header"}
    BY <1>3 DEF PiecesOf, Piece
  <1>4. CASE Shape(i) = "open"
    BY <1>4 DEF PiecesOf, Piece
  <1> QED BY <1>1, <1>2, <1>3, <1>4

LEMMA SpreadIs ==
    ASSUME NEW i, Shape(i) = "spread"
    PROVE  LET ps == PiecesOf(i, Shape(i))
           IN  /\ ps[1].change = 1 /\ ps[1].starts /\ ~ps[1].ends
               /\ ps[2].change = 1 /\ ~ps[2].ends
               /\ ps[3].change = -1 /\ ps[3].ends
               /\ ps[4].change = 0 /\ ~ps[4].ends
               /\ ps[5].change = -1 /\ ps[5].ends
  <1> DEFINE p1 == Piece(i, 1, 1, TRUE, FALSE)
             p2 == Piece(i, 2, 1, TRUE, FALSE)
             p3 == Piece(i, 3, -1, FALSE, TRUE)
             p4 == Piece(i, 4, 0, TRUE, FALSE)
             p5 == Piece(i, 5, -1, FALSE, TRUE)
             ps == PiecesOf(i, Shape(i))
  <1>1. ps = <<p1, p2, p3, p4, p5>>
    BY DEF PiecesOf
  <1>2. /\ p1.change = 1 /\ p1.starts /\ ~p1.ends /\ p2.change = 1 /\ ~p2.ends /\ p3.change = -1 /\ p3.ends
        /\ p4.change = 0 /\ ~p4.ends /\ p5.change = -1 /\ p5.ends
    BY DEF Piece
  <1> HIDE DEF p1, p2, p3, p4, p5, ps
  <1>3. ps[1] = p1 /\ ps[2] = p2 /\ ps[3] = p3 /\ ps[4] = p4 /\ ps[5] = p5
    BY <1>1
  <1> QED BY <1>2, <1>3 DEF ps

LEMMA FirstOnes ==
    ASSUME NEW X, NEW s \in Seq(X), NEW k \in 1 .. Len(s)
    PROVE  /\ SubSeq(s, 1, k - 1) \in Seq(X) /\ SubSeq(s, 1, k) \in Seq(X)
           /\ SubSeq(s, 1, k) = Append(SubSeq(s, 1, k - 1), s[k])
           /\ SubSeq(s, 1, k) # <<>> /\ SubSeq(s, 1, k)[1] = s[1]
  <1>1. Len(s) \in Nat /\ \A j \in 1 .. Len(s) : s[j] \in X
    OBVIOUS
  <1>2. \A m \in 0 .. Len(s) : /\ SubSeq(s, 1, m) \in Seq(X) /\ Len(SubSeq(s, 1, m)) = m
                               /\ \A j \in 1 .. m : SubSeq(s, 1, m)[j] = s[j]
    <2> TAKE m \in 0 .. Len(s)
    <2>1. \A j \in 1 .. m : s[j] \in X
      BY <1>1
    <2>2. /\ SubSeq(s, 1, m) \in Seq(X) /\ Len(SubSeq(s, 1, m)) = IF 1 <= m THEN m - 1 + 1 ELSE 0
          /\ \A j \in 1 .. m - 1 + 1 : SubSeq(s, 1, m)[j] = s[1 + j - 1]
      BY <1>1, <2>1, SubSeqProperties
    <2>3. \A j \in 1 .. m : j \in 1 .. m - 1 + 1 /\ 1 + j - 1 = j
      BY <1>1
    <2> QED BY <1>1, <2>2, <2>3
  <1>3. k \in 0 .. Len(s) /\ k - 1 \in 0 .. Len(s) /\ k >= 1 /\ 1 \in 1 .. k /\ 1 \in 1 .. Len(s)
    BY <1>1
  <1>4. SubSeq(s, 1, k) = SubSeq(s, 1, k - 1) \o <<s[k]>>
    BY <1>3, SubSeqRecursiveSecond
  <1>5. SubSeq(s, 1, k) = Append(SubSeq(s, 1, k - 1), s[k])
    <2> DEFINE r == SubSeq(s, 1, k - 1)
    <2>1. r \in Seq(X) /\ s[k] \in X
      BY <1>1, <1>2, <1>3
    <2> HIDE DEF r
    <2>2. r \o <<s[k]>> = Append(r, s[k])
      BY <2>1
    <2> QED BY <1>4, <2>2 DEF r
  <1>6. Len(SubSeq(s, 1, k)) = k /\ SubSeq(s, 1, k) \in Seq(X)
    BY <1>2, <1>3
  <1>7. SubSeq(s, 1, k) # <<>>
    BY <1>3, <1>6
  <1> QED BY <1>2, <1>3, <1>5, <1>7

\* no lines of the kind wait before the row: it is joined to one text, unless it is left open
LEMMA RowJoins ==
    ASSUME ReadmeTypeOK, NEW S, NEW i \in InFile, NEW kind \in {"added", "removed"}, kind = "added" => i \in S,
           NEW acc \in JoinType(S), ~Waits(acc, kind)
    PROVE  /\ Shape(i) # "open" =>
                FoldLeft(Coalesce, acc, Lines(i, kind)) =
                  [out |-> Append(Whole(acc), Text(Lines(i, kind))), buffer |-> <<>>, depth |-> 0]
           /\ Shape(i) = "open" =>
                FoldLeft(Coalesce, acc, Lines(i, kind)) =
                  [out |-> Whole(acc), buffer |-> Lines(i, kind), depth |-> 1]
  <1> DEFINE s == Lines(i, kind)
             N == Len(s)
  <1>1. s \in Seq(LineType(S)) /\ N = IF Shape(i) = "spread" THEN 5 ELSE 1
    BY LinesTyped DEF LineKinds
  <1>2. \A j \in 1 .. N : /\ s[j] \in LineType(S) /\ s[j].kind = kind /\ s[j].piece = PiecesOf(i, Shape(i))[j]
                          /\ s[j].piece.change \in Int /\ s[j].piece.starts \in BOOLEAN /\ s[j].piece.ends \in BOOLEAN
    <2>1. AreLines(S, s, PiecesOf(i, Shape(i)), kind)
      BY LineAt
    <2> HIDE DEF s
    <2> QED BY <2>1 DEF AreLines
  <1> HIDE DEF s
  <1>3. PICK t \in [0 .. N -> JoinType(S)] :
          /\ t[0] = acc /\ t[N] = FoldLeft(Coalesce, acc, s)
          /\ \A k \in 1 .. N : t[k] = Coalesce(t[k - 1], s[k])
    <2>1. HasJoinTrace(S, acc, s)
      BY <1>1, JoinTrace
    <2> QED BY <2>1 DEF HasJoinTrace
  <1> HIDE DEF N
  <1>4. CASE Shape(i) # "spread"
    <2>1. N = 1 /\ 1 \in 1 .. N
      BY <1>1, <1>4
    <2>2. t[1] = Coalesce(acc, s[1]) /\ s[1] \in LineType(S) /\ s[1].kind = kind
          /\ s[1].piece = PiecesOf(i, Shape(i))[1]
      BY <1>2, <1>3, <2>1
    <2>3. s = <<s[1]>>
      <3>1. Len(s) = 1
        BY <2>1 DEF N
      <3>2. s = [j \in 1 .. 1 |-> s[j]]
        BY <1>1, <3>1
      <3>3. <<s[1]>> = [j \in 1 .. 1 |-> s[1]]
        OBVIOUS
      <3>4. \A j \in 1 .. 1 : j = 1
        OBVIOUS
      <3> QED BY <3>2, <3>3, <3>4
    <2>4. IF Shape(i) = "pipe" THEN s[1].piece.change = 0 /\ ~s[1].piece.starts /\ ~s[1].piece.ends
          ELSE IF Shape(i) = "open" THEN s[1].piece.change = 1 /\ s[1].piece.starts /\ ~s[1].piece.ends
          ELSE s[1].piece.change = 0 /\ s[1].piece.starts /\ s[1].piece.ends
      BY <1>4, <2>2, OneLineIs
    <2>5. Shape(i) # "open" =>
            t[1] = [out |-> Append(Whole(acc), Text(<<s[1]>>)), buffer |-> <<>>, depth |-> 0]
      BY <2>2, <2>4, JoinAlone
    <2>6. Shape(i) = "open" => t[1] = [out |-> Whole(acc), buffer |-> <<s[1]>>, depth |-> 1]
      BY <2>2, <2>4, JoinBegins
    <2> QED BY <1>3, <2>1, <2>3, <2>5, <2>6 DEF s
  <1>5. CASE Shape(i) = "spread"
    <2>1. N = 5 /\ 1 \in 1 .. N /\ 2 \in 1 .. N /\ 3 \in 1 .. N /\ 4 \in 1 .. N /\ 5 \in 1 .. N
      BY <1>1, <1>5
    <2>2. /\ s[1].piece.change = 1 /\ s[1].piece.starts /\ s[2].piece.change = 1 /\ ~s[2].piece.ends
          /\ s[3].piece.change = -1 /\ s[4].piece.change = 0 /\ ~s[4].piece.ends
          /\ s[5].piece.change = -1 /\ s[5].piece.ends
      BY <1>2, <1>5, <2>1, SpreadIs
    <2> DEFINE B(k) == SubSeq(s, 1, k)
    <2>3. \A k \in 1 .. N : /\ B(k) \in Seq(LineType(S)) /\ B(k) = Append(B(k - 1), s[k])
                            /\ B(k) # <<>> /\ B(k)[1] = s[1]
      BY <1>1, FirstOnes DEF N
    <2> HIDE DEF B
    <2>4. ASSUME NEW k \in 1 .. N, k - 1 \in 1 .. N, NEW d \in Int,
                 t[k - 1] = [out |-> Whole(acc), buffer |-> B(k - 1), depth |-> d]
          PROVE  /\ (s[k].piece.ends => d + s[k].piece.change > 0) =>
                      t[k] = [out |-> Whole(acc), buffer |-> B(k), depth |-> d + s[k].piece.change]
                 /\ s[k].piece.ends /\ d + s[k].piece.change = 0 =>
                      t[k] = [out |-> Append(Whole(acc), Text(B(k))), buffer |-> <<>>, depth |-> 0]
      <3> DEFINE a == t[k - 1]
      <3>1. a \in JoinType(S) /\ s[k] \in LineType(S) /\ s[k].kind = kind /\ t[k] = Coalesce(a, s[k])
        BY <1>2, <1>3, <2>4
      <3>2. a.out = Whole(acc) /\ a.buffer = B(k - 1) /\ a.depth = d
        BY <2>4
      <3> HIDE DEF a
      <3>3. Waits(a, kind)
        <4>1. s[1].kind = kind
          BY <1>2, <2>1
        <4> QED BY <2>3, <2>4, <3>2, <4>1 DEF Waits
      <3>4. B(k) = Append(B(k - 1), s[k])
        BY <2>3, <2>4
      <3>5. Waits(a, s[k].kind) /\ a.depth + s[k].piece.change = d + s[k].piece.change
            /\ a.depth + s[k].piece.change \in Int
        BY <1>2, <3>1, <3>2, <3>3
      <3>6. CASE s[k].piece.ends => d + s[k].piece.change > 0
        <4>1. s[k].piece.ends => a.depth + s[k].piece.change >= 1
          BY <3>5, <3>6
        <4>2. Coalesce(a, s[k]) = [out |-> a.out, buffer |-> Append(a.buffer, s[k]),
                                   depth |-> a.depth + s[k].piece.change]
          BY <3>5, <4>1, JoinWaits
        <4> QED BY <3>1, <3>2, <3>4, <3>5, <3>6, <4>2
      <3>7. CASE s[k].piece.ends /\ d + s[k].piece.change = 0
        <4>1. Coalesce(a, s[k]) = [out |-> Append(a.out, Text(Append(a.buffer, s[k]))),
                                   buffer |-> <<>>, depth |-> 0]
          BY <3>5, <3>7, JoinCloses
        <4> QED BY <3>1, <3>2, <3>4, <3>7, <4>1
      <3> QED BY <3>6, <3>7
    <2>5. t[1] = [out |-> Whole(acc), buffer |-> B(1), depth |-> 1]
      <3>1. t[1] = Coalesce(acc, s[1]) /\ s[1] \in LineType(S) /\ s[1].kind = kind
        BY <1>2, <1>3, <2>1
      <3>2. t[1] = [out |-> Whole(acc), buffer |-> <<s[1]>>, depth |-> 1]
        BY <2>2, <3>1, JoinBegins
      <3>3. B(1) = <<s[1]>>
        <4>1. SubSeq(s, 1, 0) = <<>>
          BY SubSeqEmpty
        <4>2. B(1) = Append(B(0), s[1]) /\ B(0) = <<>>
          BY <2>1, <2>3, <4>1 DEF B
        <4>3. Append(<<>>, s[1]) = <<s[1]>>
          OBVIOUS
        <4> QED BY <4>2, <4>3
      <3> QED BY <3>2, <3>3
    <2>6. t[2] = [out |-> Whole(acc), buffer |-> B(2), depth |-> 2]
      <3>1. 1 \in Int /\ 2 - 1 = 1 /\ 1 + s[2].piece.change = 2
        BY <2>2
      <3> QED BY <2>1, <2>2, <2>4, <2>5, <3>1
    <2>7. t[3] = [out |-> Whole(acc), buffer |-> B(3), depth |-> 1]
      <3>1. 2 \in Int /\ 3 - 1 = 2 /\ 2 + s[3].piece.change = 1
        BY <2>2
      <3> QED BY <2>1, <2>2, <2>4, <2>6, <3>1
    <2>8. t[4] = [out |-> Whole(acc), buffer |-> B(4), depth |-> 1]
      <3>1. 1 \in Int /\ 4 - 1 = 3 /\ 1 + s[4].piece.change = 1
        BY <2>2
      <3> QED BY <2>1, <2>2, <2>4, <2>7, <3>1
    <2>9. t[5] = [out |-> Append(Whole(acc), Text(B(5))), buffer |-> <<>>, depth |-> 0]
      <3>1. 1 \in Int /\ 5 - 1 = 4 /\ 1 + s[5].piece.change = 0
        BY <2>2
      <3> QED BY <2>1, <2>2, <2>4, <2>8, <3>1
    <2>10. B(5) = s
      <3>1. SubSeq(s, 1, Len(s)) = s
        BY <1>1, SubSeqFull
      <3> QED BY <2>1, <3>1 DEF B, N
    <2> QED BY <1>3, <1>5, <2>1, <2>9, <2>10 DEF s
  <1> QED BY <1>4, <1>5

\* lines of the kind wait, left open before the row: it waits with them
LEMMA RowWaits ==
    ASSUME ReadmeTypeOK, NEW S, NEW i \in InFile, NEW kind \in {"added", "removed"}, kind = "added" => i \in S,
           NEW acc \in JoinType(S), Waits(acc, kind), acc.depth >= 1
    PROVE  LET new == FoldLeft(Coalesce, acc, Lines(i, kind))
           IN  new.out = acc.out /\ new.buffer = acc.buffer \o Lines(i, kind) /\ new.depth >= 1
  <1> DEFINE s == Lines(i, kind)
             N == Len(s)
             B(k) == acc.buffer \o SubSeq(s, 1, k)
  <1>1. s \in Seq(LineType(S)) /\ N = IF Shape(i) = "spread" THEN 5 ELSE 1
    BY LinesTyped DEF LineKinds
  <1>2. \A j \in 1 .. N : /\ s[j] \in LineType(S) /\ s[j].kind = kind /\ s[j].piece = PiecesOf(i, Shape(i))[j]
                          /\ s[j].piece.change \in Int /\ s[j].piece.starts \in BOOLEAN /\ s[j].piece.ends \in BOOLEAN
    <2>1. AreLines(S, s, PiecesOf(i, Shape(i)), kind)
      BY LineAt
    <2> HIDE DEF s
    <2> QED BY <2>1 DEF AreLines
  <1> HIDE DEF s
  <1>3. PICK t \in [0 .. N -> JoinType(S)] :
          /\ t[0] = acc /\ t[N] = FoldLeft(Coalesce, acc, s)
          /\ \A k \in 1 .. N : t[k] = Coalesce(t[k - 1], s[k])
    <2>1. HasJoinTrace(S, acc, s)
      BY <1>1, JoinTrace
    <2> QED BY <2>1 DEF HasJoinTrace
  <1>4. /\ acc.buffer \in Seq(LineType(S)) /\ acc.depth \in Int /\ acc.buffer # <<>> /\ acc.buffer[1].kind = kind
        /\ acc = [out |-> acc.out, buffer |-> acc.buffer, depth |-> acc.depth]
    BY JoinFields DEF Waits
  <1> HIDE DEF N
  <1>5. B(0) = acc.buffer /\ B(N) = acc.buffer \o s
    <2>1. SubSeq(s, 1, 0) = <<>> /\ SubSeq(s, 1, N) = s
      BY <1>1, SubSeqEmpty, SubSeqFull DEF N
    <2>2. acc.buffer \o <<>> = acc.buffer
      BY <1>4, ConcatEmptySeq
    <2> QED BY <2>1, <2>2
  <1>6. \A k \in 1 .. N : B(k) = Append(B(k - 1), s[k])
    <2> TAKE k \in 1 .. N
    <2> DEFINE r == SubSeq(s, 1, k - 1)
    <2>1. r \in Seq(LineType(S)) /\ SubSeq(s, 1, k) = Append(r, s[k])
      BY <1>1, FirstOnes DEF N
    <2>2. s[k] \in LineType(S)
      BY <1>2
    <2> HIDE DEF r
    <2>3. acc.buffer \o Append(r, s[k]) = Append(acc.buffer \o r, s[k])
      <3>1. <<s[k]>> \in Seq(LineType(S)) /\ Append(r, s[k]) = r \o <<s[k]>>
        BY <2>1, <2>2
      <3>2. acc.buffer \o r \in Seq(LineType(S))
        BY <1>4, <2>1, ConcatProperties
      <3>3. (acc.buffer \o r) \o <<s[k]>> = acc.buffer \o (r \o <<s[k]>>)
        BY <1>4, <2>1, <3>1, ConcatAssociative
      <3>4. Append(acc.buffer \o r, s[k]) = (acc.buffer \o r) \o <<s[k]>>
        BY <2>2, <3>2
      <3> QED BY <3>1, <3>3, <3>4
    <2> QED BY <2>1, <2>3 DEF r
  <1>7. \A k \in 0 .. N : B(k) # <<>> /\ B(k)[1] = acc.buffer[1]
    <2> TAKE k \in 0 .. N
    <2> DEFINE r == SubSeq(s, 1, k)
    <2>1. r \in Seq(LineType(S))
      <3>1. CASE k = 0
        <4>1. r = <<>>
          BY <3>1, SubSeqEmpty
        <4>2. <<>> \in Seq(LineType(S))
          OBVIOUS
        <4> QED BY <4>1, <4>2
      <3>2. CASE k # 0
        <4>1. k \in 1 .. Len(s)
          BY <3>2 DEF N
        <4> QED BY <1>1, <4>1, FirstOnes
      <3> QED BY <3>1, <3>2
    <2> HIDE DEF r
    <2>2. /\ Len(acc.buffer) \in Nat /\ Len(r) \in Nat /\ Len(acc.buffer) >= 1
          /\ Len(acc.buffer \o r) = Len(acc.buffer) + Len(r)
          /\ \A j \in 1 .. Len(acc.buffer) + Len(r) :
               (acc.buffer \o r)[j] = IF j <= Len(acc.buffer) THEN acc.buffer[j] ELSE r[j - Len(acc.buffer)]
      BY <1>4, <2>1, ConcatProperties
    <2> DEFINE both == acc.buffer \o r
    <2>3. both[1] = acc.buffer[1] /\ Len(both) >= 1
      BY <2>2
    <2>4. B(k) = both
      BY DEF r
    <2> HIDE DEF both, B
    <2>5. both # <<>>
      BY <2>3
    <2> QED BY <2>3, <2>4, <2>5
  <1> HIDE DEF B
  <1>8. ASSUME NEW k \in 1 .. N, NEW d \in Int,
               t[k - 1] = [out |-> acc.out, buffer |-> B(k - 1), depth |-> d],
               s[k].piece.ends => d + s[k].piece.change > 0
        PROVE  t[k] = [out |-> acc.out, buffer |-> B(k), depth |-> d + s[k].piece.change]
    <2> DEFINE a == t[k - 1]
    <2>1. a \in JoinType(S) /\ s[k] \in LineType(S) /\ s[k].kind = kind /\ t[k] = Coalesce(a, s[k])
      <3>1. N \in Nat
        BY <1>1
      <3> QED BY <1>2, <1>3, <3>1
    <2>2. a.out = acc.out /\ a.buffer = B(k - 1) /\ a.depth = d
      BY <1>8
    <2> HIDE DEF a
    <2>3. Waits(a, kind)
      <3>1. k - 1 \in 0 .. N
        BY <1>1
      <3> QED BY <1>4, <1>7, <2>2, <3>1 DEF Waits
    <2>4. B(k) = Append(B(k - 1), s[k]) /\ (s[k].piece.ends => d + s[k].piece.change > 0)
      BY <1>6, <1>8
    <2>5. Waits(a, s[k].kind) /\ a.depth + s[k].piece.change = d + s[k].piece.change
          /\ a.depth + s[k].piece.change \in Int
      BY <1>2, <2>1, <2>2, <2>3
    <2>6. s[k].piece.ends => a.depth + s[k].piece.change >= 1
      BY <2>4, <2>5
    <2>7. Coalesce(a, s[k]) = [out |-> a.out, buffer |-> Append(a.buffer, s[k]),
                               depth |-> a.depth + s[k].piece.change]
      BY <2>5, <2>6, JoinWaits
    <2> QED BY <2>1, <2>2, <2>4, <2>5, <2>7
  <1> DEFINE D == acc.depth
  <1>9. D \in Int /\ D >= 1 /\ t[0] = [out |-> acc.out, buffer |-> B(0), depth |-> D]
    BY <1>3, <1>4, <1>5
  <1> HIDE DEF D
  <1>10. t[N].out = acc.out /\ t[N].buffer = B(N) /\ t[N].depth >= 1
    <2>1. CASE Shape(i) # "spread"
      <3>1. N = 1 /\ 1 \in 1 .. N /\ 1 - 1 = 0
        BY <1>1, <2>1
      <3>2. s[1].piece.change \in {0, 1}
        BY <1>2, <2>1, <3>1, OneLineIs
      <3>3. D + s[1].piece.change > 0
        BY <1>9, <3>2
      <3>4. t[1] = [out |-> acc.out, buffer |-> B(1), depth |-> D + s[1].piece.change]
        BY <1>8, <1>9, <3>1, <3>3
      <3>5. D + s[1].piece.change >= 1
        BY <1>9, <3>2
      <3> QED BY <3>1, <3>4, <3>5
    <2>2. CASE Shape(i) = "spread"
      <3>1. N = 5 /\ 1 \in 1 .. N /\ 2 \in 1 .. N /\ 3 \in 1 .. N /\ 4 \in 1 .. N /\ 5 \in 1 .. N
        BY <1>1, <2>2
      <3>2. /\ s[1].piece.change = 1 /\ s[2].piece.change = 1 /\ s[3].piece.change = -1
            /\ s[4].piece.change = 0 /\ s[5].piece.change = -1
        BY <1>2, <2>2, <3>1, SpreadIs
      <3>3. /\ D + 1 \in Int /\ D + 2 \in Int /\ D + 1 > 0 /\ D + 2 > 0 /\ D > 0
            /\ 1 - 1 = 0 /\ 2 - 1 = 1 /\ 3 - 1 = 2 /\ 4 - 1 = 3 /\ 5 - 1 = 4
        BY <1>9
      <3>4. t[1] = [out |-> acc.out, buffer |-> B(1), depth |-> D + 1]
        BY <1>8, <1>9, <3>1, <3>2, <3>3
      <3>5. t[2] = [out |-> acc.out, buffer |-> B(2), depth |-> D + 2]
        <4>1. (D + 1) + s[2].piece.change = D + 2
          BY <1>9, <3>2
        <4> QED BY <1>8, <3>1, <3>3, <3>4, <4>1
      <3>6. t[3] = [out |-> acc.out, buffer |-> B(3), depth |-> D + 1]
        <4>1. (D + 2) + s[3].piece.change = D + 1
          BY <1>9, <3>2
        <4> QED BY <1>8, <3>1, <3>3, <3>5, <4>1
      <3>7. t[4] = [out |-> acc.out, buffer |-> B(4), depth |-> D + 1]
        <4>1. (D + 1) + s[4].piece.change = D + 1
          BY <1>9, <3>2
        <4> QED BY <1>8, <3>1, <3>3, <3>6, <4>1
      <3>8. t[5] = [out |-> acc.out, buffer |-> B(5), depth |-> D]
        <4>1. (D + 1) + s[5].piece.change = D
          BY <1>9, <3>2
        <4> QED BY <1>8, <3>1, <3>3, <3>7, <4>1
      <3> QED BY <1>9, <3>1, <3>8
    <2> QED BY <2>1, <2>2
  <1> QED BY <1>3, <1>5, <1>10 DEF s

-----------------------------------------------------------------------------
(* The texts of a row, parsed                                                *)

LEMMA VerbatimBoth ==
    ASSUME NEW S, NEW a \in Seq(LineType(S)), NEW b \in Seq(LineType(S))
    PROVE  Verbatim(a \o b) = Verbatim(a) \o Verbatim(b)
  <1> DEFINE N == Len(a)
             M == Len(b)
             c == a \o b
             u == Verbatim(a)
             v == Verbatim(b)
             w == Verbatim(c)
  <1>1. /\ N \in Nat /\ M \in Nat /\ c \in Seq(LineType(S)) /\ Len(c) = N + M
        /\ \A j \in 1 .. N + M : c[j] = IF j <= N THEN a[j] ELSE b[j - N]
    BY ConcatProperties
  <1> HIDE DEF c
  <1>2. /\ u \in Seq(TextType(S)) /\ Len(u) = N /\ \A j \in 1 .. N : u[j] = Text(<<a[j]>>)
        /\ v \in Seq(TextType(S)) /\ Len(v) = M /\ \A j \in 1 .. M : v[j] = Text(<<b[j]>>)
        /\ w \in Seq(TextType(S)) /\ Len(w) = N + M /\ \A j \in 1 .. N + M : w[j] = Text(<<c[j]>>)
    BY <1>1, VerbatimTyped
  <1> HIDE DEF u, v, w, N, M
  <1>3. /\ u \o v \in Seq(TextType(S)) /\ Len(u \o v) = N + M
        /\ \A j \in 1 .. N + M : (u \o v)[j] = IF j <= N THEN u[j] ELSE v[j - N]
    BY <1>2, ConcatProperties
  <1>4. ASSUME NEW j \in 1 .. N + M PROVE w[j] = (u \o v)[j]
    <2>1. CASE j <= N
      <3>1. j \in 1 .. N
        BY <1>1, <2>1
      <3>2. c[j] = a[j] /\ (u \o v)[j] = u[j]
        BY <1>1, <1>3, <2>1
      <3>3. w[j] = Text(<<c[j]>>) /\ u[j] = Text(<<a[j]>>)
        BY <1>2, <3>1
      <3> QED BY <3>2, <3>3
    <2>2. CASE ~(j <= N)
      <3>1. j - N \in 1 .. M
        BY <1>1, <2>2
      <3>2. c[j] = b[j - N] /\ (u \o v)[j] = v[j - N]
        BY <1>1, <1>3, <2>2
      <3>3. w[j] = Text(<<c[j]>>) /\ v[j - N] = Text(<<b[j - N]>>)
        BY <1>2, <3>1
      <3> QED BY <3>2, <3>3
    <2> QED BY <2>1, <2>2
  <1>5. w = u \o v
    BY <1>2, <1>3, <1>4, SeqEqual
  <1> QED BY <1>5 DEF u, v, w, c

LEMMA VerbatimNone == Verbatim(<<>>) = <<>>
  <1>1. Len(<<>>) = 0 /\ DOMAIN <<>> = {}
    OBVIOUS
  <1> QED BY <1>1 DEF Verbatim

LEMMA RowPieces ==
    ASSUME ReadmeTypeOK, NEW i \in InFile
    PROVE  /\ PiecesOf(i, Shape(i)) \in Seq(PieceType)
           /\ Len(PiecesOf(i, Shape(i))) = (IF Shape(i) = "spread" THEN 5 ELSE 1)
           /\ \A j \in 1 .. Len(PiecesOf(i, Shape(i))) : PiecesOf(i, Shape(i))[j].at = i
  <1>1. Shape(i) \in Shapes
    BY EntryTyped DEF Shape, Shapes
  <1> QED BY <1>1, PiecesAre

LEMMA TextOfRow ==
    ASSUME ReadmeTypeOK, NEW S, NEW i \in InFile, NEW kind \in {"added", "removed"}, kind = "added" => i \in S
    PROVE  /\ Text(Lines(i, kind)) \in TextType(S) /\ Text(Lines(i, kind)).kind = kind
           /\ Text(Lines(i, kind)).pieces = PiecesOf(i, Shape(i)) /\ PiecesOf(i, Shape(i))[1].at = i
  <1> DEFINE s == Lines(i, kind)
             ps == PiecesOf(i, Shape(i))
             N == Len(s)
  <1>1. s \in Seq(LineType(S)) /\ N = IF Shape(i) = "spread" THEN 5 ELSE 1
    BY LinesTyped DEF LineKinds
  <1>2. AreLines(S, s, ps, kind)
    BY LineAt
  <1>3. /\ ps \in Seq(PieceType) /\ Len(ps) = (IF Shape(i) = "spread" THEN 5 ELSE 1)
        /\ \A j \in 1 .. Len(ps) : ps[j].at = i
    BY RowPieces
  <1>4. 1 \in 1 .. N /\ N = Len(ps) /\ N >= 1
    BY <1>1, <1>3
  <1>5. Text(Lines(i, kind)) = Text(s)
    OBVIOUS
  <1> HIDE DEF s, ps
  <1>6. /\ Text(s) \in TextType(S) /\ Text(s).kind = s[1].kind /\ Len(Text(s).pieces) = N
        /\ \A j \in 1 .. N : Text(s).pieces[j] = s[j].piece
    BY <1>1, <1>4, TextTyped
  <1> HIDE DEF N
  <1>7. s[1].kind = kind /\ \A j \in 1 .. N : s[j].piece = ps[j]
    BY <1>2, <1>4 DEF AreLines, N
  <1>8. Text(s).pieces = ps
    <2>1. Text(s).pieces \in Seq(PieceType)
      BY <1>6 DEF TextType
    <2>2. \A j \in 1 .. N : Text(s).pieces[j] = ps[j]
      BY <1>6, <1>7
    <2> QED BY <1>3, <1>4, <1>6, <2>1, <2>2, SeqEqual
  <1> QED BY <1>3, <1>4, <1>5, <1>6, <1>7, <1>8 DEF ps

\* what reading a row does
RowRead(acc, i, kind) == Parse(acc, Text(Lines(i, kind)))

Job(i, company, kind) == [at |-> i, company |-> company, kind |-> kind]

ReadAs(acc, new, i, kind) ==
    LET row == file[i].row
    IN  /\ row.shape = "header" => new = [last |-> Nobody, jobs |-> acc.jobs]
        /\ row.shape # "header" /\ ~JobRow(row) => new = acc
        /\ JobRow(row) /\ row.company # "same" =>
             new = [last |-> row.company, jobs |-> Append(acc.jobs, Job(i, row.company, kind))]
        /\ JobRow(row) /\ row.company = "same" /\ acc.last # Nobody =>
             new = [last |-> acc.last, jobs |-> Append(acc.jobs, Job(i, acc.last, kind))]
        /\ JobRow(row) /\ row.company = "same" /\ acc.last = Nobody => new = acc

LEMMA RowReadAs ==
    ASSUME ReadmeTypeOK, NEW S, NEW i \in InFile, NEW kind \in {"added", "removed"}, kind = "added" => i \in S,
           NEW acc \in ParseType(S)
    PROVE  RowRead(acc, i, kind) \in ParseType(S) /\ ReadAs(acc, RowRead(acc, i, kind), i, kind)
  <1> DEFINE text == Text(Lines(i, kind))
             row == file[i].row
  <1>1. text \in TextType(S) /\ text.kind = kind /\ text.pieces = PiecesOf(i, Shape(i)) /\ text.pieces[1].at = i
    BY TextOfRow
  <1>2. RowRead(acc, i, kind) = Parse(acc, text)
    BY DEF RowRead
  <1> HIDE DEF text
  <1>3. WholeRow(text.pieces)
    BY <1>1 DEF WholeRow, Shape
  <1>4. JobRow(row) => row.shape # "header"
    BY DEF JobRow
  <1>5. acc = [last |-> acc.last, jobs |-> acc.jobs]
    BY ParseFields
  <1>6. Parse(acc, text) =
          IF row.shape = "header" THEN [acc EXCEPT !.last = Nobody]
          ELSE IF ~JobRow(row) THEN acc
          ELSE IF row.company # "same"
            THEN [last |-> row.company, jobs |-> Append(acc.jobs, Job(i, row.company, kind))]
          ELSE IF acc.last # Nobody THEN [acc EXCEPT !.jobs = Append(@, Job(i, acc.last, kind))]
          ELSE acc
    BY <1>1, <1>3 DEF Parse, Job, Inherits
  <1>7. [acc EXCEPT !.last = Nobody] = [last |-> Nobody, jobs |-> acc.jobs]
    BY <1>5, ParseFieldsChange
  <1>8. [acc EXCEPT !.jobs = Append(@, Job(i, acc.last, kind))] =
          [last |-> acc.last, jobs |-> Append(acc.jobs, Job(i, acc.last, kind))]
    <2> DEFINE new == Append(acc.jobs, Job(i, acc.last, kind))
    <2>1. [acc EXCEPT !.jobs = new] = [acc EXCEPT !.jobs = Append(@, Job(i, acc.last, kind))]
      BY <1>5
    <2> HIDE DEF new
    <2>2. [acc EXCEPT !.jobs = new] = [last |-> acc.last, jobs |-> new]
      BY <1>5, ParseFieldsChange
    <2> QED BY <2>1, <2>2 DEF new
  <1>9. Parse(acc, text) \in ParseType(S)
    BY <1>1, ParseTyped
  <1> QED BY <1>2, <1>4, <1>6, <1>7, <1>8, <1>9 DEF ReadAs

LEMMA NothingParsed ==
    ASSUME ReadmeTypeOK, NEW S, NEW acc \in ParseType(S), NEW texts \in Seq(TextType(S)),
           \A j \in 1 .. Len(texts) : Parse(acc, texts[j]) = acc
    PROVE  FoldLeft(Parse, acc, texts) = acc
  <1> DEFINE X == {x \in TextType(S) : Parse(acc, x) = acc}
             G == {s \in Seq(TextType(S)) : FoldLeft(Parse, acc, s) = acc}
  <1>0. /\ FoldLeft(Parse, acc, <<>>) = acc
        /\ \A x \in TextType(S) : FoldLeft(Parse, acc, <<x>>) = Parse(acc, x)
        /\ \A s \in Seq(TextType(S)) : FoldLeft(Parse, acc, s) \in ParseType(S)
        /\ \A s, r \in Seq(TextType(S)) :
             FoldLeft(Parse, acc, s \o r) = FoldLeft(Parse, FoldLeft(Parse, acc, s), r)
    BY ReadFolds, ZenonT(30)
  <1>1. texts \in Seq(X)
    <2>1. \A j \in 1 .. Len(texts) : texts[j] \in X
      BY ElementOfSeq
    <2> HIDE DEF X
    <2>2. Len(texts) \in Nat /\ texts = [j \in 1 .. Len(texts) |-> texts[j]]
      OBVIOUS
    <2> QED BY <2>1, <2>2
  <1>2. <<>> \in G
    <2>1. <<>> \in Seq(TextType(S))
      OBVIOUS
    <2> QED BY <1>0, <2>1
  <1>3. ASSUME NEW s \in Seq(X), NEW x \in X, s \in G PROVE s \o <<x>> \in G
    <2>1. <<x>> \in Seq(TextType(S)) /\ s \in Seq(TextType(S)) /\ FoldLeft(Parse, acc, s) = acc
          /\ x \in TextType(S) /\ Parse(acc, x) = acc
      BY <1>3
    <2> HIDE DEF X, G
    <2>2. FoldLeft(Parse, acc, <<x>>) = acc
      BY <1>0, <2>1
    <2>3. FoldLeft(Parse, acc, s \o <<x>>) = FoldLeft(Parse, FoldLeft(Parse, acc, s), <<x>>)
      BY <1>0, <2>1
    <2>4. s \o <<x>> \in Seq(TextType(S))
      BY <2>1, ConcatProperties
    <2> QED BY <2>1, <2>2, <2>3, <2>4 DEF G
  <1> HIDE DEF X, G
  <1>4. Seq(X) \subseteq G
    BY <1>2, <1>3, SeqInduction
  <1> QED BY <1>1, <1>4 DEF G

\* the lines of a row, not joined: of one line it is read all the same
LEMMA LooseRead ==
    ASSUME ReadmeTypeOK, NEW S, NEW i \in InFile, NEW kind \in {"added", "removed"}, kind = "added" => i \in S,
           NEW acc \in ParseType(S)
    PROVE  FoldLeft(Parse, acc, Verbatim(Lines(i, kind))) =
             IF Shape(i) = "spread" THEN acc ELSE RowRead(acc, i, kind)
  <1> DEFINE s == Lines(i, kind)
             ps == PiecesOf(i, Shape(i))
             v == Verbatim(s)
  <1>1. s \in Seq(LineType(S)) /\ Len(s) = IF Shape(i) = "spread" THEN 5 ELSE 1
    BY LinesTyped DEF LineKinds
  <1>2. AreLines(S, s, ps, kind)
    BY LineAt
  <1>3. /\ ps \in Seq(PieceType) /\ Len(ps) = (IF Shape(i) = "spread" THEN 5 ELSE 1)
        /\ \A j \in 1 .. Len(ps) : ps[j].at = i
    BY RowPieces
  <1>4. RowRead(acc, i, kind) = Parse(acc, Text(s)) /\ Text(s) \in TextType(S)
    BY TextOfRow DEF RowRead
  <1> HIDE DEF s
  <1>5. v \in Seq(TextType(S)) /\ Len(v) = Len(s) /\ \A j \in 1 .. Len(s) : v[j] = Text(<<s[j]>>)
    BY <1>1, VerbatimTyped
  <1> HIDE DEF v
  <1>6. CASE Shape(i) # "spread"
    <2>1. Len(s) = 1 /\ s = <<s[1]>>
      <3>1. Len(s) = 1
        BY <1>1, <1>6
      <3>2. s = [j \in 1 .. 1 |-> s[j]]
        BY <1>1, <3>1
      <3>3. <<s[1]>> = [j \in 1 .. 1 |-> s[1]] /\ \A j \in 1 .. 1 : j = 1
        OBVIOUS
      <3> QED BY <3>1, <3>2, <3>3
    <2>2. v = <<Text(s)>>
      <3>1. Len(v) = 1 /\ v[1] = Text(s)
        BY <1>5, <2>1
      <3>2. v = [j \in 1 .. 1 |-> v[j]]
        BY <1>5, <3>1
      <3>3. <<v[1]>> = [j \in 1 .. 1 |-> v[1]] /\ \A j \in 1 .. 1 : j = 1
        OBVIOUS
      <3> QED BY <3>1, <3>2, <3>3
    <2>3. FoldLeft(Parse, acc, <<Text(s)>>) = Parse(acc, Text(s))
      BY <1>4, ReadFolds
    <2> QED BY <1>4, <1>6, <2>2, <2>3 DEF v, s
  <1>7. CASE Shape(i) = "spread"
    <2>1. ASSUME NEW j \in 1 .. Len(v) PROVE Parse(acc, v[j]) = acc
      <3>1. j \in 1 .. Len(s) /\ v[j] = Text(<<s[j]>>)
        BY <1>5, <2>1
      <3>2. s[j] \in LineType(S) /\ s[j].piece = ps[j]
        BY <1>2, <3>1 DEF AreLines
      <3>3. ps[j].at = i /\ Len(ps) = 5
        BY <1>1, <1>3, <1>7, <3>1
      <3> DEFINE one == <<s[j]>>
      <3>4. one \in Seq(LineType(S)) /\ Len(one) = 1 /\ one[1] = s[j]
        BY <3>2, OneOf
      <3> HIDE DEF one
      <3>5. Len(Text(one).pieces) = 1 /\ Text(one).pieces[1] = ps[j]
        <4>1. Len(one) >= 1 /\ 1 \in 1 .. Len(one)
          BY <3>4
        <4>2. Len(Text(one).pieces) = Len(one) /\ \A m \in 1 .. Len(one) : Text(one).pieces[m] = one[m].piece
          BY <3>4, <4>1, TextTyped
        <4> QED BY <3>2, <3>4, <4>1, <4>2
      <3>6. ~WholeRow(Text(one).pieces)
        <4>1. Text(one).pieces # ps
          <5>1. Len(Text(one).pieces) # Len(ps)
            BY <3>3, <3>5
          <5> QED BY <5>1
        <4>2. PiecesOf(Text(one).pieces[1].at, file[Text(one).pieces[1].at].row.shape) = ps
          BY <3>3, <3>5 DEF Shape
        <4> QED BY <4>1, <4>2 DEF WholeRow
      <3>7. Parse(acc, Text(one)) = acc
        BY <3>6 DEF Parse
      <3> QED BY <3>1, <3>7 DEF one
    <2>2. FoldLeft(Parse, acc, v) = acc
      BY <1>5, <2>1, NothingParsed
    <2> QED BY <1>7, <2>2 DEF v, s
  <1> QED BY <1>6, <1>7

-----------------------------------------------------------------------------
(* A full sync, row by row                                                   *)

\* the folds used as facts: of any start and any lines, texts
JoinsOn(S, acc) ==
    /\ FoldLeft(Coalesce, acc, <<>>) = acc
    /\ \A x \in LineType(S) : FoldLeft(Coalesce, acc, <<x>>) = Coalesce(acc, x)
    /\ \A s \in Seq(LineType(S)) : FoldLeft(Coalesce, acc, s) \in JoinType(S)
    /\ \A s, r \in Seq(LineType(S)) :
         FoldLeft(Coalesce, acc, s \o r) = FoldLeft(Coalesce, FoldLeft(Coalesce, acc, s), r)

ReadsOn(S, acc) ==
    /\ FoldLeft(Parse, acc, <<>>) = acc
    /\ \A x \in TextType(S) : FoldLeft(Parse, acc, <<x>>) = Parse(acc, x)
    /\ \A s \in Seq(TextType(S)) : FoldLeft(Parse, acc, s) \in ParseType(S)
    /\ \A s, r \in Seq(TextType(S)) :
         FoldLeft(Parse, acc, s \o r) = FoldLeft(Parse, FoldLeft(Parse, acc, s), r)

LEMMA JoinGoesOn == ASSUME NEW S, NEW acc \in JoinType(S) PROVE JoinsOn(S, acc)
  BY JoinFolds, ZenonT(30) DEF JoinsOn

LEMMA ReadGoesOn == ASSUME ReadmeTypeOK, NEW S, NEW acc \in ParseType(S) PROVE ReadsOn(S, acc)
  BY ReadFolds, ZenonT(30) DEF ReadsOn

LEMMA ParsedBoth ==
    ASSUME ReadmeTypeOK, NEW S, NEW s \in Seq(TextType(S)), NEW r \in Seq(TextType(S))
    PROVE  /\ Parsed(s) \in ParseType(S)
           /\ Parsed(s \o r) = FoldLeft(Parse, Parsed(s), r)
           /\ \A x \in TextType(S) : Parsed(Append(s, x)) = Parse(Parsed(s), x)
  <1>1. ReadsOn(S, [last |-> Nobody, jobs |-> <<>>])
    BY ParseStart, ReadGoesOn
  <1>2. Parsed(s) \in ParseType(S) /\ Parsed(s \o r) = FoldLeft(Parse, Parsed(s), r)
    BY <1>1 DEF ReadsOn, Parsed
  <1>3. ASSUME NEW x \in TextType(S) PROVE Parsed(Append(s, x)) = Parse(Parsed(s), x)
    <2>1. Append(s, x) = s \o <<x>> /\ <<x>> \in Seq(TextType(S))
      OBVIOUS
    <2>2. Parsed(s \o <<x>>) = FoldLeft(Parse, Parsed(s), <<x>>)
      BY <1>1, <2>1 DEF ReadsOn, Parsed
    <2>3. ReadsOn(S, Parsed(s))
      BY <1>2, ReadGoesOn
    <2>4. FoldLeft(Parse, Parsed(s), <<x>>) = Parse(Parsed(s), x)
      BY <2>3 DEF ReadsOn
    <2> QED BY <2>1, <2>2, <2>4
  <1> QED BY <1>2, <1>3

Found(acc) == Parsed(Whole(acc))

LEMMA RowListed ==
    ASSUME ReadmeTypeOK, NEW S, NEW i \in InFile, i \in S, NEW acc \in JoinType(S),
           acc.buffer = <<>> \/ (Waits(acc, "added") /\ acc.depth >= 1)
    PROVE  LET new == FoldLeft(Coalesce, acc, Lines(i, "added"))
           IN  /\ new \in JoinType(S)
               /\ acc.buffer = <<>> /\ Shape(i) # "open" => new.buffer = <<>>
               /\ acc.buffer # <<>> \/ Shape(i) = "open" => Waits(new, "added") /\ new.depth >= 1
               /\ Found(new) = IF acc.buffer # <<>> /\ Shape(i) = "spread" THEN Found(acc)
                               ELSE RowRead(Found(acc), i, "added")
  <1> DEFINE s == Lines(i, "added")
             new == FoldLeft(Coalesce, acc, s)
  <1>1. s \in Seq(LineType(S)) /\ AreLines(S, s, PiecesOf(i, Shape(i)), "added") /\ Len(s) >= 1
    <2>1. s \in Seq(LineType(S)) /\ Len(s) = IF Shape(i) = "spread" THEN 5 ELSE 1
      BY LinesTyped DEF LineKinds
    <2>2. AreLines(S, s, PiecesOf(i, Shape(i)), "added")
      BY LineAt
    <2> HIDE DEF s
    <2>3. Len(s) >= 1
      BY <2>1
    <2> QED BY <2>1, <2>2, <2>3
  <1>2. new \in JoinType(S)
    <2>1. JoinsOn(S, acc)
      BY JoinGoesOn
    <2> HIDE DEF s
    <2> QED BY <1>1, <2>1 DEF JoinsOn
  <1>3. Text(s) \in TextType(S) /\ RowRead(Found(acc), i, "added") = Parse(Found(acc), Text(s))
    BY TextOfRow DEF RowRead
  <1>4. Whole(acc) \in Seq(TextType(S)) /\ Found(acc) \in ParseType(S)
    <2>1. Whole(acc) \in Seq(TextType(S))
      BY WholeTyped
    <2> QED BY <2>1, ParsedBoth DEF Found
  <1>5. FoldLeft(Parse, Found(acc), Verbatim(s)) =
          IF Shape(i) = "spread" THEN Found(acc) ELSE RowRead(Found(acc), i, "added")
    BY <1>4, LooseRead
  <1>6. acc.buffer = <<>> => ~Waits(acc, "added")
    BY DEF Waits
  <1>7. acc.buffer = <<>> /\ Shape(i) # "open" =>
          new = [out |-> Append(Whole(acc), Text(s)), buffer |-> <<>>, depth |-> 0]
    BY <1>6, RowJoins
  <1>8. acc.buffer = <<>> /\ Shape(i) = "open" => new = [out |-> Whole(acc), buffer |-> s, depth |-> 1]
    BY <1>6, RowJoins
  <1>9. acc.buffer # <<>> => new.out = acc.out /\ new.buffer = acc.buffer \o s /\ new.depth >= 1
    BY RowWaits
  <1> HIDE DEF s, new
  <1>10. Verbatim(s) \in Seq(TextType(S))
    BY <1>1, VerbatimTyped
  <1>11. s # <<>> /\ s[1].kind = "added"
    <2>1. 1 \in 1 .. Len(s)
      BY <1>1
    <2> QED BY <1>1, <2>1 DEF AreLines
  <1>12. CASE acc.buffer = <<>> /\ Shape(i) # "open"
    <2>1. new.buffer = <<>> /\ new.out = Append(Whole(acc), Text(s))
      BY <1>7, <1>12
    <2>2. Whole(new) = Append(Whole(acc), Text(s))
      <3> DEFINE w == Append(Whole(acc), Text(s))
      <3>1. w \in Seq(TextType(S))
        BY <1>3, <1>4
      <3> HIDE DEF w
      <3>2. w \o <<>> = w
        BY <3>1, ConcatEmptySeq
      <3> QED BY <2>1, <3>2, VerbatimNone DEF Whole, w
    <2>3. Found(new) = Parse(Found(acc), Text(s))
      BY <1>3, <1>4, <2>2, ParsedBoth DEF Found
    <2> QED BY <1>2, <1>3, <1>12, <2>1, <2>3 DEF new, s
  <1>13. CASE acc.buffer = <<>> /\ Shape(i) = "open"
    <2>1. new.out = Whole(acc) /\ new.buffer = s /\ new.depth = 1
      BY <1>8, <1>13
    <2>2. Waits(new, "added") /\ new.depth >= 1
      BY <1>11, <2>1 DEF Waits
    <2>3. Whole(new) = Whole(acc) \o Verbatim(s)
      BY <2>1 DEF Whole
    <2>4. Found(new) = RowRead(Found(acc), i, "added")
      <3>1. Parsed(Whole(acc) \o Verbatim(s)) = FoldLeft(Parse, Parsed(Whole(acc)), Verbatim(s))
        BY <1>4, <1>10, ParsedBoth
      <3> QED BY <1>5, <1>13, <2>3, <3>1 DEF Found
    <2> QED BY <1>2, <1>13, <2>1, <2>2, <2>4 DEF new, s
  <1>14. CASE acc.buffer # <<>>
    <2>1. new.out = acc.out /\ new.buffer = acc.buffer \o s /\ new.depth >= 1
      BY <1>9, <1>14
    <2>2. /\ acc.buffer \in Seq(LineType(S)) /\ acc.out \in Seq(TextType(S))
          /\ Verbatim(acc.buffer) \in Seq(TextType(S)) /\ acc.buffer[1].kind = "added"
      BY <1>14, JoinFields, VerbatimTyped DEF Waits
    <2>3. new.buffer # <<>> /\ new.buffer[1].kind = "added"
      <3> DEFINE b == acc.buffer
      <3>1. b \in Seq(LineType(S)) /\ b # <<>> /\ b[1].kind = "added"
        BY <1>14, <2>2
      <3> HIDE DEF b
      <3>2. /\ Len(b) \in Nat /\ Len(s) \in Nat /\ Len(b) >= 1 /\ Len(b \o s) = Len(b) + Len(s)
            /\ \A j \in 1 .. Len(b) + Len(s) : (b \o s)[j] = IF j <= Len(b) THEN b[j] ELSE s[j - Len(b)]
        BY <1>1, <3>1, ConcatProperties
      <3>3. Len(b \o s) >= 1 /\ (b \o s)[1] = b[1]
        BY <3>2
      <3>4. b \o s # <<>>
        BY <3>3
      <3> QED BY <2>1, <3>1, <3>3, <3>4 DEF b
    <2>4. Whole(new) = Whole(acc) \o Verbatim(s)
      <3>1. Verbatim(acc.buffer \o s) = Verbatim(acc.buffer) \o Verbatim(s)
        BY <1>1, <2>2, VerbatimBoth
      <3>2. acc.out \o (Verbatim(acc.buffer) \o Verbatim(s)) = (acc.out \o Verbatim(acc.buffer)) \o Verbatim(s)
        <4> DEFINE a == acc.out
                   b == Verbatim(acc.buffer)
                   c == Verbatim(s)
        <4>1. a \in Seq(TextType(S)) /\ b \in Seq(TextType(S)) /\ c \in Seq(TextType(S))
          BY <1>10, <2>2
        <4> HIDE DEF a, b, c
        <4>2. a \o (b \o c) = (a \o b) \o c
          BY <4>1, ConcatAssociative
        <4> QED BY <4>2 DEF a, b, c
      <3> QED BY <2>1, <3>1, <3>2 DEF Whole
    <2>5. Found(new) = FoldLeft(Parse, Found(acc), Verbatim(s))
      <3>1. Parsed(Whole(acc) \o Verbatim(s)) = FoldLeft(Parse, Parsed(Whole(acc)), Verbatim(s))
        BY <1>4, <1>10, ParsedBoth
      <3> QED BY <2>4, <3>1 DEF Found
    <2>6. Waits(new, "added")
      BY <2>3 DEF Waits
    <2> QED BY <1>2, <1>5, <1>14, <2>1, <2>5, <2>6 DEF new, s
  <1> QED BY <1>12, <1>13, <1>14

RowGone(i) == Is(i, {"removed"})

\* no HTML is left open down to row k
Clear(k) == \A q \in 1 .. k : Shape(q) = "open" => RowGone(q)

Reached(k) == ~RowGone(k) /\ (Shape(k) = "spread" => Clear(k - 1))

SyncBy(found) ==
    /\ found[0] = [last |-> Nobody, jobs |-> <<>>]
    /\ \A k \in 1 .. Len(file) :
         found[k] = IF Reached(k) THEN RowRead(found[k - 1], k, "added") ELSE found[k - 1]
    /\ FullSync = Candidates(found[Len(file)].jobs)

HasSync == \E found \in [0 .. Len(file) -> ParseType(InFile)] : SyncBy(found)

LEMMA ListedIs ==
    ASSUME ReadmeTypeOK, NEW k \in InFile
    PROVE  /\ ListedAs(k) = IF RowGone(k) THEN <<>> ELSE Lines(k, "added")
           /\ ListedAs(k) \in Seq(LineType(InFile))
  <1>1. ListedAs(k) = IF RowGone(k) THEN <<>> ELSE Lines(k, "added")
    BY DEF ListedAs, RowGone, Is, Lines, Shape
  <1>2. Lines(k, "added") \in Seq(LineType(InFile)) /\ <<>> \in Seq(LineType(InFile))
    BY LinesTyped DEF LineKinds
  <1> QED BY <1>1, <1>2

LEMMA SyncGoes == ASSUME ReadmeTypeOK PROVE HasSync
  <1> DEFINE N == Len(file)
             X == LineType(InFile)
             ss == [i \in 1 .. N |-> ListedAs(i)]
  <1>1. N \in Nat /\ \A k \in 1 .. N : k \in InFile
    BY DEF ReadmeTypeOK, InFile
  <1>2. Listing = FlattenSeq(ss)
    BY DEF Listing
  <1> HIDE DEF N
  <1>3. ss \in [1 .. N -> Seq(X)] /\ \A k \in 1 .. N : ss[k] = ListedAs(k)
    BY <1>1, ListedIs
  <1> HIDE DEF ss, X
  <1>4. PICK h \in [0 .. N -> Seq(X)] :
          /\ h[0] = <<>> /\ FlattenSeq(ss) = h[N]
          /\ \A k \in 1 .. N : h[k] = h[k - 1] \o ss[k]
    <2>1. HasSteps(X, N, ss)
      BY <1>1, <1>3, FlattenSteps
    <2> QED BY <2>1 DEF HasSteps
  <1> DEFINE acc(k) == Joined(h[k])
             Good(k) == /\ Clear(k) => acc(k).buffer = <<>>
                        /\ ~Clear(k) => Waits(acc(k), "added") /\ acc(k).depth >= 1
             S == {k \in 0 .. N : Good(k)}
             found == [k \in 0 .. N |-> Found(acc(k))]
  <1>5. JoinsOn(InFile, [out |-> <<>>, buffer |-> <<>>, depth |-> 0])
    BY JoinStart, JoinGoesOn
  <1>6. \A k \in 0 .. N : acc(k) \in JoinType(InFile) /\ Found(acc(k)) \in ParseType(InFile)
    <2> TAKE k \in 0 .. N
    <2>1. h[k] \in Seq(LineType(InFile))
      BY <1>4 DEF X
    <2> DEFINE s == h[k]
    <2> HIDE DEF s
    <2>2. s \in Seq(LineType(InFile))
      BY <2>1 DEF s
    <2>3. Joined(s) \in JoinType(InFile) /\ Parsed(Whole(Joined(s))) \in ParseType(InFile)
      BY <2>2, ReadIs
    <2> QED BY <2>3 DEF s, Found
  <1>7. ASSUME NEW k \in 1 .. N
        PROVE  acc(k) = IF RowGone(k) THEN acc(k - 1) ELSE FoldLeft(Coalesce, acc(k - 1), Lines(k, "added"))
    <2>1. k - 1 \in 0 .. N /\ k \in InFile /\ h[k] = h[k - 1] \o ListedAs(k)
      <3>1. h[k] = h[k - 1] \o ss[k] /\ ss[k] = ListedAs(k)
        BY <1>3, <1>4
      <3>2. k - 1 \in 0 .. N /\ k \in InFile
        BY <1>1
      <3> QED BY <3>1, <3>2
    <2>2. h[k - 1] \in Seq(X)
      BY <1>4, <2>1
    <2> DEFINE s == h[k - 1]
               l == Lines(k, "added")
    <2>3. s \in Seq(X) /\ l \in Seq(X)
      BY <2>1, <2>2, LinesTyped DEF LineKinds, X
    <2> HIDE DEF s, l
    <2>4. CASE RowGone(k)
      <3>1. h[k] = s
        <4>1. s \o <<>> = s
          BY <2>3, ConcatEmptySeq
        <4> QED BY <2>1, <2>4, <4>1, ListedIs DEF s
      <3> QED BY <2>4, <3>1 DEF s
    <2>5. CASE ~RowGone(k)
      <3>1. h[k] = s \o l
        BY <2>1, <2>5, ListedIs DEF s, l
      <3>2. Joined(s \o l) = FoldLeft(Coalesce, Joined(s), l)
        BY <1>5, <2>3 DEF JoinsOn, Joined, X
      <3> QED BY <2>5, <3>1, <3>2 DEF s, l
    <2> QED BY <2>4, <2>5
  <1>8. acc(0) = [out |-> <<>>, buffer |-> <<>>, depth |-> 0]
    BY <1>4, <1>5 DEF JoinsOn, Joined
  <1> HIDE DEF acc
  <1>9. Clear(0) /\ Good(0)
    <2>1. Clear(0)
      BY DEF Clear
    <2> QED BY <1>8, <2>1
  <1>10. \A k \in 1 .. N : Clear(k) <=> Clear(k - 1) /\ (Shape(k) = "open" => RowGone(k))
    BY <1>1 DEF Clear
  <1>11. ASSUME NEW k \in 1 .. N, Good(k - 1)
         PROVE  /\ Good(k)
                /\ Found(acc(k)) = IF Reached(k) THEN RowRead(Found(acc(k - 1)), k, "added") ELSE Found(acc(k - 1))
    <2>1. k - 1 \in 0 .. N /\ k \in InFile /\ acc(k - 1) \in JoinType(InFile)
      BY <1>1, <1>6
    <2>2. CASE RowGone(k)
      <3>1. acc(k) = acc(k - 1) /\ (Clear(k) <=> Clear(k - 1)) /\ ~Reached(k)
        BY <1>7, <1>10, <2>2 DEF Reached
      <3> QED BY <1>11, <3>1
    <2>3. CASE ~RowGone(k)
      <3> DEFINE a == acc(k - 1)
                 b == acc(k)
      <3>1. b = FoldLeft(Coalesce, a, Lines(k, "added"))
        BY <1>7, <2>3
      <3>2. a.buffer = <<>> \/ (Waits(a, "added") /\ a.depth >= 1)
        BY <1>11
      <3>3. a.buffer = <<>> <=> Clear(k - 1)
        BY <1>11 DEF Waits
      <3>4. a \in JoinType(InFile)
        BY <2>1
      <3>5. Clear(k) <=> Clear(k - 1) /\ Shape(k) # "open"
        BY <1>10, <2>3
      <3>6. Reached(k) <=> (Shape(k) = "spread" => Clear(k - 1))
        BY <2>3 DEF Reached
      <3> HIDE DEF a, b
      <3>7. /\ a.buffer = <<>> /\ Shape(k) # "open" => b.buffer = <<>>
            /\ a.buffer # <<>> \/ Shape(k) = "open" => Waits(b, "added") /\ b.depth >= 1
            /\ Found(b) = IF a.buffer # <<>> /\ Shape(k) = "spread" THEN Found(a)
                          ELSE RowRead(Found(a), k, "added")
        BY <2>1, <3>1, <3>2, <3>4, RowListed
      <3>8. /\ Clear(k) => b.buffer = <<>>
            /\ ~Clear(k) => Waits(b, "added") /\ b.depth >= 1
        BY <3>3, <3>5, <3>7
      <3>9. Found(b) = IF Reached(k) THEN RowRead(Found(a), k, "added") ELSE Found(a)
        BY <3>3, <3>6, <3>7
      <3> QED BY <3>8, <3>9 DEF a, b
    <2> QED BY <2>2, <2>3
  <1> HIDE DEF Good
  <1>12. \A k \in 0 .. N : Good(k)
    <2>1. 0 \in S
      BY <1>1, <1>9
    <2>2. ASSUME NEW k \in 0 .. N, k \in S, k < N PROVE k + 1 \in S
      <3>1. k + 1 \in 1 .. N /\ k + 1 \in 0 .. N /\ (k + 1) - 1 = k /\ Good(k)
        BY <1>1, <2>2
      <3>2. Good((k + 1) - 1)
        BY <3>1
      <3>3. Good(k + 1)
        BY <1>11, <3>1, <3>2
      <3> QED BY <3>1, <3>3
    <2> HIDE DEF S
    <2>3. 0 .. N \subseteq S
      BY <1>1, <2>1, <2>2, SetInduction
    <2> QED BY <2>3 DEF S
  <1>13. \A k \in 1 .. N :
           Found(acc(k)) = IF Reached(k) THEN RowRead(Found(acc(k - 1)), k, "added") ELSE Found(acc(k - 1))
    <2> TAKE k \in 1 .. N
    <2>1. k - 1 \in 0 .. N
      BY <1>1
    <2> QED BY <1>11, <1>12, <2>1
  <1>14. found \in [0 .. N -> ParseType(InFile)] /\ \A k \in 0 .. N : found[k] = Found(acc(k))
    BY <1>6
  <1> HIDE DEF found
  <1>15. found[0] = [last |-> Nobody, jobs |-> <<>>]
    <2>1. Whole(acc(0)) = <<>>
      <3>1. <<>> \o <<>> = <<>>
        OBVIOUS
      <3> QED BY <1>8, <3>1, VerbatimNone DEF Whole
    <2>2. ReadsOn(InFile, [last |-> Nobody, jobs |-> <<>>])
      BY ParseStart, ReadGoesOn
    <2>3. Found(acc(0)) = [last |-> Nobody, jobs |-> <<>>]
      BY <2>1, <2>2 DEF ReadsOn, Found, Parsed
    <2>4. 0 \in 0 .. N
      BY <1>1
    <2> QED BY <1>14, <2>3, <2>4
  <1>16. \A k \in 1 .. N : found[k] = IF Reached(k) THEN RowRead(found[k - 1], k, "added") ELSE found[k - 1]
    <2> TAKE k \in 1 .. N
    <2>1. k \in 0 .. N /\ k - 1 \in 0 .. N
      BY <1>1
    <2> QED BY <1>13, <1>14, <2>1
  <1>17. FullSync = Candidates(found[N].jobs)
    <2> DEFINE s == h[N]
    <2>1. N \in 0 .. N
      BY <1>1
    <2>2. s \in Seq(LineType(InFile)) /\ Listing = s
      BY <1>2, <1>4, <2>1 DEF X
    <2>3. found[N] = Parsed(Whole(Joined(s)))
      BY <1>14, <2>1 DEF Found, acc
    <2> HIDE DEF s
    <2>4. Read(s) = Candidates(Parsed(Whole(Joined(s))).jobs)
      BY <2>2, ReadIs
    <2> QED BY <2>2, <2>3, <2>4 DEF FullSync
  <1> QED BY <1>14, <1>15, <1>16, <1>17 DEF HasSync, SyncBy, N

-----------------------------------------------------------------------------
(* The rows that name a company                                              *)

Marks(p) == Is(p, Now) /\ (Named(p) \/ Shape(p) = "header")
Above(i) == {p \in 1 .. i : Marks(p)}

LEMMA NamedByIs ==
    ASSUME NEW i
    PROVE  NamedBy(i) = IF Above(i) = {} THEN 0
                        ELSE LET nearest == CHOOSE p \in Above(i) : \A q \in Above(i) : q <= p
                             IN  IF Shape(nearest) = "header" THEN 0 ELSE nearest
  BY DEF NamedBy, Above, Marks, Shape

LEMMA NamedByStep ==
    ASSUME NEW k \in Nat, k >= 1
    PROVE  NamedBy(k) = IF ~Marks(k) THEN NamedBy(k - 1) ELSE IF Shape(k) = "header" THEN 0 ELSE k
  <1>1. CASE Marks(k)
    <2>1. k \in Above(k) /\ \A q \in Above(k) : q \in Nat /\ q <= k
      BY <1>1 DEF Above
    <2> DEFINE T == Above(k)
               nearest == CHOOSE p \in T : \A q \in T : q <= p
    <2> HIDE DEF T
    <2>2. k \in T /\ \A q \in T : q \in Nat /\ q <= k
      BY <2>1 DEF T
    <2>3. nearest \in T /\ \A q \in T : q <= nearest
      BY <2>2
    <2> HIDE DEF nearest
    <2>4. nearest = k
      <3>1. nearest \in Nat /\ nearest <= k /\ k <= nearest
        BY <2>2, <2>3
      <3> QED BY <3>1
    <2>5. T # {}
      BY <2>2
    <2>6. NamedBy(k) = IF Shape(nearest) = "header" THEN 0 ELSE nearest
      BY <2>5, NamedByIs DEF T, nearest
    <2> QED BY <1>1, <2>4, <2>6
  <1>2. CASE ~Marks(k)
    <2>1. \A p \in 1 .. k : p = k \/ p \in 1 .. (k - 1)
      OBVIOUS
    <2>2. \A p \in 1 .. (k - 1) : p \in 1 .. k
      OBVIOUS
    <2>3. Above(k) = Above(k - 1)
      BY <1>2, <2>1, <2>2 DEF Above
    <2> DEFINE Nearest(T) == CHOOSE p \in T : \A q \in T : q <= p
               NamedValue(T) == IF T = {} THEN 0 ELSE IF Shape(Nearest(T)) = "header" THEN 0 ELSE Nearest(T)
    <2>4. NamedBy(k) = NamedValue(Above(k)) /\ NamedBy(k - 1) = NamedValue(Above(k - 1))
      BY NamedByIs
    <2> HIDE DEF NamedValue
    <2> QED BY <1>2, <2>3, <2>4
  <1> QED BY <1>1, <1>2

NamedFor(k) ==
    /\ NamedBy(k) \in 0 .. k
    /\ NamedBy(k) # 0 => Is(NamedBy(k), Now) /\ Named(NamedBy(k))

LEMMA NamedByNone == NamedBy(0) = 0 /\ NamedFor(0)
  <1>1. Above(0) = {}
    BY DEF Above
  <1>2. NamedBy(0) = 0
    BY <1>1, NamedByIs
  <1> QED BY <1>2 DEF NamedFor

LEMMA NamedByRow == ASSUME ReadmeTypeOK PROVE \A k \in 0 .. Len(file) : NamedFor(k)
  <1> DEFINE N == Len(file)
             S == {k \in 0 .. N : NamedFor(k)}
  <1>1. N \in Nat
    BY DEF ReadmeTypeOK
  <1> HIDE DEF N
  <1>2. 0 \in S
    BY <1>1, NamedByNone
  <1>3. ASSUME NEW k \in 0 .. N, k \in S, k < N PROVE k + 1 \in S
    <2>1. k + 1 \in Nat /\ k + 1 >= 1 /\ (k + 1) - 1 = k /\ k + 1 \in 0 .. N /\ NamedFor(k)
      BY <1>1, <1>3
    <2>2. NamedBy(k + 1) = IF ~Marks(k + 1) THEN NamedBy(k)
                           ELSE IF Shape(k + 1) = "header" THEN 0 ELSE k + 1
      <3>1. NamedBy(k + 1) = IF ~Marks(k + 1) THEN NamedBy((k + 1) - 1)
                             ELSE IF Shape(k + 1) = "header" THEN 0 ELSE k + 1
        BY <2>1, NamedByStep
      <3> QED BY <2>1, <3>1
    <2>3. CASE ~Marks(k + 1)
      <3>1. NamedBy(k + 1) = NamedBy(k) /\ NamedBy(k) \in 0 .. k
        BY <2>1, <2>2, <2>3 DEF NamedFor
      <3>2. NamedBy(k + 1) \in 0 .. (k + 1)
        BY <1>1, <3>1
      <3> QED BY <2>1, <3>1, <3>2 DEF NamedFor
    <2>4. CASE Marks(k + 1)
      <3>1. Is(k + 1, Now) /\ (Named(k + 1) \/ Shape(k + 1) = "header")
        BY <2>4 DEF Marks
      <3>2. NamedFor(k + 1)
        BY <2>1, <2>2, <2>4, <3>1 DEF NamedFor
      <3> QED BY <2>1, <3>2
    <2> QED BY <2>3, <2>4
  <1> HIDE DEF S
  <1>4. 0 .. N \subseteq S
    BY <1>1, <1>2, <1>3, SetInduction
  <1> QED BY <1>4 DEF S, N

-----------------------------------------------------------------------------
(* What a full sync has found down to row k                                  *)

SyncedTo(k, acc) ==
    /\ \A j \in 1 .. Len(acc.jobs) :
         /\ acc.jobs[j].kind = "added" /\ acc.jobs[j].at \in 1 .. k /\ NamedBy(acc.jobs[j].at) # 0
    /\ \A j, m \in 1 .. Len(acc.jobs) : acc.jobs[j].at = acc.jobs[m].at => j = m
    /\ \A i \in 1 .. k :
         Legible(i) /\ NamedBy(i) # 0 /\ Legible(NamedBy(i)) =>
           \E j \in 1 .. Len(acc.jobs) :
             acc.jobs[j].at = i /\ acc.jobs[j].company = file[NamedBy(i)].row.company
    /\ NamedBy(k) = 0 => acc.last = Nobody
    /\ NamedBy(k) # 0 /\ Legible(NamedBy(k)) => acc.last = file[NamedBy(k)].row.company

LEMMA SyncedNoJob ==
    ASSUME NEW k \in Nat, k >= 1, NEW old, NEW new, SyncedTo(k - 1, old), new.jobs = old.jobs,
           ~(Legible(k) /\ NamedBy(k) # 0 /\ Legible(NamedBy(k))),
           NamedBy(k) = 0 => new.last = Nobody,
           NamedBy(k) # 0 /\ Legible(NamedBy(k)) => new.last = file[NamedBy(k)].row.company
    PROVE  SyncedTo(k, new)
  <1>1. \A p \in 1 .. (k - 1) : p \in 1 .. k
    OBVIOUS
  <1>2. \A p \in 1 .. k : p = k \/ p \in 1 .. (k - 1)
    OBVIOUS
  <1> QED BY <1>1, <1>2 DEF SyncedTo

LEMMA SyncedOneJob ==
    ASSUME NEW k \in Nat, k >= 1, NEW old, NEW new, SyncedTo(k - 1, old), old.jobs \in Seq(JobType(InFile)),
           NEW company, Job(k, company, "added") \in JobType(InFile),
           new.jobs = Append(old.jobs, Job(k, company, "added")),
           NamedBy(k) # 0, Legible(NamedBy(k)) => company = file[NamedBy(k)].row.company,
           Legible(NamedBy(k)) => new.last = file[NamedBy(k)].row.company
    PROVE  SyncedTo(k, new)
  <1> DEFINE n == Len(old.jobs)
             job == Job(k, company, "added")
  <1>1. /\ n \in Nat /\ Len(new.jobs) = n + 1 /\ new.jobs[n + 1] = job
        /\ \A j \in 1 .. n : new.jobs[j] = old.jobs[j]
    BY DEF job
  <1>2. job.at = k /\ job.company = company /\ job.kind = "added"
    BY DEF Job
  <1>3. \A p \in 1 .. (k - 1) : p \in 1 .. k /\ p # k
    OBVIOUS
  <1>4. \A p \in 1 .. k : p = k \/ p \in 1 .. (k - 1)
    OBVIOUS
  <1>5. k \in 1 .. k
    OBVIOUS
  <1>6. /\ \A j \in 1 .. n :
             /\ old.jobs[j].kind = "added" /\ old.jobs[j].at \in 1 .. (k - 1) /\ NamedBy(old.jobs[j].at) # 0
        /\ \A j, m \in 1 .. n : old.jobs[j].at = old.jobs[m].at => j = m
        /\ \A i \in 1 .. (k - 1) :
             Legible(i) /\ NamedBy(i) # 0 /\ Legible(NamedBy(i)) =>
               \E j \in 1 .. n : old.jobs[j].at = i /\ old.jobs[j].company = file[NamedBy(i)].row.company
    BY DEF SyncedTo
  <1> HIDE DEF n, job
  <1>7. \A j \in 1 .. n + 1 : j = n + 1 \/ j \in 1 .. n
    BY <1>1
  <1>8. n + 1 \in 1 .. n + 1 /\ \A j \in 1 .. n : j \in 1 .. n + 1
    BY <1>1
  <1>9. \A j \in 1 .. n + 1 :
          new.jobs[j].kind = "added" /\ new.jobs[j].at \in 1 .. k /\ NamedBy(new.jobs[j].at) # 0
    BY <1>1, <1>2, <1>3, <1>5, <1>6, <1>7
  <1>10. \A j, m \in 1 .. n + 1 : new.jobs[j].at = new.jobs[m].at => j = m
    BY <1>1, <1>2, <1>3, <1>6, <1>7
  <1>11. ASSUME NEW i \in 1 .. k, Legible(i) /\ NamedBy(i) # 0 /\ Legible(NamedBy(i))
         PROVE  \E j \in 1 .. n + 1 :
                  new.jobs[j].at = i /\ new.jobs[j].company = file[NamedBy(i)].row.company
    <2>1. CASE i = k
      BY <1>1, <1>2, <1>8, <1>11, <2>1
    <2>2. CASE i # k
      <3>1. i \in 1 .. (k - 1)
        BY <1>4, <2>2
      <3>2. PICK j \in 1 .. n : old.jobs[j].at = i /\ old.jobs[j].company = file[NamedBy(i)].row.company
        BY <1>6, <1>11, <3>1
      <3> QED BY <1>1, <1>8, <3>2
    <2> QED BY <2>1, <2>2
  <1> QED BY <1>1, <1>9, <1>10, <1>11 DEF SyncedTo

LEMMA SyncedStep ==
    ASSUME ReadmeTypeOK, NEW k \in InFile, NEW old \in ParseType(InFile), SyncedTo(k - 1, old)
    PROVE  SyncedTo(k, IF Reached(k) THEN RowRead(old, k, "added") ELSE old)
  <1> DEFINE row == file[k].row
             new == RowRead(old, k, "added")
  <1>1. /\ Len(file) \in Nat /\ k \in Nat /\ k >= 1 /\ row.company \in {"A", "B", "same"}
        /\ file[k].mark \in {"kept", "added", "removed", "edited"} /\ k - 1 \in 0 .. Len(file)
    BY EntryTyped DEF InFile
  <1>2. NamedBy(k) = IF ~Marks(k) THEN NamedBy(k - 1) ELSE IF Shape(k) = "header" THEN 0 ELSE k
    BY <1>1, NamedByStep
  <1>3. NamedFor(k - 1)
    BY <1>1, NamedByRow
  <1>4. Legible(k) <=> Reached(k) /\ JobRow(row)
    BY <1>1 DEF Legible, Reached, RowGone, Is, Now, Clear, Shape
  <1>5. Reached(k) => Is(k, Now)
    BY <1>1 DEF Reached, RowGone, Is, Now
  <1>6. old.jobs \in Seq(JobType(InFile)) /\ old.last \in Company
    BY ParseFields
  <1>7. new \in ParseType(InFile) /\ ReadAs(old, new, k, "added")
    BY RowReadAs
  <1>8. /\ NamedBy(k - 1) = 0 => old.last = Nobody
        /\ NamedBy(k - 1) # 0 /\ Legible(NamedBy(k - 1)) => old.last = file[NamedBy(k - 1)].row.company
    BY DEF SyncedTo
  <1>9. JobRow(row) => Shape(k) # "header" /\ Shape(k) # "open"
    BY DEF JobRow, Shape
  <1>10. \A company \in Company : Job(k, company, "added") \in JobType(InFile)
    BY DEF Job, JobType
  <1>11. Named(k) <=> row.company # "same" /\ Shape(k) # "header"
    BY DEF Named, Shape
  <1> HIDE DEF new
  <1>12. CASE ~Legible(k) /\ new.jobs = old.jobs /\ new.last = old.last /\ Shape(k) # "header"
    <2>1. NamedBy(k) = NamedBy(k - 1) \/ (NamedBy(k) = k /\ k # 0)
      BY <1>1, <1>2, <1>12
    <2>2. SyncedTo(k, new)
      BY <1>1, <1>8, <1>12, <2>1, SyncedNoJob
    <2>3. SyncedTo(k, old)
      BY <1>1, <1>8, <1>12, <2>1, SyncedNoJob
    <2> QED BY <2>2, <2>3 DEF new
  <1>13. CASE ~Reached(k)
    <2>1. ~Legible(k)
      BY <1>4, <1>13
    <2>2. NamedBy(k) = NamedBy(k - 1) \/ (NamedBy(k) = k /\ k # 0)
      <3>1. Shape(k) = "header" => ~Is(k, Now)
        <4>1. Shape(k) = "header" => RowGone(k)
          BY <1>13 DEF Reached
        <4> QED BY <1>1, <4>1 DEF RowGone, Is, Now
      <3> QED BY <1>1, <1>2, <3>1 DEF Marks
    <2>3. SyncedTo(k, old)
      BY <1>1, <1>8, <2>1, <2>2, SyncedNoJob
    <2> QED BY <1>13, <2>3
  <1>14. CASE Reached(k) /\ Shape(k) = "header"
    <2>1. new = [last |-> Nobody, jobs |-> old.jobs]
      BY <1>7, <1>14 DEF ReadAs, Shape
    <2>2. new.jobs = old.jobs /\ new.last = Nobody
      BY <2>1
    <2>3. NamedBy(k) = 0
      BY <1>2, <1>5, <1>14 DEF Marks
    <2>4. SyncedTo(k, new)
      BY <1>1, <2>2, <2>3, SyncedNoJob
    <2> QED BY <1>14, <2>4 DEF new
  <1>15. CASE Reached(k) /\ Shape(k) # "header" /\ ~JobRow(row)
    <2>1. new = old
      BY <1>7, <1>15 DEF ReadAs, Shape
    <2> QED BY <1>4, <1>12, <1>15, <2>1
  <1>16. CASE Reached(k) /\ JobRow(row) /\ row.company # "same"
    <2>1. new = [last |-> row.company, jobs |-> Append(old.jobs, Job(k, row.company, "added"))]
      BY <1>7, <1>16 DEF ReadAs
    <2>2. new.jobs = Append(old.jobs, Job(k, row.company, "added")) /\ new.last = row.company
      BY <2>1
    <2>3. NamedBy(k) = k /\ k # 0
      BY <1>1, <1>2, <1>5, <1>9, <1>11, <1>16 DEF Marks
    <2>4. row.company \in Company
      BY <1>1 DEF Company
    <2>5. SyncedTo(k, new)
      BY <1>1, <1>6, <1>10, <2>2, <2>3, <2>4, SyncedOneJob
    <2> QED BY <1>16, <2>5 DEF new
  <1>17. CASE Reached(k) /\ JobRow(row) /\ row.company = "same"
    <2>1. NamedBy(k) = NamedBy(k - 1)
      BY <1>2, <1>9, <1>11, <1>17 DEF Marks
    <2>2. CASE old.last # Nobody
      <3>1. new = [last |-> old.last, jobs |-> Append(old.jobs, Job(k, old.last, "added"))]
        BY <1>7, <1>17, <2>2 DEF ReadAs
      <3>2. new.jobs = Append(old.jobs, Job(k, old.last, "added")) /\ new.last = old.last
        BY <3>1
      <3>3. NamedBy(k) # 0
        BY <1>8, <2>1, <2>2
      <3>4. SyncedTo(k, new)
        BY <1>1, <1>6, <1>8, <1>10, <2>1, <3>2, <3>3, SyncedOneJob
      <3> QED BY <1>17, <3>4 DEF new
    <2>3. CASE old.last = Nobody
      <3>1. new = old
        BY <1>7, <1>17, <2>3 DEF ReadAs
      <3>2. ~(NamedBy(k) # 0 /\ Legible(NamedBy(k)))
        <4>1. SUFFICES ASSUME NamedBy(k) # 0, Legible(NamedBy(k)) PROVE FALSE
          OBVIOUS
        <4> DEFINE p == NamedBy(k)
        <4>2. p \in 0 .. (k - 1) /\ p # 0 /\ Named(p)
          BY <1>3, <2>1, <4>1 DEF NamedFor
        <4>3. old.last = file[p].row.company
          BY <1>8, <2>1, <4>1
        <4> HIDE DEF p
        <4>4. p \in InFile
          BY <1>1, <4>2 DEF InFile
        <4>5. file[p].row.company \in {"A", "B", "same"} /\ file[p].row.company # "same"
          BY <4>2, <4>4, EntryTyped DEF Named
        <4> QED BY <2>3, <4>3, <4>5 DEF Nobody
      <3>3. SyncedTo(k, old)
        BY <1>1, <1>8, <2>1, <3>2, SyncedNoJob
      <3> QED BY <1>17, <3>1, <3>3 DEF new
    <2> QED BY <2>2, <2>3
  <1> QED BY <1>13, <1>14, <1>15, <1>16, <1>17

\* of jobs that are all added, all are candidates
LEMMA AllAdded == ASSUME NEW S, NEW jobs \in Seq(AddedJob(S)) PROVE Candidates(jobs) = jobs
  <1> DEFINE X == AddedJob(S)
             G == {s \in Seq(X) : FoldLeft(Admit, <<>>, s) = s}
  <1>1. <<>> \in Seq(X)
    OBVIOUS
  <1>2. /\ FoldLeft(Admit, <<>>, <<>>) = <<>>
        /\ \A s, r \in Seq(JobType(S)) :
             FoldLeft(Admit, <<>>, s \o r) = FoldLeft(Admit, FoldLeft(Admit, <<>>, s), r)
    BY <1>1, PickFolds
  <1>3. <<>> \in G
    BY <1>1, <1>2
  <1>4. ASSUME NEW s \in Seq(X), NEW x \in X, s \in G PROVE s \o <<x>> \in G
    <2>1. x \in JobType(S) /\ x.kind = "added"
      BY DEF AddedJob
    <2>2. X \subseteq JobType(S)
      BY DEF AddedJob
    <2>3. s \in Seq(JobType(S)) /\ <<x>> \in Seq(JobType(S)) /\ <<x>> \in Seq(X)
      BY <2>1, <2>2, SeqMonotonic
    <2>4. FoldLeft(Admit, <<>>, s \o <<x>>) = FoldLeft(Admit, FoldLeft(Admit, <<>>, s), <<x>>)
      BY <1>2, <2>3
    <2>5. FoldLeft(Admit, <<>>, s) = s
      BY <1>4
    <2>6. FoldLeft(Admit, s, <<x>>) = Admit(s, x)
      BY <2>1, PickFolds
    <2>7. Admit(s, x) = s \o <<x>> /\ s \o <<x>> \in Seq(X)
      <3>1. Admit(s, x) = Append(s, x)
        BY <2>1 DEF Admit
      <3> HIDE DEF X
      <3>2. Append(s, x) = s \o <<x>>
        OBVIOUS
      <3> QED BY <2>3, <3>1, <3>2, ConcatProperties
    <2> QED BY <2>4, <2>5, <2>6, <2>7
  <1> HIDE DEF G, X
  <1>5. Seq(X) \subseteq G
    BY <1>3, <1>4, SeqInduction
  <1>6. jobs \in Seq(X)
    BY DEF X
  <1> QED BY <1>5, <1>6 DEF G, Candidates

LEMMA RowsAreSynced == ASSUME ReadmeTypeOK PROVE SyncReadsRows
  <1> DEFINE N == Len(file)
  <1>1. N \in Nat
    BY DEF ReadmeTypeOK
  <1>2. HasSync
    BY SyncGoes
  <1> HIDE DEF N
  <1>3. PICK found \in [0 .. N -> ParseType(InFile)] : SyncBy(found)
    BY <1>2 DEF HasSync, N
  <1>4. /\ found[0] = [last |-> Nobody, jobs |-> <<>>]
        /\ \A k \in 1 .. N :
             found[k] = IF Reached(k) THEN RowRead(found[k - 1], k, "added") ELSE found[k - 1]
        /\ FullSync = Candidates(found[N].jobs)
    BY <1>3 DEF SyncBy, N
  <1> DEFINE S == {k \in 0 .. N : SyncedTo(k, found[k])}
  <1>5. 0 \in S
    <2>1. NamedBy(0) = 0 /\ 0 \in 0 .. N
      BY <1>1, NamedByNone
    <2>2. found[0].jobs = <<>> /\ found[0].last = Nobody
      BY <1>4
    <2>3. Len(found[0].jobs) = 0
      BY <2>2
    <2> QED BY <2>1, <2>2, <2>3 DEF SyncedTo
  <1>6. ASSUME NEW k \in 0 .. N, k \in S, k < N PROVE k + 1 \in S
    <2>1. k + 1 \in 1 .. N /\ (k + 1) - 1 = k /\ k + 1 \in 0 .. N /\ k + 1 \in InFile
      BY <1>1, <1>6 DEF InFile, N
    <2> DEFINE m == k + 1
               old == found[k]
    <2>2. old \in ParseType(InFile) /\ SyncedTo(m - 1, old) /\ m \in InFile
      BY <1>6, <2>1
    <2>3. found[m] = IF Reached(m) THEN RowRead(old, m, "added") ELSE old
      BY <1>4, <2>1
    <2> HIDE DEF m, old
    <2>4. SyncedTo(m, IF Reached(m) THEN RowRead(old, m, "added") ELSE old)
      BY <2>2, SyncedStep
    <2>5. SyncedTo(m, found[m])
      BY <2>3, <2>4
    <2> QED BY <2>1, <2>5 DEF m
  <1>7. SyncedTo(N, found[N]) /\ found[N] \in ParseType(InFile)
    <2> HIDE DEF S
    <2>1. 0 .. N \subseteq S
      BY <1>1, <1>5, <1>6, SetInduction
    <2>2. N \in S /\ N \in 0 .. N
      BY <1>1, <2>1
    <2> QED BY <1>3, <2>2 DEF S
  <1> DEFINE jobs == found[N].jobs
  <1>8. jobs \in Seq(JobType(InFile))
    BY <1>7, ParseFields
  <1>9. FullSync = Candidates(jobs)
    BY <1>4
  <1>10. /\ \A j \in 1 .. Len(jobs) :
              /\ jobs[j].kind = "added" /\ jobs[j].at \in 1 .. N /\ NamedBy(jobs[j].at) # 0
         /\ \A j, m \in 1 .. Len(jobs) : jobs[j].at = jobs[m].at => j = m
         /\ \A i \in 1 .. N :
              Legible(i) /\ NamedBy(i) # 0 /\ Legible(NamedBy(i)) =>
                \E j \in 1 .. Len(jobs) :
                  jobs[j].at = i /\ jobs[j].company = file[NamedBy(i)].row.company
    BY <1>7 DEF SyncedTo
  <1> HIDE DEF jobs
  <1>11. jobs \in Seq(AddedJob(InFile))
    <2>1. \A j \in 1 .. Len(jobs) : jobs[j] \in AddedJob(InFile)
      <3> TAKE j \in 1 .. Len(jobs)
      <3>1. jobs[j] \in JobType(InFile)
        BY <1>8, ElementOfSeq
      <3> QED BY <1>10, <3>1 DEF AddedJob
    <2>2. Len(jobs) \in Nat /\ jobs = [j \in 1 .. Len(jobs) |-> jobs[j]]
      BY <1>8
    <2> QED BY <2>1, <2>2
  <1>12. FullSync = jobs /\ DOMAIN jobs = 1 .. Len(jobs)
    BY <1>9, <1>11, AllAdded
  <1>13. ASSUME NEW i \in 1 .. Len(file)
         PROVE  /\ Legible(i) /\ NamedBy(i) # 0 /\ Legible(NamedBy(i)) =>
                     Reads(FullSync, i, file[NamedBy(i)].row.company)
                /\ NamedBy(i) = 0 => \A j \in DOMAIN FullSync : FullSync[j].at # i
    BY <1>10, <1>12 DEF Reads, N
  <1>14. \A j, k \in DOMAIN FullSync : FullSync[j].at = FullSync[k].at => j = k
    BY <1>10, <1>12
  <1> QED BY <1>13, <1>14 DEF SyncReadsRows

-----------------------------------------------------------------------------
(* Lines of a commit: of what was removed, and of whole rows added           *)

Ready(acc) == ~Waits(acc, "added")

Goes(s) == s \in Seq(LineType(InFile))
After(acc, s) == FoldLeft(Coalesce, acc, s)

Keeps(s) == Goes(s) /\ \A acc \in JoinType(InFile) : Ready(acc) => Ready(After(acc, s))

Has(jobs, i, company) ==
    \E j \in 1 .. Len(jobs) : jobs[j].at = i /\ jobs[j].company = company /\ jobs[j].kind = "added"

Yields(s, i, company) ==
    /\ Goes(s)
    /\ \A acc \in JoinType(InFile) :
         Ready(acc) => Ready(After(acc, s)) /\ Has(Parsed(After(acc, s).out).jobs, i, company)

Carries(s, company) ==
    /\ Goes(s)
    /\ \A acc \in JoinType(InFile) :
         Ready(acc) => After(acc, s).buffer = <<>> /\ Parsed(After(acc, s).out).last = company

LEMMA AfterBoth ==
    ASSUME NEW acc \in JoinType(InFile), NEW s, Goes(s), NEW r, Goes(r)
    PROVE  Goes(s \o r) /\ After(acc, s) \in JoinType(InFile) /\ After(acc, s \o r) = After(After(acc, s), r)
  <1>1. JoinsOn(InFile, acc)
    BY JoinGoesOn
  <1>2. s \in Seq(LineType(InFile)) /\ r \in Seq(LineType(InFile))
    BY DEF Goes
  <1>3. s \o r \in Seq(LineType(InFile))
    BY <1>2, ConcatProperties
  <1> QED BY <1>1, <1>2, <1>3 DEF JoinsOn, Goes, After

LEMMA KeepsNone == Keeps(<<>>)
  <1>1. <<>> \in Seq(LineType(InFile))
    OBVIOUS
  <1>2. \A acc \in JoinType(InFile) : After(acc, <<>>) = acc
    BY JoinGoesOn DEF JoinsOn, After
  <1> QED BY <1>1, <1>2 DEF Keeps, Goes

LEMMA KeepsBoth == ASSUME NEW s, NEW r, Keeps(s), Keeps(r) PROVE Keeps(s \o r)
  <1>1. ASSUME NEW acc \in JoinType(InFile), Ready(acc) PROVE Ready(After(acc, s \o r))
    <2>1. After(acc, s) \in JoinType(InFile) /\ After(acc, s \o r) = After(After(acc, s), r)
      BY AfterBoth DEF Keeps
    <2> QED BY <1>1, <2>1 DEF Keeps
  <1>2. Goes(s \o r)
    BY JoinStart, AfterBoth DEF Keeps
  <1> QED BY <1>1, <1>2 DEF Keeps

LEMMA KeepsRow == ASSUME ReadmeTypeOK, NEW i \in InFile, Shape(i) # "open" PROVE Keeps(Lines(i, "added"))
  <1>1. Goes(Lines(i, "added"))
    BY LinesTyped DEF LineKinds, Goes
  <1>2. ASSUME NEW acc \in JoinType(InFile), Ready(acc) PROVE Ready(After(acc, Lines(i, "added")))
    <2>1. After(acc, Lines(i, "added")) =
            [out |-> Append(Whole(acc), Text(Lines(i, "added"))), buffer |-> <<>>, depth |-> 0]
      BY <1>2, RowJoins DEF Ready, After
    <2>2. After(acc, Lines(i, "added")).buffer = <<>>
      BY <2>1
    <2> QED BY <2>2 DEF Ready, Waits
  <1> QED BY <1>1, <1>2 DEF Keeps

LEMMA RemovedStaysReady ==
    ASSUME NEW acc \in JoinType(InFile), Ready(acc), NEW line \in LineType(InFile), line.kind = "removed"
    PROVE  Ready(Coalesce(acc, line))
  <1> DEFINE new == Coalesce(acc, line)
  <1>1. CASE ~Waits(acc, "removed") /\ ~Begins(line)
    <2>1. new = [out |-> Append(Whole(acc), Text(<<line>>)), buffer |-> <<>>, depth |-> 0]
      BY <1>1, JoinCases
    <2>2. new.buffer = <<>>
      BY <2>1
    <2> QED BY <2>2 DEF Ready, Waits
  <1>2. CASE ~Waits(acc, "removed") /\ Begins(line)
    <2>1. new = [out |-> Whole(acc), buffer |-> <<line>>, depth |-> line.piece.change]
      BY <1>2, JoinCases
    <2>2. new.buffer = <<line>> /\ <<line>>[1] = line
      BY <2>1
    <2>3. new.buffer[1].kind = "removed"
      BY <2>2
    <2> QED BY <2>3 DEF Ready, Waits
  <1>3. CASE Waits(acc, "removed") /\ ~Closes(acc.depth + line.piece.change, line)
    <2>1. new = [out |-> acc.out, buffer |-> Append(acc.buffer, line), depth |-> acc.depth + line.piece.change]
      BY <1>3, JoinCases
    <2>2. acc.buffer # <<>> /\ acc.buffer[1].kind = "removed" /\ acc.buffer \in Seq(LineType(InFile))
      BY <1>3, JoinFields DEF Waits
    <2>3. Append(acc.buffer, line)[1] = acc.buffer[1]
      <3> DEFINE b == acc.buffer
      <3>1. b # <<>> /\ b \in Seq(LineType(InFile))
        BY <2>2
      <3> HIDE DEF b
      <3>2. 1 \in 1 .. Len(b)
        BY <3>1
      <3>3. Append(b, line)[1] = b[1]
        BY <3>1, <3>2
      <3> QED BY <3>3 DEF b
    <2>4. new.buffer[1].kind = "removed"
      BY <2>1, <2>2, <2>3
    <2> QED BY <2>4 DEF Ready, Waits
  <1>4. CASE Waits(acc, "removed") /\ Closes(acc.depth + line.piece.change, line)
    <2>1. new = [out |-> Append(acc.out, Text(Append(acc.buffer, line))), buffer |-> <<>>, depth |-> 0]
      BY <1>4, JoinCases
    <2>2. new.buffer = <<>>
      BY <2>1
    <2> QED BY <2>2 DEF Ready, Waits
  <1> QED BY <1>1, <1>2, <1>3, <1>4

LEMMA KeepsRemoved == ASSUME ReadmeTypeOK, NEW i \in InFile PROVE Keeps(Lines(i, "removed"))
  <1> DEFINE s == Lines(i, "removed")
             N == Len(s)
  <1>1. s \in Seq(LineType(InFile))
    BY LinesTyped DEF LineKinds
  <1>2. AreLines(InFile, s, PiecesOf(i, Shape(i)), "removed")
    BY LineAt
  <1> HIDE DEF s
  <1>3. N \in Nat
    BY <1>1
  <1>4. \A k \in 1 .. N : s[k] \in LineType(InFile) /\ s[k].kind = "removed"
    BY <1>2 DEF AreLines
  <1>5. ASSUME NEW acc \in JoinType(InFile), Ready(acc) PROVE Ready(After(acc, s))
    <2>1. PICK t \in [0 .. N -> JoinType(InFile)] :
            /\ t[0] = acc /\ t[N] = FoldLeft(Coalesce, acc, s)
            /\ \A k \in 1 .. N : t[k] = Coalesce(t[k - 1], s[k])
      <3>1. HasJoinTrace(InFile, acc, s)
        BY <1>1, JoinTrace
      <3> QED BY <3>1 DEF HasJoinTrace
    <2> HIDE DEF N
    <2> DEFINE S == {k \in 0 .. N : Ready(t[k])}
    <2>2. 0 \in S
      BY <1>3, <1>5, <2>1
    <2>3. ASSUME NEW k \in 0 .. N, k \in S, k < N PROVE k + 1 \in S
      <3>1. k + 1 \in 1 .. N /\ k + 1 \in 0 .. N /\ (k + 1) - 1 = k
        BY <1>3, <2>3
      <3>2. t[k + 1] = Coalesce(t[k], s[k + 1]) /\ t[k] \in JoinType(InFile) /\ Ready(t[k])
        BY <2>1, <2>3, <3>1
      <3>3. Ready(t[k + 1])
        BY <1>4, <3>1, <3>2, RemovedStaysReady
      <3> QED BY <3>1, <3>3
    <2>4. N \in S
      <3> HIDE DEF S
      <3>1. 0 .. N \subseteq S
        BY <1>3, <2>2, <2>3, SetInduction
      <3> QED BY <1>3, <3>1
    <2> QED BY <2>1, <2>4 DEF After
  <1> QED BY <1>1, <1>5 DEF Keeps, Goes, s

-----------------------------------------------------------------------------
(* What was read is not lost by what is read after it                        *)

LEMMA HasMore ==
    ASSUME NEW X, NEW jobs \in Seq(X), NEW job \in X, NEW i, NEW company
    PROVE  /\ Has(jobs, i, company) => Has(Append(jobs, job), i, company)
           /\ job.at = i /\ job.company = company /\ job.kind = "added" => Has(Append(jobs, job), i, company)
  <1> DEFINE n == Len(jobs)
             new == Append(jobs, job)
  <1>1. n \in Nat /\ Len(new) = n + 1 /\ new[n + 1] = job /\ \A j \in 1 .. n : new[j] = jobs[j]
    OBVIOUS
  <1> HIDE DEF n, new
  <1>2. n + 1 \in 1 .. n + 1 /\ \A j \in 1 .. n : j \in 1 .. n + 1
    BY <1>1
  <1>3. Has(jobs, i, company) => Has(new, i, company)
    BY <1>1, <1>2 DEF Has, n
  <1>4. job.at = i /\ job.company = company /\ job.kind = "added" => Has(new, i, company)
    BY <1>1, <1>2 DEF Has
  <1> QED BY <1>3, <1>4 DEF new

LEMMA HasStaysParsed ==
    ASSUME ReadmeTypeOK, NEW acc \in ParseType(InFile), NEW i, NEW company, Has(acc.jobs, i, company),
           NEW text \in TextType(InFile)
    PROVE  Has(Parse(acc, text).jobs, i, company)
  <1> DEFINE at == text.pieces[1].at
             row == file[at].row
             AJob(c) == [at |-> at, company |-> c, kind |-> text.kind]
  <1>1. acc.jobs \in Seq(JobType(InFile)) /\ acc = [last |-> acc.last, jobs |-> acc.jobs]
    BY ParseFields
  <1>2. \A c : Has(Append(acc.jobs, AJob(c)), i, company)
    <2> TAKE c
    <2> DEFINE X == JobType(InFile) \cup {AJob(c)}
               job == AJob(c)
    <2>1. acc.jobs \in Seq(X) /\ job \in X
      <3>1. JobType(InFile) \subseteq X
        OBVIOUS
      <3>2. job \in X
        OBVIOUS
      <3> HIDE DEF X
      <3> QED BY <1>1, <3>1, <3>2, SeqMonotonic
    <2> HIDE DEF X, job
    <2>2. Has(Append(acc.jobs, job), i, company)
      BY <2>1, HasMore
    <2> QED BY <2>2 DEF job
  <1>3. /\ [acc EXCEPT !.last = Nobody] = [last |-> Nobody, jobs |-> acc.jobs]
        /\ \A more : [acc EXCEPT !.jobs = more] = [last |-> acc.last, jobs |-> more]
    BY <1>1, ParseFieldsChange
  <1>4. Parse(acc, text) \in
          {acc, [last |-> Nobody, jobs |-> acc.jobs],
           [last |-> row.company, jobs |-> Append(acc.jobs, AJob(row.company))],
           [last |-> acc.last, jobs |-> Append(acc.jobs, AJob(acc.last))]}
    BY <1>3 DEF Parse
  <1> DEFINE r1 == [last |-> Nobody, jobs |-> acc.jobs]
             r2 == [last |-> row.company, jobs |-> Append(acc.jobs, AJob(row.company))]
             r3 == [last |-> acc.last, jobs |-> Append(acc.jobs, AJob(acc.last))]
  <1>5. /\ r1.jobs = acc.jobs /\ r2.jobs = Append(acc.jobs, AJob(row.company))
        /\ r3.jobs = Append(acc.jobs, AJob(acc.last))
    OBVIOUS
  <1>6. Parse(acc, text) \in {acc, r1, r2, r3}
    BY <1>4
  <1> HIDE DEF AJob, r1, r2, r3
  <1>7. Has(r1.jobs, i, company) /\ Has(r2.jobs, i, company) /\ Has(r3.jobs, i, company)
    BY <1>2, <1>5
  <1> QED BY <1>6, <1>7

LEMMA HasStaysRead ==
    ASSUME ReadmeTypeOK, NEW texts \in Seq(TextType(InFile)), NEW i, NEW company,
           Has(Parsed(texts).jobs, i, company), NEW more \in Seq(TextType(InFile))
    PROVE  Has(Parsed(texts \o more).jobs, i, company)
  <1> DEFINE X == TextType(InFile)
             G == {s \in Seq(X) : Has(Parsed(texts \o s).jobs, i, company)}
  <1>1. <<>> \in G
    <2>1. texts \o <<>> = texts /\ <<>> \in Seq(X)
      <3>1. <<>> \in Seq(X)
        OBVIOUS
      <3> QED BY <3>1, ConcatEmptySeq
    <2> QED BY <2>1
  <1>2. ASSUME NEW s \in Seq(X), NEW x \in X, s \in G PROVE s \o <<x>> \in G
    <2> HIDE DEF X
    <2>1. texts \in Seq(X) /\ <<x>> \in Seq(X) /\ Has(Parsed(texts \o s).jobs, i, company)
      BY <1>2 DEF X
    <2>2. texts \o s \in Seq(X) /\ s \o <<x>> \in Seq(X)
      BY <2>1, ConcatProperties
    <2>3. texts \o (s \o <<x>>) = (texts \o s) \o <<x>>
      BY <2>1, ConcatAssociative
    <2> DEFINE u == texts \o s
    <2>4. u \in Seq(X) /\ Has(Parsed(u).jobs, i, company)
      BY <2>1, <2>2
    <2> HIDE DEF u
    <2>5. u \o <<x>> = Append(u, x)
      BY <2>4
    <2>6. Parsed(u) \in ParseType(InFile) /\ Parsed(Append(u, x)) = Parse(Parsed(u), x)
      BY <2>4, ParsedBoth DEF X
    <2>7. Has(Parse(Parsed(u), x).jobs, i, company)
      BY <2>4, <2>6, HasStaysParsed DEF X
    <2>8. Has(Parsed(texts \o (s \o <<x>>)).jobs, i, company)
      BY <2>3, <2>5, <2>6, <2>7 DEF u
    <2> QED BY <2>2, <2>8
  <1> HIDE DEF G, X
  <1>3. Seq(X) \subseteq G
    BY <1>1, <1>2, SeqInduction
  <1>4. more \in Seq(X)
    BY DEF X
  <1> QED BY <1>3, <1>4 DEF G

OutGrows(acc, new) == \E z \in Seq(TextType(InFile)) : new.out = acc.out \o z

LEMMA OutGrowsByLine ==
    ASSUME NEW acc \in JoinType(InFile), NEW line \in LineType(InFile)
    PROVE  OutGrows(acc, Coalesce(acc, line))
  <1> DEFINE T == TextType(InFile)
             v == Verbatim(acc.buffer)
             more == Text(Append(acc.buffer, line))
             one == Text(<<line>>)
             o == acc.out
             new == Coalesce(acc, line)
  <1>1. acc.buffer \in Seq(LineType(InFile)) /\ o \in Seq(T)
    BY JoinFields
  <1>2. v \in Seq(T) /\ more \in T /\ one \in T
    <2>1. v \in Seq(T)
      BY <1>1, VerbatimTyped
    <2> DEFINE b == Append(acc.buffer, line)
               a == <<line>>
    <2>2. b \in Seq(LineType(InFile)) /\ Len(b) >= 1 /\ a \in Seq(LineType(InFile)) /\ Len(a) >= 1
      BY <1>1
    <2> HIDE DEF b, a
    <2>3. Text(b) \in T /\ Text(a) \in T
      BY <2>2, TextTyped
    <2> QED BY <2>1, <2>3 DEF a, b
  <1>3. Whole(acc) = o \o v
    BY DEF Whole
  <1>4. new.out \in {Append(o \o v, one), o \o v, o, Append(o, more)}
    <2>1. CASE ~Waits(acc, line.kind) /\ ~Begins(line)
      <3>1. new = [out |-> Append(Whole(acc), Text(<<line>>)), buffer |-> <<>>, depth |-> 0]
        BY <2>1, JoinCases
      <3>2. new.out = Append(Whole(acc), Text(<<line>>))
        BY <3>1
      <3> QED BY <1>3, <3>2
    <2>2. CASE ~Waits(acc, line.kind) /\ Begins(line)
      <3>1. new = [out |-> Whole(acc), buffer |-> <<line>>, depth |-> line.piece.change]
        BY <2>2, JoinCases
      <3>2. new.out = Whole(acc)
        BY <3>1
      <3> QED BY <1>3, <3>2
    <2>3. CASE Waits(acc, line.kind) /\ ~Closes(acc.depth + line.piece.change, line)
      <3>1. new = [out |-> acc.out, buffer |-> Append(acc.buffer, line), depth |-> acc.depth + line.piece.change]
        BY <2>3, JoinCases
      <3>2. new.out = acc.out
        BY <3>1
      <3> QED BY <3>2
    <2>4. CASE Waits(acc, line.kind) /\ Closes(acc.depth + line.piece.change, line)
      <3>1. new = [out |-> Append(acc.out, Text(Append(acc.buffer, line))), buffer |-> <<>>, depth |-> 0]
        BY <2>4, JoinCases
      <3>2. new.out = Append(acc.out, Text(Append(acc.buffer, line)))
        BY <3>1
      <3> QED BY <3>2
    <2> QED BY <2>1, <2>2, <2>3, <2>4
  <1> HIDE DEF T, v, more, one, o, new
  <1>5. /\ Append(v, one) \in Seq(T) /\ <<>> \in Seq(T) /\ <<more>> \in Seq(T)
    BY <1>2
  <1>6. Append(o \o v, one) = o \o Append(v, one)
    <2>1. <<one>> \in Seq(T) /\ o \o v \in Seq(T)
      BY <1>1, <1>2, ConcatProperties
    <2>2. (o \o v) \o <<one>> = o \o (v \o <<one>>)
      BY <1>1, <1>2, <2>1, ConcatAssociative
    <2>3. (o \o v) \o <<one>> = Append(o \o v, one) /\ v \o <<one>> = Append(v, one)
      BY <1>2, <2>1
    <2> QED BY <2>2, <2>3
  <1>7. o = o \o <<>>
    BY <1>1, ConcatEmptySeq
  <1>8. Append(o, more) = o \o <<more>>
    BY <1>1, <1>2
  <1>9. \E z \in Seq(T) : new.out = o \o z
    BY <1>2, <1>4, <1>5, <1>6, <1>7, <1>8
  <1> QED BY <1>9 DEF OutGrows, T, o, new

LEMMA HasStaysJoined ==
    ASSUME ReadmeTypeOK, NEW acc \in JoinType(InFile), NEW i, NEW company,
           Has(Parsed(acc.out).jobs, i, company), NEW s, Goes(s)
    PROVE  Has(Parsed(After(acc, s).out).jobs, i, company)
  <1> DEFINE N == Len(s)
  <1>1. s \in Seq(LineType(InFile)) /\ N \in Nat
    BY DEF Goes
  <1>2. \A k \in 1 .. N : s[k] \in LineType(InFile)
    BY <1>1, ElementOfSeq
  <1>3. PICK t \in [0 .. N -> JoinType(InFile)] :
          /\ t[0] = acc /\ t[N] = FoldLeft(Coalesce, acc, s)
          /\ \A k \in 1 .. N : t[k] = Coalesce(t[k - 1], s[k])
    <2>1. HasJoinTrace(InFile, acc, s)
      BY <1>1, JoinTrace
    <2> QED BY <2>1 DEF HasJoinTrace
  <1> HIDE DEF N
  <1> DEFINE S == {k \in 0 .. N : Has(Parsed(t[k].out).jobs, i, company)}
  <1>4. 0 \in S
    BY <1>1, <1>3
  <1>5. ASSUME NEW k \in 0 .. N, k \in S, k < N PROVE k + 1 \in S
    <2>1. k + 1 \in 1 .. N /\ k + 1 \in 0 .. N /\ (k + 1) - 1 = k
      BY <1>1, <1>5
    <2> DEFINE a == t[k]
               b == t[k + 1]
    <2>2. a \in JoinType(InFile) /\ b = Coalesce(a, s[k + 1]) /\ Has(Parsed(a.out).jobs, i, company)
      BY <1>3, <1>5, <2>1
    <2> HIDE DEF a, b
    <2>3. OutGrows(a, b)
      BY <1>2, <2>1, <2>2, OutGrowsByLine
    <2>4. PICK z \in Seq(TextType(InFile)) : b.out = a.out \o z
      BY <2>3 DEF OutGrows
    <2>5. a.out \in Seq(TextType(InFile))
      BY <2>2, JoinFields
    <2>6. Has(Parsed(b.out).jobs, i, company)
      BY <2>2, <2>4, <2>5, HasStaysRead
    <2> QED BY <2>1, <2>6 DEF b
  <1>6. N \in S
    <2> HIDE DEF S
    <2>1. 0 .. N \subseteq S
      BY <1>1, <1>4, <1>5, SetInduction
    <2> QED BY <1>1, <2>1
  <1> QED BY <1>3, <1>6 DEF After

-----------------------------------------------------------------------------
(* Lines that carry a company to the row after them, and yield a row         *)

LEMMA YieldsAfter ==
    ASSUME NEW s, Keeps(s), NEW i, NEW company, NEW r, Yields(r, i, company)
    PROVE  Yields(s \o r, i, company)
  <1>1. Goes(s) /\ Goes(r)
    BY DEF Keeps, Yields
  <1>2. Goes(s \o r)
    BY <1>1, JoinStart, AfterBoth
  <1>3. ASSUME NEW acc \in JoinType(InFile), Ready(acc)
        PROVE  Ready(After(acc, s \o r)) /\ Has(Parsed(After(acc, s \o r).out).jobs, i, company)
    <2> DEFINE a == After(acc, s)
    <2>1. a \in JoinType(InFile) /\ After(acc, s \o r) = After(a, r)
      BY <1>1, AfterBoth
    <2>2. Ready(a)
      BY <1>3 DEF Keeps
    <2> HIDE DEF a
    <2> QED BY <2>1, <2>2 DEF Yields
  <1> QED BY <1>2, <1>3 DEF Yields

LEMMA YieldsBefore ==
    ASSUME ReadmeTypeOK, NEW s, NEW i, NEW company, Yields(s, i, company), NEW r, Keeps(r)
    PROVE  Yields(s \o r, i, company)
  <1>1. Goes(s) /\ Goes(r)
    BY DEF Keeps, Yields
  <1>2. Goes(s \o r)
    BY <1>1, JoinStart, AfterBoth
  <1>3. ASSUME NEW acc \in JoinType(InFile), Ready(acc)
        PROVE  Ready(After(acc, s \o r)) /\ Has(Parsed(After(acc, s \o r).out).jobs, i, company)
    <2> DEFINE a == After(acc, s)
    <2>1. a \in JoinType(InFile) /\ After(acc, s \o r) = After(a, r)
      BY <1>1, AfterBoth
    <2>2. Ready(a) /\ Has(Parsed(a.out).jobs, i, company)
      BY <1>3 DEF Yields
    <2> HIDE DEF a
    <2>3. Ready(After(a, r))
      BY <2>1, <2>2 DEF Keeps
    <2>4. Has(Parsed(After(a, r).out).jobs, i, company)
      BY <1>1, <2>1, <2>2, HasStaysJoined
    <2> QED BY <2>1, <2>3, <2>4
  <1> QED BY <1>2, <1>3 DEF Yields

LEMMA HadBefore ==
    ASSUME NEW X, NEW jobs \in Seq(X), NEW job \in X, NEW i, NEW company, Has(Append(jobs, job), i, company)
    PROVE  Has(jobs, i, company) \/ (job.at = i /\ job.company = company /\ job.kind = "added")
  <1> DEFINE n == Len(jobs)
             new == Append(jobs, job)
  <1>1. n \in Nat /\ Len(new) = n + 1 /\ new[n + 1] = job /\ \A j \in 1 .. n : new[j] = jobs[j]
    OBVIOUS
  <1> HIDE DEF n, new
  <1>2. PICK j \in 1 .. n + 1 : new[j].at = i /\ new[j].company = company /\ new[j].kind = "added"
    BY <1>1 DEF Has, new
  <1>3. j = n + 1 \/ j \in 1 .. n
    BY <1>1, <1>2
  <1> QED BY <1>1, <1>2, <1>3 DEF Has, n

\* an added job is a candidate
LEMMA HasIsCandidate ==
    ASSUME NEW S, NEW jobs \in Seq(JobType(S)), NEW i, NEW company, Has(jobs, i, company)
    PROVE  Has(Candidates(jobs), i, company)
  <1> DEFINE X == JobType(S)
             C(s) == FoldLeft(Admit, <<>>, s)
             G == {s \in Seq(X) : Has(s, i, company) => Has(C(s), i, company)}
  <1>1. <<>> \in Seq(X) /\ <<>> \in Seq(AddedJob(S))
    OBVIOUS
  <1>2. /\ \A s \in Seq(X) : C(s) \in Seq(AddedJob(S))
        /\ \A s, r \in Seq(X) : C(s \o r) = FoldLeft(Admit, C(s), r)
    BY <1>1, PickFolds
  <1>3. <<>> \in G
    <2>1. ~Has(<<>>, i, company)
      BY DEF Has
    <2> QED BY <1>1, <2>1
  <1> HIDE DEF C
  <1>4. ASSUME NEW s \in Seq(X), NEW x \in X, s \in G PROVE s \o <<x>> \in G
    <2>1. <<x>> \in Seq(X) /\ s \o <<x>> = Append(s, x) /\ Append(s, x) \in Seq(X)
      <3> HIDE DEF X
      <3> QED OBVIOUS
    <2>2. C(s) \in Seq(AddedJob(S)) /\ C(s \o <<x>>) = FoldLeft(Admit, C(s), <<x>>)
      BY <1>2, <2>1
    <2>3. FoldLeft(Admit, C(s), <<x>>) = Admit(C(s), x)
      BY <2>2, PickFolds
    <2>4. SUFFICES ASSUME Has(Append(s, x), i, company) PROVE Has(Admit(C(s), x), i, company)
      BY <2>1, <2>2, <2>3
    <2>5. Has(s, i, company) \/ (x.at = i /\ x.company = company /\ x.kind = "added")
      <3> HIDE DEF X
      <3> QED BY <2>4, HadBefore
    <2>6. Has(s, i, company) => Has(C(s), i, company)
      BY <1>4
    <2>7. C(s) \in Seq(X)
      <3>1. AddedJob(S) \subseteq X
        BY DEF AddedJob
      <3> HIDE DEF X
      <3> QED BY <2>2, <3>1, SeqMonotonic
    <2>8. CASE x.kind = "removed"
      <3>1. Admit(C(s), x) = C(s) /\ x.kind # "added"
        BY <2>8 DEF Admit
      <3> QED BY <2>5, <2>6, <3>1
    <2>9. CASE x.kind # "removed"
      <3>1. Admit(C(s), x) = Append(C(s), x)
        BY <2>9 DEF Admit
      <3> HIDE DEF X
      <3>2. Has(Append(C(s), x), i, company)
        BY <2>5, <2>6, <2>7, HasMore
      <3> QED BY <3>1, <3>2
    <2> QED BY <2>8, <2>9
  <1> HIDE DEF G, X
  <1>5. Seq(X) \subseteq G
    BY <1>3, <1>4, SeqInduction
  <1>6. jobs \in Seq(X)
    BY DEF X
  <1> QED BY <1>5, <1>6 DEF G, C, Candidates

\* what the lines yield is read of them
LEMMA YieldedIsRead ==
    ASSUME ReadmeTypeOK, NEW lines, NEW i, NEW company, Yields(lines, i, company)
    PROVE  Reads(Read(lines), i, company)
  <1> DEFINE start == [out |-> <<>>, buffer |-> <<>>, depth |-> 0]
             acc == Joined(lines)
  <1>1. start \in JoinType(InFile) /\ start.buffer = <<>>
    BY JoinStart
  <1>2. Ready(start)
    BY <1>1 DEF Ready, Waits
  <1>3. After(start, lines) = acc
    BY DEF After, Joined
  <1>4. lines \in Seq(LineType(InFile))
    BY DEF Yields, Goes
  <1>5. /\ acc \in JoinType(InFile) /\ Parsed(Whole(acc)) \in ParseType(InFile)
        /\ Read(lines) = Candidates(Parsed(Whole(acc)).jobs)
    BY <1>4, ReadIs
  <1> HIDE DEF start, acc
  <1>6. Has(Parsed(acc.out).jobs, i, company)
    BY <1>1, <1>2, <1>3 DEF Yields
  <1>7. acc.out \in Seq(TextType(InFile)) /\ Verbatim(acc.buffer) \in Seq(TextType(InFile))
    BY <1>5, JoinFields, VerbatimTyped
  <1>8. Has(Parsed(Whole(acc)).jobs, i, company)
    BY <1>6, <1>7, HasStaysRead DEF Whole
  <1>9. Parsed(Whole(acc)).jobs \in Seq(JobType(InFile))
    BY <1>5, ParseFields
  <1>10. Has(Read(lines), i, company)
    BY <1>5, <1>8, <1>9, HasIsCandidate
  <1>11. Read(lines) \in Seq(AddedJob(InFile))
    BY <1>4, ReadIs
  <1>12. DOMAIN Read(lines) = 1 .. Len(Read(lines))
    BY <1>11
  <1> QED BY <1>10, <1>12 DEF Has, Reads

\* a row after lines that are joined
LEMMA RowAfter ==
    ASSUME ReadmeTypeOK, NEW acc \in JoinType(InFile), Ready(acc), NEW p \in InFile, Shape(p) # "open"
    PROVE  LET new == After(acc, Lines(p, "added"))
           IN  /\ new.buffer = <<>> /\ Parsed(new.out) = RowRead(Found(acc), p, "added")
               /\ ReadAs(Found(acc), Parsed(new.out), p, "added")
               /\ Found(acc) \in ParseType(InFile)
  <1> DEFINE l == Lines(p, "added")
             new == After(acc, l)
  <1>1. new = [out |-> Append(Whole(acc), Text(l)), buffer |-> <<>>, depth |-> 0]
    BY RowJoins DEF Ready, After
  <1>2. new.buffer = <<>> /\ new.out = Append(Whole(acc), Text(l))
    BY <1>1
  <1>3. Whole(acc) \in Seq(TextType(InFile)) /\ Text(l) \in TextType(InFile)
    BY WholeTyped, TextOfRow
  <1> HIDE DEF l, new
  <1>4. Parsed(Whole(acc)) \in ParseType(InFile) /\ Parsed(new.out) = Parse(Parsed(Whole(acc)), Text(l))
    BY <1>2, <1>3, ParsedBoth
  <1>5. Parsed(new.out) = RowRead(Found(acc), p, "added") /\ Found(acc) \in ParseType(InFile)
    BY <1>4 DEF RowRead, Found, l
  <1>6. ReadAs(Found(acc), RowRead(Found(acc), p, "added"), p, "added")
    BY <1>5, RowReadAs
  <1> QED BY <1>2, <1>5, <1>6 DEF new, l

LEMMA HasJob ==
    ASSUME NEW jobs \in Seq(JobType(InFile)), NEW i \in InFile, NEW company \in Company
    PROVE  Has(Append(jobs, Job(i, company, "added")), i, company)
  <1>1. /\ Job(i, company, "added") \in JobType(InFile) /\ Job(i, company, "added").at = i
        /\ Job(i, company, "added").company = company /\ Job(i, company, "added").kind = "added"
    BY DEF Job, JobType
  <1> QED BY <1>1, HasMore

LEMMA OwnCompany ==
    ASSUME ReadmeTypeOK, NEW s, Keeps(s), NEW p \in InFile, JobRow(file[p].row), file[p].row.company # "same"
    PROVE  /\ Carries(s \o Lines(p, "added"), file[p].row.company)
           /\ Yields(s \o Lines(p, "added"), p, file[p].row.company)
  <1> DEFINE l == Lines(p, "added")
             company == file[p].row.company
  <1>1. Shape(p) # "open" /\ company \in Company
    BY EntryTyped DEF JobRow, Shape, Company
  <1>2. Goes(s) /\ Goes(l) /\ Goes(s \o l)
    <2>1. Goes(s) /\ Goes(l)
      BY <1>1, KeepsRow DEF Keeps
    <2> QED BY <2>1, JoinStart, AfterBoth
  <1>3. ASSUME NEW acc \in JoinType(InFile), Ready(acc)
        PROVE  /\ After(acc, s \o l).buffer = <<>> /\ Parsed(After(acc, s \o l).out).last = company
               /\ Has(Parsed(After(acc, s \o l).out).jobs, p, company)
    <2> DEFINE a == After(acc, s)
               b == After(a, l)
    <2>1. a \in JoinType(InFile) /\ After(acc, s \o l) = b
      BY <1>2, AfterBoth
    <2>2. Ready(a)
      BY <1>3 DEF Keeps
    <2> HIDE DEF a
    <2>3. /\ b.buffer = <<>> /\ ReadAs(Found(a), Parsed(b.out), p, "added")
          /\ Found(a) \in ParseType(InFile)
      BY <1>1, <2>1, <2>2, RowAfter
    <2> HIDE DEF b
    <2>4. Parsed(b.out) = [last |-> company, jobs |-> Append(Found(a).jobs, Job(p, company, "added"))]
      BY <2>3 DEF ReadAs
    <2>5. /\ Parsed(b.out).last = company
          /\ Parsed(b.out).jobs = Append(Found(a).jobs, Job(p, company, "added"))
      BY <2>4
    <2>6. Found(a).jobs \in Seq(JobType(InFile))
      BY <2>3, ParseFields
    <2>7. Has(Parsed(b.out).jobs, p, company)
      BY <1>1, <2>5, <2>6, HasJob
    <2> QED BY <2>1, <2>3, <2>5, <2>7
  <1> HIDE DEF l, company
  <1>4. ASSUME NEW acc \in JoinType(InFile), Ready(acc) PROVE Ready(After(acc, s \o l))
    BY <1>3, <1>4 DEF Ready, Waits
  <1>5. Carries(s \o l, company)
    BY <1>2, <1>3 DEF Carries
  <1>6. Yields(s \o l, p, company)
    BY <1>2, <1>3, <1>4 DEF Yields
  <1> QED BY <1>5, <1>6 DEF l, company

LEMMA CarriedCompany ==
    ASSUME ReadmeTypeOK, NEW s, NEW company \in Company \ {Nobody}, Carries(s, company), NEW q \in InFile,
           file[q].row.company = "same", Shape(q) \notin {"open", "header"}
    PROVE  /\ Carries(s \o Lines(q, "added"), company)
           /\ JobRow(file[q].row) => Yields(s \o Lines(q, "added"), q, company)
  <1> DEFINE l == Lines(q, "added")
  <1>1. Goes(s) /\ Goes(l) /\ Goes(s \o l)
    <2>1. Goes(s) /\ Goes(l)
      BY KeepsRow DEF Keeps, Carries
    <2> QED BY <2>1, JoinStart, AfterBoth
  <1>2. ASSUME NEW acc \in JoinType(InFile), Ready(acc)
        PROVE  /\ After(acc, s \o l).buffer = <<>> /\ Parsed(After(acc, s \o l).out).last = company
               /\ JobRow(file[q].row) => Has(Parsed(After(acc, s \o l).out).jobs, q, company)
    <2> DEFINE a == After(acc, s)
               b == After(a, l)
    <2>1. a \in JoinType(InFile) /\ After(acc, s \o l) = b
      BY <1>1, AfterBoth
    <2>2. a.buffer = <<>> /\ Parsed(a.out).last = company
      BY <1>2 DEF Carries
    <2> HIDE DEF a
    <2>3. Ready(a)
      BY <2>2 DEF Ready, Waits
    <2>4. /\ b.buffer = <<>> /\ ReadAs(Found(a), Parsed(b.out), q, "added")
          /\ Found(a) \in ParseType(InFile)
      BY <2>1, <2>3, RowAfter
    <2> HIDE DEF b
    <2>5. Found(a).last = company
      <3>1. a.out \in Seq(TextType(InFile))
        BY <2>1, JoinFields
      <3>2. a.out \o <<>> = a.out
        BY <3>1, ConcatEmptySeq
      <3>3. Whole(a) = a.out
        BY <2>2, <3>2, VerbatimNone DEF Whole
      <3> QED BY <2>2, <3>3 DEF Found
    <2>6. CASE JobRow(file[q].row)
      <3>1. Parsed(b.out) = [last |-> company, jobs |-> Append(Found(a).jobs, Job(q, company, "added"))]
        BY <2>4, <2>5, <2>6 DEF ReadAs
      <3>2. /\ Parsed(b.out).last = company
            /\ Parsed(b.out).jobs = Append(Found(a).jobs, Job(q, company, "added"))
        BY <3>1
      <3>3. Found(a).jobs \in Seq(JobType(InFile))
        BY <2>4, ParseFields
      <3>4. Has(Parsed(b.out).jobs, q, company)
        BY <3>2, <3>3, HasJob
      <3> QED BY <2>1, <2>4, <3>2, <3>4
    <2>7. CASE ~JobRow(file[q].row)
      <3>1. Parsed(b.out) = Found(a)
        BY <2>4, <2>7 DEF ReadAs, Shape
      <3> QED BY <2>1, <2>4, <2>5, <2>7, <3>1
    <2> QED BY <2>6, <2>7
  <1> HIDE DEF l
  <1>3. ASSUME NEW acc \in JoinType(InFile), Ready(acc) PROVE Ready(After(acc, s \o l))
    BY <1>2, <1>3 DEF Ready, Waits
  <1>4. Carries(s \o l, company)
    BY <1>1, <1>2 DEF Carries
  <1>5. JobRow(file[q].row) => Yields(s \o l, q, company)
    BY <1>1, <1>2, <1>3 DEF Yields
  <1> QED BY <1>4, <1>5 DEF l

-----------------------------------------------------------------------------
(* The lines git writes of the rows of a commit                              *)

LineIsGit(S) == LineType(S) \subseteq GitLine(S)

LEMMA LinesAreGit == ASSUME NEW S PROVE LineIsGit(S)
  BY DEF LineIsGit, LineType, GitLine

LEMMA FollowsRemoved ==
    ASSUME NEW S, NEW diff \in DiffType(S), NEW s \in Seq(LineType(S)),
           \A j \in 1 .. Len(s) : s[j].kind = "removed"
    PROVE  FoldLeft(Follow, diff, s) = [lines |-> diff.lines \o s, added |-> diff.added]
  <1> DEFINE X == {l \in LineType(S) : l.kind = "removed"}
             a == diff.lines
             Y == LineType(S)
             Z == GitLine(S)
             G == {r \in Seq(X) : FoldLeft(Follow, diff, r) = [lines |-> a \o r, added |-> diff.added]}
  <1>1. diff = [lines |-> a, added |-> diff.added] /\ a \in Seq(Y) /\ diff.added \in Seq(Y)
    BY DEF DiffType
  <1>2. X \subseteq Y /\ Y \subseteq Z /\ \A x \in X : x.kind = "removed"
    BY LinesAreGit DEF LineIsGit
  <1>3. /\ FoldLeft(Follow, diff, <<>>) = diff
        /\ \A r, t \in Seq(Z) : FoldLeft(Follow, diff, r \o t) = FoldLeft(Follow, FoldLeft(Follow, diff, r), t)
        /\ \A r \in Seq(Z) : FoldLeft(Follow, diff, r) \in DiffType(S)
    BY DiffFolds
  <1>4. \A x \in Z : \A other \in DiffType(S) : FoldLeft(Follow, other, <<x>>) = Follow(other, x)
    BY DiffFolds
  <1>5. s \in Seq(X)
    <2>1. \A j \in 1 .. Len(s) : s[j] \in Y
      BY ElementOfSeq
    <2>2. \A j \in 1 .. Len(s) : s[j] \in X
      BY <2>1
    <2>3. Len(s) \in Nat /\ s = [j \in 1 .. Len(s) |-> s[j]]
      OBVIOUS
    <2> HIDE DEF X
    <2> QED BY <2>2, <2>3
  <1> HIDE DEF X, Y, Z, a
  <1>6. <<>> \in G
    <2>1. a \o <<>> = a /\ <<>> \in Seq(X)
      BY <1>1, ConcatEmptySeq
    <2> QED BY <1>1, <1>3, <2>1
  <1>7. ASSUME NEW r \in Seq(X), NEW x \in X, r \in G PROVE r \o <<x>> \in G
    <2>1. /\ r \in Seq(Z) /\ r \in Seq(Y) /\ <<x>> \in Seq(Z) /\ <<x>> \in Seq(Y) /\ x \in Z /\ x.kind = "removed"
          /\ r \o <<x>> \in Seq(X)
      <3>1. <<x>> \in Seq(X) /\ <<x>> \in Seq(Z) /\ <<x>> \in Seq(Y) /\ x \in Z /\ x.kind = "removed"
        BY <1>2
      <3>2. r \in Seq(Z) /\ r \in Seq(Y)
        <4>1. X \subseteq Z
          BY <1>2
        <4> QED BY <1>2, <4>1, SeqMonotonic
      <3> QED BY <3>1, <3>2, ConcatProperties
    <2> DEFINE now == FoldLeft(Follow, diff, r)
    <2>2. now \in DiffType(S) /\ now = [lines |-> a \o r, added |-> diff.added]
      BY <1>3, <1>7, <2>1
    <2>3. FoldLeft(Follow, diff, r \o <<x>>) = FoldLeft(Follow, now, <<x>>)
      BY <1>3, <2>1
    <2> HIDE DEF now
    <2>4. FoldLeft(Follow, now, <<x>>) = Follow(now, x)
      BY <1>4, <2>1, <2>2
    <2>5. Follow(now, x) = [lines |-> Append(a \o r, x), added |-> diff.added]
      BY <2>1, <2>2 DEF Follow
    <2>6. Append(a \o r, x) = a \o (r \o <<x>>)
      <3>1. (a \o r) \o <<x>> = a \o (r \o <<x>>)
        <4>1. a \in Seq(Y) /\ r \in Seq(Y) /\ <<x>> \in Seq(Y)
          BY <1>1, <2>1
        <4> QED BY <4>1, ConcatAssociative
      <3> DEFINE b == a \o r
      <3>2. b \in Seq(Y)
        BY <1>1, <2>1, ConcatProperties
      <3> HIDE DEF b
      <3>3. b \o <<x>> = Append(b, x)
        BY <3>2
      <3> QED BY <3>1, <3>3 DEF b
    <2> QED BY <2>1, <2>3, <2>4, <2>5, <2>6
  <1> HIDE DEF G
  <1>8. Seq(X) \subseteq G
    BY <1>6, <1>7, SeqInduction
  <1> QED BY <1>5, <1>8 DEF G, a

LEMMA FollowsAdded ==
    ASSUME NEW S, NEW diff \in DiffType(S), NEW s \in Seq(LineType(S)),
           \A j \in 1 .. Len(s) : s[j].kind = "added"
    PROVE  FoldLeft(Follow, diff, s) = [lines |-> diff.lines, added |-> diff.added \o s]
  <1> DEFINE X == {l \in LineType(S) : l.kind = "added"}
             a == diff.added
             Y == LineType(S)
             Z == GitLine(S)
             G == {r \in Seq(X) : FoldLeft(Follow, diff, r) = [lines |-> diff.lines, added |-> a \o r]}
  <1>1. diff = [lines |-> diff.lines, added |-> a] /\ a \in Seq(Y) /\ diff.lines \in Seq(Y)
    BY DEF DiffType
  <1>2. X \subseteq Y /\ Y \subseteq Z /\ \A x \in X : x.kind = "added"
    BY LinesAreGit DEF LineIsGit
  <1>3. /\ FoldLeft(Follow, diff, <<>>) = diff
        /\ \A r, t \in Seq(Z) : FoldLeft(Follow, diff, r \o t) = FoldLeft(Follow, FoldLeft(Follow, diff, r), t)
        /\ \A r \in Seq(Z) : FoldLeft(Follow, diff, r) \in DiffType(S)
    BY DiffFolds
  <1>4. \A x \in Z : \A other \in DiffType(S) : FoldLeft(Follow, other, <<x>>) = Follow(other, x)
    BY DiffFolds
  <1>5. s \in Seq(X)
    <2>1. \A j \in 1 .. Len(s) : s[j] \in Y
      BY ElementOfSeq
    <2>2. \A j \in 1 .. Len(s) : s[j] \in X
      BY <2>1
    <2>3. Len(s) \in Nat /\ s = [j \in 1 .. Len(s) |-> s[j]]
      OBVIOUS
    <2> HIDE DEF X
    <2> QED BY <2>2, <2>3
  <1> HIDE DEF X, Y, Z, a
  <1>6. <<>> \in G
    <2>1. a \o <<>> = a /\ <<>> \in Seq(X)
      BY <1>1, ConcatEmptySeq
    <2> QED BY <1>1, <1>3, <2>1
  <1>7. ASSUME NEW r \in Seq(X), NEW x \in X, r \in G PROVE r \o <<x>> \in G
    <2>1. /\ r \in Seq(Z) /\ r \in Seq(Y) /\ <<x>> \in Seq(Z) /\ <<x>> \in Seq(Y) /\ x \in Z /\ x.kind = "added"
          /\ r \o <<x>> \in Seq(X)
      <3>1. <<x>> \in Seq(X) /\ <<x>> \in Seq(Z) /\ <<x>> \in Seq(Y) /\ x \in Z /\ x.kind = "added"
        BY <1>2
      <3>2. r \in Seq(Z) /\ r \in Seq(Y)
        <4>1. X \subseteq Z
          BY <1>2
        <4> QED BY <1>2, <4>1, SeqMonotonic
      <3> QED BY <3>1, <3>2, ConcatProperties
    <2> DEFINE now == FoldLeft(Follow, diff, r)
    <2>2. now \in DiffType(S) /\ now = [lines |-> diff.lines, added |-> a \o r]
      BY <1>3, <1>7, <2>1
    <2>3. FoldLeft(Follow, diff, r \o <<x>>) = FoldLeft(Follow, now, <<x>>)
      BY <1>3, <2>1
    <2> HIDE DEF now
    <2>4. FoldLeft(Follow, now, <<x>>) = Follow(now, x)
      BY <1>4, <2>1, <2>2
    <2>5. Follow(now, x) = [lines |-> diff.lines, added |-> Append(a \o r, x)]
      BY <2>1, <2>2 DEF Follow
    <2>6. Append(a \o r, x) = a \o (r \o <<x>>)
      <3>1. (a \o r) \o <<x>> = a \o (r \o <<x>>)
        <4>1. a \in Seq(Y) /\ r \in Seq(Y) /\ <<x>> \in Seq(Y)
          BY <1>1, <2>1
        <4> QED BY <4>1, ConcatAssociative
      <3> DEFINE b == a \o r
      <3>2. b \in Seq(Y)
        BY <1>1, <2>1, ConcatProperties
      <3> HIDE DEF b
      <3>3. b \o <<x>> = Append(b, x)
        BY <3>2
      <3> QED BY <3>1, <3>3 DEF b
    <2> QED BY <2>1, <2>3, <2>4, <2>5, <2>6
  <1> HIDE DEF G
  <1>8. Seq(X) \subseteq G
    BY <1>6, <1>7, SeqInduction
  <1> QED BY <1>5, <1>8 DEF G, a

LEMMA FollowsKept ==
    ASSUME NEW S, NEW diff \in DiffType(S), NEW s \in Seq(GitLine(S)), Len(s) >= 1,
           \A j \in 1 .. Len(s) : s[j].kind = "kept"
    PROVE  FoldLeft(Follow, diff, s) = [lines |-> diff.lines \o diff.added, added |-> <<>>]
  <1> DEFINE Z == GitLine(S)
             X == {l \in Z : l.kind = "kept"}
             Y == LineType(S)
             all == diff.lines \o diff.added
             flushed == [lines |-> all, added |-> <<>>]
             G == {r \in Seq(X) : r = <<>> \/ FoldLeft(Follow, diff, r) = flushed}
  <1>1. diff.lines \in Seq(Y) /\ diff.added \in Seq(Y)
    BY DEF DiffType
  <1>2. all \in Seq(Y)
    BY <1>1, ConcatProperties
  <1>3. /\ FoldLeft(Follow, diff, <<>>) = diff
        /\ \A r, t \in Seq(Z) : FoldLeft(Follow, diff, r \o t) = FoldLeft(Follow, FoldLeft(Follow, diff, r), t)
        /\ \A r \in Seq(Z) : FoldLeft(Follow, diff, r) \in DiffType(S)
    BY DiffFolds
  <1>4. \A x \in Z : \A other \in DiffType(S) : FoldLeft(Follow, other, <<x>>) = Follow(other, x)
    BY DiffFolds
  <1>5. s \in Seq(X)
    <2>1. \A j \in 1 .. Len(s) : s[j] \in Z
      BY ElementOfSeq
    <2>2. \A j \in 1 .. Len(s) : s[j] \in X
      BY <2>1
    <2>3. Len(s) \in Nat /\ s = [j \in 1 .. Len(s) |-> s[j]]
      OBVIOUS
    <2> HIDE DEF X, Z
    <2> QED BY <2>2, <2>3
  <1>6. X \subseteq Z /\ \A x \in X : x.kind = "kept"
    OBVIOUS
  <1>7. \A x \in X : Follow(diff, x) = flushed /\ Follow(flushed, x) = flushed
    <2> TAKE x \in X
    <2>1. Follow(diff, x) = flushed
      BY <1>6 DEF Follow
    <2>2. Follow(flushed, x) = [lines |-> all \o <<>>, added |-> <<>>]
      <3> HIDE DEF all
      <3> QED BY <1>6 DEF Follow
    <2>3. all \o <<>> = all
      <3> HIDE DEF all
      <3> QED BY <1>2, ConcatEmptySeq
    <2> QED BY <2>1, <2>2, <2>3
  <1> HIDE DEF X, Y, Z, all, flushed
  <1>8. <<>> \in G
    OBVIOUS
  <1>9. ASSUME NEW r \in Seq(X), NEW x \in X, r \in G PROVE r \o <<x>> \in G
    <2>1. r \in Seq(Z) /\ <<x>> \in Seq(Z) /\ x \in Z /\ r \o <<x>> \in Seq(X)
      <3>1. <<x>> \in Seq(X) /\ <<x>> \in Seq(Z) /\ x \in Z
        BY <1>6
      <3>2. r \in Seq(Z)
        BY <1>6, SeqMonotonic
      <3> QED BY <3>1, <3>2, ConcatProperties
    <2> DEFINE now == FoldLeft(Follow, diff, r)
    <2>2. now \in DiffType(S) /\ (now = diff \/ now = flushed)
      BY <1>3, <1>9, <2>1
    <2>3. FoldLeft(Follow, diff, r \o <<x>>) = FoldLeft(Follow, now, <<x>>)
      BY <1>3, <2>1
    <2> HIDE DEF now
    <2>4. FoldLeft(Follow, now, <<x>>) = Follow(now, x)
      BY <1>4, <2>1, <2>2
    <2>5. Follow(now, x) = flushed
      BY <1>7, <2>2
    <2> QED BY <2>1, <2>3, <2>4, <2>5
  <1> HIDE DEF G
  <1>10. Seq(X) \subseteq G
    BY <1>8, <1>9, SeqInduction
  <1>11. s # <<>>
    OBVIOUS
  <1> QED BY <1>5, <1>10, <1>11 DEF G, flushed, all

RowWritten(diff, new, i) ==
    /\ Is(i, {"kept"}) => new.lines = diff.lines \o diff.added /\ new.added = <<>>
    /\ Is(i, {"removed"}) => new.lines = diff.lines \o Lines(i, "removed") /\ new.added = diff.added
    /\ Is(i, {"added"}) => new.lines = diff.lines /\ new.added = diff.added \o Lines(i, "added")
    /\ Is(i, {"edited"}) /\ Shape(i) # "spread" =>
         new.lines = diff.lines \o Lines(i, "removed") /\ new.added = diff.added \o Lines(i, "added")

LEMMA RowFollows ==
    ASSUME ReadmeTypeOK, NEW i \in InFile, NEW diff \in DiffType(InFile)
    PROVE  RowWritten(diff, FoldLeft(Follow, diff, WrittenOf(i)), i)
  <1> DEFINE k == Lines(i, "kept")
             r == Lines(i, "removed")
             a == Lines(i, "added")
             new == FoldLeft(Follow, diff, WrittenOf(i))
  <1>1. k \in Seq(GitLine(InFile)) /\ Len(k) >= 1 /\ \A j \in 1 .. Len(k) : k[j].kind = "kept"
    <2>1. /\ k \in Seq(GitLine(InFile)) /\ Len(k) = (IF Shape(i) = "spread" THEN 5 ELSE 1)
          /\ \A j \in 1 .. Len(k) : k[j] = [kind |-> "kept", piece |-> PiecesOf(i, Shape(i))[j]]
      BY LinesTyped DEF LineKinds
    <2> HIDE DEF k
    <2>2. Len(k) >= 1
      BY <2>1
    <2>3. ASSUME NEW j \in 1 .. Len(k) PROVE k[j].kind = "kept"
      <3> DEFINE piece == PiecesOf(i, Shape(i))[j]
      <3>1. k[j] = [kind |-> "kept", piece |-> piece]
        BY <2>1
      <3> HIDE DEF piece
      <3> QED BY <3>1
    <2> QED BY <2>1, <2>2, <2>3
  <1>2. r \in Seq(LineType(InFile)) /\ \A j \in 1 .. Len(r) : r[j].kind = "removed"
    <2>1. r \in Seq(LineType(InFile)) /\ AreLines(InFile, r, PiecesOf(i, Shape(i)), "removed")
      BY LinesTyped, LineAt DEF LineKinds
    <2> HIDE DEF r
    <2> QED BY <2>1 DEF AreLines
  <1>3. a \in Seq(LineType(InFile)) /\ \A j \in 1 .. Len(a) : a[j].kind = "added"
    <2>1. a \in Seq(LineType(InFile)) /\ AreLines(InFile, a, PiecesOf(i, Shape(i)), "added")
      BY LinesTyped, LineAt DEF LineKinds
    <2> HIDE DEF a
    <2> QED BY <2>1 DEF AreLines
  <1>4. /\ Is(i, {"kept"}) => WrittenOf(i) = k
        /\ Is(i, {"removed"}) => WrittenOf(i) = r
        /\ Is(i, {"added"}) => WrittenOf(i) = a
        /\ Is(i, {"edited"}) /\ Shape(i) # "spread" => WrittenOf(i) = r \o a
    BY WrittenIs DEF Is
  <1> HIDE DEF k, r, a, new
  <1>5. CASE Is(i, {"kept"})
    <2>1. new = [lines |-> diff.lines \o diff.added, added |-> <<>>]
      BY <1>1, <1>4, <1>5, FollowsKept DEF new
    <2>2. new.lines = diff.lines \o diff.added /\ new.added = <<>>
      BY <2>1
    <2> QED BY <1>5, <2>2 DEF RowWritten, Is, new
  <1>6. CASE Is(i, {"removed"})
    <2>1. new = [lines |-> diff.lines \o r, added |-> diff.added]
      BY <1>2, <1>4, <1>6, FollowsRemoved DEF new
    <2>2. new.lines = diff.lines \o r /\ new.added = diff.added
      BY <2>1
    <2> QED BY <1>6, <2>2 DEF RowWritten, Is, new, r
  <1>7. CASE Is(i, {"added"})
    <2>1. new = [lines |-> diff.lines, added |-> diff.added \o a]
      BY <1>3, <1>4, <1>7, FollowsAdded DEF new
    <2>2. new.lines = diff.lines /\ new.added = diff.added \o a
      BY <2>1
    <2> QED BY <1>7, <2>2 DEF RowWritten, Is, new, a
  <1>8. CASE Is(i, {"edited"}) /\ Shape(i) # "spread"
    <2>1. r \in Seq(GitLine(InFile)) /\ a \in Seq(GitLine(InFile))
      BY <1>2, <1>3, LinesAreGit, SeqMonotonic DEF LineIsGit
    <2>2. new = FoldLeft(Follow, FoldLeft(Follow, diff, r), a)
      <3>1. new = FoldLeft(Follow, diff, r \o a)
        BY <1>4, <1>8 DEF new
      <3>2. FoldLeft(Follow, diff, r \o a) = FoldLeft(Follow, FoldLeft(Follow, diff, r), a)
        <4>1. \A x, y \in Seq(GitLine(InFile)) :
                FoldLeft(Follow, diff, x \o y) = FoldLeft(Follow, FoldLeft(Follow, diff, x), y)
          BY DiffFolds
        <4> QED BY <2>1, <4>1
      <3> QED BY <3>1, <3>2
    <2> DEFINE now == FoldLeft(Follow, diff, r)
    <2>3. now \in DiffType(InFile) /\ now = [lines |-> diff.lines \o r, added |-> diff.added]
      BY <1>2, <2>1, FollowsRemoved, DiffFolds
    <2>4. new = FoldLeft(Follow, now, a)
      BY <2>2
    <2> HIDE DEF now
    <2>5. new = [lines |-> now.lines, added |-> now.added \o a]
      BY <1>3, <2>3, <2>4, FollowsAdded
    <2>6. new.lines = diff.lines \o r /\ new.added = diff.added \o a
      BY <2>3, <2>5
    <2> QED BY <1>8, <2>6 DEF RowWritten, Is, new, a, r
  <1>9. ~Is(i, {"kept"}) /\ ~Is(i, {"removed"}) /\ ~Is(i, {"added"}) /\ ~(Is(i, {"edited"}) /\ Shape(i) # "spread")
          => RowWritten(diff, new, i)
    BY DEF RowWritten
  <1> QED BY <1>5, <1>6, <1>7, <1>8, <1>9 DEF new

-----------------------------------------------------------------------------
(* What a commit has written down to row k                                   *)

Unmarked(k) == NamedBy(k) # 0 => \A q \in NamedBy(k) + 1 .. k : ~Marks(q)

LEMMA NoneBetween == ASSUME ReadmeTypeOK PROVE \A k \in 0 .. Len(file) : Unmarked(k)
  <1> DEFINE N == Len(file)
             S == {k \in 0 .. N : Unmarked(k)}
  <1>1. N \in Nat
    BY DEF ReadmeTypeOK
  <1>2. \A k \in 0 .. N : NamedBy(k) \in 0 .. k
    BY NamedByRow DEF NamedFor
  <1> HIDE DEF N
  <1>3. 0 \in S
    BY <1>1, NamedByNone DEF Unmarked
  <1>4. ASSUME NEW k \in 0 .. N, k \in S, k < N PROVE k + 1 \in S
    <2>1. k + 1 \in Nat /\ k + 1 >= 1 /\ (k + 1) - 1 = k /\ k + 1 \in 0 .. N /\ Unmarked(k)
      BY <1>1, <1>4
    <2>2. NamedBy(k + 1) = IF ~Marks(k + 1) THEN NamedBy(k)
                           ELSE IF Shape(k + 1) = "header" THEN 0 ELSE k + 1
      <3>1. NamedBy(k + 1) = IF ~Marks(k + 1) THEN NamedBy((k + 1) - 1)
                             ELSE IF Shape(k + 1) = "header" THEN 0 ELSE k + 1
        BY <2>1, NamedByStep
      <3> QED BY <2>1, <3>1
    <2>3. CASE ~Marks(k + 1)
      <3>1. NamedBy(k + 1) = NamedBy(k) /\ NamedBy(k) \in 0 .. k
        BY <1>2, <2>2, <2>3
      <3>2. \A q \in NamedBy(k) + 1 .. k + 1 : q = k + 1 \/ q \in NamedBy(k) + 1 .. k
        BY <1>1, <3>1
      <3>3. Unmarked(k + 1)
        BY <2>1, <2>3, <3>1, <3>2 DEF Unmarked
      <3> QED BY <2>1, <3>3
    <2>4. CASE Marks(k + 1)
      <3>1. NamedBy(k + 1) = 0 \/ NamedBy(k + 1) = k + 1
        BY <2>2, <2>4
      <3>2. (k + 1) + 1 .. k + 1 = {}
        BY <1>1
      <3>3. Unmarked(k + 1)
        BY <3>1, <3>2 DEF Unmarked
      <3> QED BY <2>1, <3>3
    <2> QED BY <2>3, <2>4
  <1> HIDE DEF S
  <1>5. 0 .. N \subseteq S
    BY <1>1, <1>3, <1>4, SetInduction
  <1> QED BY <1>5 DEF S, N

AllComplete == \A i \in 1 .. Len(file) : Is(i, {"added", "edited"}) => Complete(i)

\* row i is added whole, and so are the row that names its company and those between
AddedTogether(i) ==
    /\ Complete(i) /\ JobRow(file[i].row) /\ NamedBy(i) # 0 /\ JobRow(file[NamedBy(i)].row)
    /\ \A q \in NamedBy(i) .. i : Complete(q) \/ Is(q, {"removed"})

Going(diff, k, i) ==
    LET p == NamedBy(i)
        company == file[p].row.company
    IN  /\ Keeps(diff.lines) /\ Keeps(diff.added)
        /\ k \in p .. i => Carries(diff.added, company)
        /\ k >= i => Yields(diff.added, i, company) \/ Yields(diff.lines, i, company)

LEMMA CommitRow ==
    ASSUME ReadmeTypeOK, AllComplete, NEW i \in InFile, AddedTogether(i), NEW k \in InFile,
           NEW diff \in DiffType(InFile), Going(diff, k - 1, i)
    PROVE  Going(FoldLeft(Follow, diff, WrittenOf(k)), k, i)
  <1> DEFINE p == NamedBy(i)
             company == file[p].row.company
             new == FoldLeft(Follow, diff, WrittenOf(k))
             l == diff.lines
             a == diff.added
             ra == Lines(k, "added")
             rr == Lines(k, "removed")
  <1>1. /\ Len(file) \in Nat /\ i \in Nat /\ i \in 0 .. Len(file) /\ k \in Nat
        /\ file[k].mark \in {"kept", "added", "removed", "edited"} /\ file[k].row.company \in {"A", "B", "same"}
        /\ Shape(k) \in {"pipe", "tag", "spread", "open", "header"}
    BY EntryTyped DEF InFile, Shape
  <1>2. p \in 1 .. i /\ p \in InFile /\ Is(p, Now) /\ Named(p)
    <2>1. NamedFor(i) /\ p # 0
      BY <1>1, NamedByRow DEF AddedTogether
    <2> HIDE DEF p
    <2>2. p \in 0 .. i /\ Is(p, Now) /\ Named(p)
      BY <2>1 DEF NamedFor, p
    <2> QED BY <1>1, <2>1, <2>2 DEF InFile
  <1>3. \A q \in p + 1 .. i : ~Marks(q)
    <2>1. Unmarked(i)
      BY <1>1, NoneBetween
    <2> QED BY <2>1 DEF Unmarked, AddedTogether
  <1>4. RowWritten(diff, new, k)
    BY RowFollows
  <1>5. /\ Keeps(l) /\ Keeps(a)
        /\ k - 1 \in p .. i => Carries(a, company)
        /\ k - 1 >= i => Yields(a, i, company) \/ Yields(l, i, company)
    BY DEF Going
  <1>6. /\ Complete(i) /\ JobRow(file[i].row) /\ JobRow(file[p].row)
        /\ \A q \in p .. i : Complete(q) \/ Is(q, {"removed"})
    BY DEF AddedTogether
  <1>7. Is(k, {"added", "edited"}) => Complete(k)
    BY DEF AllComplete, InFile
  <1>8. company \in Company \ {Nobody} /\ company # "same"
    <2>1. company \in {"A", "B", "same"} /\ company # "same"
      BY <1>2, EntryTyped DEF Named
    <2> HIDE DEF company
    <2> QED BY <2>1 DEF Company, Nobody
  <1> HIDE DEF new, l, a, ra, rr, p, company
  <1>9. /\ Keeps(new.lines) /\ Keeps(new.added)
        /\ k \in p .. i => Carries(new.added, company)
        /\ k >= i => Yields(new.added, i, company) \/ Yields(new.lines, i, company)
    <2>1. CASE Is(k, {"kept"})
      <3>1. new.lines = l \o a /\ new.added = <<>>
        BY <1>4, <2>1 DEF RowWritten, l, a
      <3>2. k \notin p .. i
        BY <1>6, <2>1 DEF Complete, Is
      <3>3. k >= i => k - 1 >= i
        <4>1. k # i
          BY <1>1, <1>2, <3>2
        <4> QED BY <1>1, <4>1
      <3>4. Keeps(new.lines) /\ Keeps(new.added)
        BY <1>5, <3>1, KeepsBoth, KeepsNone
      <3>5. k >= i => Yields(new.lines, i, company)
        BY <1>5, <3>1, <3>3, YieldsAfter, YieldsBefore
      <3> QED BY <3>2, <3>4, <3>5
    <2>2. CASE Is(k, {"removed"})
      <3>1. new.lines = l \o rr /\ new.added = a
        BY <1>4, <2>2 DEF RowWritten, l, a, rr
      <3>2. k # i /\ k # p
        <4>1. ~Is(k, Now) /\ ~Complete(k)
          BY <2>2 DEF Is, Now, Complete
        <4> QED BY <1>2, <1>6, <4>1
      <3>3. (k >= i => k - 1 >= i) /\ (k \in p .. i => k - 1 \in p .. i)
        BY <1>1, <1>2, <3>2
      <3>4. Keeps(rr)
        BY KeepsRemoved DEF rr
      <3>5. Keeps(new.lines) /\ Keeps(new.added)
        BY <1>5, <3>1, <3>4, KeepsBoth
      <3>6. Yields(l, i, company) => Yields(new.lines, i, company)
        BY <3>1, <3>4, YieldsBefore
      <3> QED BY <1>5, <3>1, <3>3, <3>5, <3>6
    <2>3. CASE Is(k, {"added", "edited"})
      <3>1. Shape(k) # "open" /\ (Is(k, {"edited"}) => Shape(k) # "spread") /\ Is(k, Now)
        BY <1>7, <2>3 DEF Complete, Is, Shape, Now
      <3>2. (new.lines = l \/ new.lines = l \o rr) /\ new.added = a \o ra
        BY <1>4, <2>3, <3>1 DEF RowWritten, l, a, ra, rr, Is
      <3>3. Keeps(rr) /\ Keeps(ra)
        BY <3>1, KeepsRemoved, KeepsRow DEF rr, ra
      <3>4. Keeps(new.lines) /\ Keeps(new.added)
        BY <1>5, <3>2, <3>3, KeepsBoth
      <3>5. Yields(l, i, company) => Yields(new.lines, i, company)
        BY <3>2, <3>3, YieldsBefore
      <3>6. Yields(a, i, company) => Yields(new.added, i, company)
        BY <3>2, <3>3, YieldsBefore
      <3>7. CASE k = p
        <4>1. Carries(new.added, company) /\ Yields(new.added, p, company)
          BY <1>2, <1>5, <1>6, <1>8, <3>2, <3>7, OwnCompany DEF ra, company
        <4>2. k >= i => i = p
          BY <1>1, <1>2, <3>7
        <4> QED BY <3>4, <4>1, <4>2
      <3>8. CASE k \in p + 1 .. i
        <4>1. k - 1 \in p .. i
          BY <1>1, <1>2, <3>8
        <4>2. file[k].row.company = "same" /\ Shape(k) # "header"
          <5>1. ~Marks(k)
            BY <1>3, <3>8
          <5>2. ~Named(k) /\ Shape(k) # "header"
            BY <3>1, <5>1 DEF Marks
          <5> QED BY <5>2 DEF Named, Shape
        <4>3. Carries(new.added, company) /\ (JobRow(file[k].row) => Yields(new.added, k, company))
          BY <1>5, <1>8, <3>1, <3>2, <4>1, <4>2, CarriedCompany DEF ra
        <4>4. k >= i => k = i
          BY <1>1, <1>2, <3>8
        <4> QED BY <1>6, <3>4, <4>3, <4>4
      <3>9. CASE k \notin p .. i
        <4>1. k >= i => k - 1 >= i
          <5>1. k # i
            BY <1>1, <1>2, <3>9
          <5> QED BY <1>1, <5>1
        <4> QED BY <1>5, <3>4, <3>5, <3>6, <3>9, <4>1
      <3>10. k = p \/ k \in p + 1 .. i \/ k \notin p .. i
        BY <1>1, <1>2
      <3> QED BY <3>7, <3>8, <3>9, <3>10
    <2> QED BY <1>1, <2>1, <2>2, <2>3 DEF Is
  <1> QED BY <1>9 DEF Going, new, p, company

LEMMA AddedAreRead == ASSUME ReadmeTypeOK PROVE CommitReadsAdded
  <1> SUFFICES ASSUME AllComplete, NEW i \in InFile, AddedTogether(i)
               PROVE  Reads(CommitRead, i, file[NamedBy(i)].row.company)
    BY DEF CommitReadsAdded, AllComplete, AddedTogether, InFile
  <1> DEFINE N == Len(file)
             X == GitLine(InFile)
             ss == [j \in 1 .. N |-> WrittenOf(j)]
             p == NamedBy(i)
             company == file[p].row.company
  <1>1. N \in Nat /\ \A j \in 1 .. N : j \in InFile
    BY DEF ReadmeTypeOK, InFile
  <1>2. Patch = Diff(FlattenSeq(ss)).lines \o Diff(FlattenSeq(ss)).added
    BY DEF Patch, Diff
  <1>3. i \in 1 .. N /\ p \in 1 .. i
    <2>1. i \in 1 .. N /\ i \in 0 .. Len(file)
      BY <1>1 DEF InFile
    <2>2. NamedFor(i) /\ p # 0
      BY <2>1, NamedByRow DEF AddedTogether
    <2>3. p \in 0 .. i
      BY <2>2 DEF NamedFor
    <2> HIDE DEF p, N
    <2> QED BY <1>1, <2>1, <2>2, <2>3
  <1> HIDE DEF N, p, company
  <1>4. ss \in [1 .. N -> Seq(X)] /\ \A k \in 1 .. N : ss[k] = WrittenOf(k)
    BY <1>1, WrittenTyped
  <1> HIDE DEF ss, X
  <1>5. PICK h \in [0 .. N -> Seq(X)] :
          /\ h[0] = <<>> /\ FlattenSeq(ss) = h[N]
          /\ \A k \in 1 .. N : h[k] = h[k - 1] \o ss[k]
    <2>1. HasSteps(X, N, ss)
      BY <1>1, <1>4, FlattenSteps
    <2> QED BY <2>1 DEF HasSteps
  <1> DEFINE start == [lines |-> <<>>, added |-> <<>>]
             S == {k \in 0 .. N : Going(Diff(h[k]), k, i)}
  <1>6. start \in DiffType(InFile) /\ start.lines = <<>> /\ start.added = <<>>
    BY DiffStart
  <1>7. /\ FoldLeft(Follow, start, <<>>) = start
        /\ \A s \in Seq(X) : FoldLeft(Follow, start, s) \in DiffType(InFile)
        /\ \A s, r \in Seq(X) : FoldLeft(Follow, start, s \o r) = FoldLeft(Follow, FoldLeft(Follow, start, s), r)
    BY <1>6, DiffFolds DEF X
  <1>8. \A s : Diff(s) = FoldLeft(Follow, start, s)
    BY DEF Diff
  <1> HIDE DEF start
  <1>9. 0 \in S
    <2>1. Diff(h[0]) = start /\ 0 \in 0 .. N
      BY <1>1, <1>5, <1>7, <1>8
    <2>2. 0 \notin p .. i /\ ~(0 >= i)
      BY <1>1, <1>3
    <2>3. Going(start, 0, i)
      BY <1>6, <2>2, KeepsNone DEF Going, p
    <2> QED BY <2>1, <2>3
  <1>10. ASSUME NEW k \in 0 .. N, k \in S, k < N PROVE k + 1 \in S
    <2> DEFINE m == k + 1
    <2>1. m \in 1 .. N /\ m \in 0 .. N /\ m - 1 = k /\ m \in InFile
      BY <1>1, <1>10
    <2>2. h[m] = h[k] \o WrittenOf(m) /\ h[k] \in Seq(X) /\ WrittenOf(m) \in Seq(X)
      <3>1. h[m] = h[m - 1] \o ss[m] /\ ss[m] = WrittenOf(m) /\ ss[m] \in Seq(X)
        BY <1>4, <1>5, <2>1
      <3>2. h[k] \in Seq(X)
        BY <1>5
      <3> QED BY <2>1, <3>1, <3>2
    <2>3. Diff(h[m]) = FoldLeft(Follow, Diff(h[k]), WrittenOf(m)) /\ Diff(h[k]) \in DiffType(InFile)
      BY <1>7, <1>8, <2>2
    <2> HIDE DEF m
    <2>4. Going(Diff(h[k]), m - 1, i)
      BY <1>10, <2>1
    <2>5. Going(Diff(h[m]), m, i)
      BY <2>1, <2>3, <2>4, CommitRow
    <2> QED BY <2>1, <2>5 DEF m
  <1>11. N \in S
    <2> HIDE DEF S
    <2>1. 0 .. N \subseteq S
      BY <1>1, <1>9, <1>10, SetInduction
    <2> QED BY <1>1, <2>1
  <1> DEFINE whole == Diff(h[N])
  <1>12. Patch = whole.lines \o whole.added /\ Going(whole, N, i)
    BY <1>2, <1>5, <1>11
  <1> HIDE DEF whole
  <1>13. Keeps(whole.lines) /\ Keeps(whole.added)
         /\ (Yields(whole.added, i, company) \/ Yields(whole.lines, i, company))
    <2>1. N >= i
      BY <1>1, <1>3
    <2> QED BY <1>12, <2>1 DEF Going, p, company
  <1>14. Yields(Patch, i, company)
    BY <1>12, <1>13, YieldsAfter, YieldsBefore
  <1> QED BY <1>14, YieldedIsRead DEF CommitRead, p, company

-----------------------------------------------------------------------------

LEMMA ReadmeInitTyped == ReadmeInit => ReadmeTypeOK
  BY DEF ReadmeInit, ReadmeTypeOK

LEMMA ReadmeNextTyped == ReadmeTypeOK /\ [ReadmeNext]_file => ReadmeTypeOK'
  <1> SUFFICES ASSUME ReadmeTypeOK, [ReadmeNext]_file PROVE ReadmeTypeOK'
    OBVIOUS
  <1>1. CASE ReadmeNext
    <2>1. PICK r \in TableRow, m \in Mark : file' = Append(file, [row |-> r, mark |-> m])
      BY <1>1 DEF ReadmeNext
    <2>2. [row |-> r, mark |-> m] \in EntryType
      BY ReadmeAssumption DEF EntryType
    <2> QED BY <2>1, <2>2 DEF ReadmeTypeOK
  <1>2. CASE UNCHANGED file
    BY <1>2 DEF ReadmeTypeOK
  <1> QED BY <1>1, <1>2

LEMMA TypedIsRead == ReadmeTypeOK => TablesAreRead
  BY RowsAreSynced, AddedAreRead, YieldsOnlyListed DEF TablesAreRead

(* Whatever file there is and whatever a commit does to its rows             *)
(* (coalesce_html_table_rows(), MarkdownTableParser, GitPatchParser): a full *)
(* sync reads every legible row once with the company its table shows, a     *)
(* commit of whole rows yields each of them with its company, and nothing is *)
(* yielded that the file no longer has.                                      *)
THEOREM TablesAlwaysRead == ReadmeSpec => []TablesAreRead
  <1>1. ReadmeSpec => []ReadmeTypeOK
    BY ReadmeInitTyped, ReadmeNextTyped, PTL DEF ReadmeSpec
  <1> QED BY <1>1, TypedIsRead, PTL
=============================================================================
