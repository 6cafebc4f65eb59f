---------------------------- MODULE ReadmeTables ----------------------------
(***************************************************************************)
(* Reading the tables of a README (app/scrapers/markdown_parser.py,        *)
(* git_patch_parser.py, pipelines/simplify_pipeline.py): as the lines a    *)
(* commit changed, or as the whole file of a full sync.                    *)
(*                                                                         *)
(* A row is written in Markdown ("pipe"), in HTML on one line ("tag") or   *)
(* on several ("spread", with a table nested in a cell), or as HTML that   *)
(* is never closed ("open").  It names its company or continues the one    *)
(* above ("same", the marker of Simplify), and has a link or a lock in its *)
(* place.  Its fields, and the states they are given, are those of         *)
(* JobLifecycle; a row is told from others by its place in the file.       *)
(***************************************************************************)
EXTENDS Integers, Sequences, SequencesExt

CONSTANTS
    TableRow,       \* rows a file may have
    Mark,           \* what a commit may do to a row
    MaxRows         \* bound: rows of a file

RowType ==
    [company : {"A", "B", "same"}, shape : {"pipe", "tag", "spread", "open", "header"}, linked : BOOLEAN]

ASSUME ReadmeAssumption ==
    /\ TableRow \subseteq RowType /\ MaxRows \in Nat
    /\ Mark \subseteq {"kept", "added", "removed", "edited"}

VARIABLES
    file        \* rows before and after one commit, each with its mark

ReadmeInit == file = <<>>

ReadmeNext ==
    /\ Len(file) < MaxRows
    /\ \E r \in TableRow, m \in Mark : file' = Append(file, [row |-> r, mark |-> m])

-----------------------------------------------------------------------------
(* The lines of a row: the balance of their <tr> tags, whether they have a   *)
(* <tr> or <td>, and a </tr>.                                                *)

Piece(at, k, change, starts, ends) ==
    [at |-> at, k |-> k, change |-> change, starts |-> starts, ends |-> ends]

PiecesOf(at, shape) ==
    CASE shape = "pipe" -> <<Piece(at, 1, 0, FALSE, FALSE)>>
      [] shape \in {"tag", "header"} -> <<Piece(at, 1, 0, TRUE, TRUE)>>
      [] shape = "open" -> <<Piece(at, 1, 1, TRUE, FALSE)>>
      [] shape = "spread" ->
           <<Piece(at, 1, 1, TRUE, FALSE),      \* <tr>, company, title
             Piece(at, 2, 1, TRUE, FALSE),      \* location: a nested <tr>
             Piece(at, 3, -1, FALSE, TRUE),     \* its </tr>
             Piece(at, 4, 0, TRUE, FALSE),      \* the cell with the link
             Piece(at, 5, -1, FALSE, TRUE)>>    \* </tr>

Recorded(pieces, kind) == [j \in DOMAIN pieces |-> [kind |-> kind, piece |-> pieces[j]]]

\* an edit changes the link: of a spread row, the line with that cell
WrittenOf(at) ==
    LET entry == file[at]
        all == PiecesOf(at, entry.row.shape)
        Kept(j) == Recorded(<<all[j]>>, "kept")
        Twice(pieces) == Recorded(pieces, "removed") \o Recorded(pieces, "added")
    IN  IF entry.mark # "edited" THEN Recorded(all, entry.mark)
        ELSE IF Len(all) = 1 THEN Twice(all)
        ELSE Kept(1) \o Kept(2) \o Kept(3) \o Twice(<<all[4]>>) \o Kept(5)

\* git: between lines that were kept, first what was removed; parse() leaves
\* out the kept ones
Follow(diff, line) ==
    CASE line.kind = "kept" -> [lines |-> diff.lines \o diff.added, added |-> <<>>]
      [] line.kind = "removed" -> [diff EXCEPT !.lines = Append(@, line)]
      [] line.kind = "added" -> [diff EXCEPT !.added = Append(@, line)]

Patch ==
    LET whole == FoldLeft(Follow, [lines |-> <<>>, added |-> <<>>],
                          FlattenSeq([i \in 1 .. Len(file) |-> WrittenOf(i)]))
    IN  whole.lines \o whole.added

\* process_full_sync(): every line of the file counts as added
ListedAs(i) ==
    IF file[i].mark = "removed" THEN <<>>
    ELSE Recorded(PiecesOf(i, file[i].row.shape), "added")
Listing == FlattenSeq([i \in 1 .. Len(file) |-> ListedAs(i)])

-----------------------------------------------------------------------------
(* coalesce_html_table_rows().                                               *)

Continues_AnyKind(buffer, line) == buffer # <<>>      \* mutant
Continues(buffer, line) == buffer # <<>> /\ line.kind = buffer[1].kind

Closes(depth, line) == line.piece.ends /\ depth <= 0

Begins(line) == line.piece.starts /\ (line.piece.change > 0 \/ ~line.piece.ends)

Text(lines) == [kind |-> lines[1].kind, pieces |-> [j \in DOMAIN lines |-> lines[j].piece]]
Verbatim(lines) == [j \in DOMAIN lines |-> Text(<<lines[j]>>)]

Coalesce(acc, line) ==
    LET depth == acc.depth + line.piece.change
        flushed == acc.out \o Verbatim(acc.buffer)
    IN  IF Continues(acc.buffer, line)
          THEN IF Closes(depth, line)
                 THEN [out |-> Append(acc.out, Text(Append(acc.buffer, line))),
                       buffer |-> <<>>, depth |-> 0]
                 ELSE [out |-> acc.out, buffer |-> Append(acc.buffer, line), depth |-> depth]
        ELSE IF Begins(line)
          THEN [out |-> flushed, buffer |-> <<line>>, depth |-> line.piece.change]
        ELSE [out |-> Append(flushed, Text(<<line>>)), buffer |-> <<>>, depth |-> 0]

Coalesced(lines) ==
    LET acc == FoldLeft(Coalesce, [out |-> <<>>, buffer |-> <<>>, depth |-> 0], lines)
    IN  acc.out \o Verbatim(acc.buffer)

-----------------------------------------------------------------------------
(* MarkdownTableParser and the rows the pipeline makes candidates.           *)

\* the lines of one row and no others: of anything else the columns are too
\* few, or shifted away from the link
WholeRow(pieces) == pieces = PiecesOf(pieces[1].at, file[pieces[1].at].row.shape)

JobRow(row) == row.shape \notin {"open", "header"} /\ row.linked

Nobody == "nobody"

Inherits(last) == last # Nobody

Parse(acc, text) ==
    LET at == text.pieces[1].at
        row == file[at].row
        Job(company) == [at |-> at, company |-> company, kind |-> text.kind]
    IN  IF ~WholeRow(text.pieces) THEN acc
        ELSE IF row.shape = "header" THEN [acc EXCEPT !.last = Nobody]
        ELSE IF ~JobRow(row) THEN acc
        ELSE IF row.company # "same"
          THEN [last |-> row.company, jobs |-> Append(acc.jobs, Job(row.company))]
        ELSE IF Inherits(acc.last) THEN [acc EXCEPT !.jobs = Append(@, Job(acc.last))]
        ELSE acc

Admit(found, job) == IF job.kind = "removed" THEN found ELSE Append(found, job)
Candidates(jobs) == FoldLeft(Admit, <<>>, jobs)

Read(lines) ==
    Candidates(FoldLeft(Parse, [last |-> Nobody, jobs |-> <<>>], Coalesced(lines)).jobs)

FullSync == Read(Listing)
CommitRead == Read(Patch)

Reads(jobs, at, company) ==
    \E j \in DOMAIN jobs : jobs[j].at = at /\ jobs[j].company = company

-----------------------------------------------------------------------------
(* Properties                                                                *)

Is(i, marks) == file[i].mark \in marks
Now == {"kept", "added", "edited"}
Named(i) == file[i].row.company # "same" /\ file[i].row.shape # "header"

\* the row that names the company of row i, 0 where its table has none
NamedBy(i) ==
    LET above == {p \in 1 .. i : Is(p, Now) /\ (Named(p) \/ file[p].row.shape = "header")}
        nearest == CHOOSE p \in above : \A q \in above : q <= p
    IN  IF above = {} THEN 0
        ELSE IF file[nearest].row.shape = "header" THEN 0 ELSE nearest

\* a row of several lines is lost once HTML above it was left open
Legible(i) ==
    /\ Is(i, Now) /\ JobRow(file[i].row)
    /\ file[i].row.shape = "spread" =>
         \A q \in 1 .. i - 1 : file[q].row.shape = "open" => Is(q, {"removed"})

(* A full sync reads every legible row exactly once, with the company its    *)
(* table shows if that company's own row is legible, through nested rows,    *)
(* headers and HTML left open; and a continuation under nothing is not read. *)
SyncReadsRows ==
    /\ \A i \in 1 .. Len(file) :
         /\ Legible(i) /\ NamedBy(i) # 0 /\ Legible(NamedBy(i)) =>
              Reads(FullSync, i, file[NamedBy(i)].row.company)
         /\ NamedBy(i) = 0 => \A j \in DOMAIN FullSync : FullSync[j].at # i
    /\ \A j, k \in DOMAIN FullSync : FullSync[j].at = FullSync[k].at => j = k

\* added whole: an edited cell of a spread row arrives alone and takes in
\* what follows it
Complete(i) ==
    \/ Is(i, {"added"}) /\ file[i].row.shape # "open"
    \/ Is(i, {"edited"}) /\ file[i].row.shape \in {"pipe", "tag", "header"}

(* A commit whose additions are whole rows yields each of them, whatever was *)
(* removed among them, HTML left open included, with its company: its own,   *)
(* or that of a row added above it with no kept line between.                *)
CommitReadsAdded ==
    (\A i \in 1 .. Len(file) : Is(i, {"added", "edited"}) => Complete(i)) =>
        \A i \in 1 .. Len(file) :
            LET p == NamedBy(i)
                together == \A q \in p .. i : Complete(q) \/ Is(q, {"removed"})
            IN  (Complete(i) /\ JobRow(file[i].row) /\ p # 0 /\ JobRow(file[p].row) /\ together) =>
                    Reads(CommitRead, i, file[p].row.company)

(* "A deleted row is only evidence that this source stopped listing a role": *)
(* nothing a commit yields is a row the file no longer has, and nothing of   *)
(* several rows is taken for one.                                            *)
OnlyListed == \A j \in DOMAIN CommitRead : Is(CommitRead[j].at, {"added", "edited"})

(* The parser on whole files and on patches: all rows, with their company,   *)
(* and no others.                                                            *)
TablesAreRead == SyncReadsRows /\ CommitReadsAdded /\ OnlyListed
=============================================================================
