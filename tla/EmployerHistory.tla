-------------------------- MODULE EmployerHistory --------------------------
(***************************************************************************)
(* Imports of official employer records                                    *)
(* (app/services/employer_history.py): the disclosure files of a           *)
(* directory, the mapping of legal names to companies, and the replacement *)
(* of dated records.                                                       *)
(*                                                                         *)
(* A legal name is a record of what the mapping compares: its letters and  *)
(* its key, the letters without legal suffixes.  A row is what a file says *)
(* of one case.                                                            *)
(***************************************************************************)
EXTENDS Integers, Sequences, FiniteSets, SequencesExt, FiniteSetsExt

CONSTANTS
    Employer,       \* companies of JobPing: name and key
    DisclosureRow,  \* rows disclosure files may have
    FiscalYears,    \* fiscal year of each file, by its place in the directory
    Alias,          \* reviewed aliases: legal name -> company
    MaxFilings,     \* bound: rows of all files
    MaxImports      \* bound: imports

ASSUME HistoryAssumption ==
    /\ \A r \in DisclosureRow : r.visa \in {"H-1B", "other"} /\ r.status \in {"certified", "denied"}
    /\ IsFiniteSet(Employer) /\ FiscalYears \in Seq(Nat)
    /\ MaxFilings \in Nat /\ MaxImports \in Nat

VARIABLES
    disclosures,    \* rows of each file
    filings,        \* immigration_records of each company
    imports         \* imports so far: when each dataset was prepared

employerHistory == <<disclosures, filings, imports>>

File == DOMAIN FiscalYears

EmployerHistoryInit ==
    /\ disclosures = [f \in File |-> <<>>]
    /\ filings = [c \in Employer |-> {}]
    /\ imports = <<>>

-----------------------------------------------------------------------------
(* prepare_dol_directory().                                                  *)

Certified(row) == row.visa = "H-1B" /\ row.status = "certified"

Counted(seen, file, row) == \A f \in File :
    FiscalYears[f] = FiscalYears[file] => <<f, row.case>> \notin seen

\* file by file; the first row of a case in a fiscal year names its employer
Tally ==
    LET Entries(f) == [i \in DOMAIN disclosures[f] |-> [file |-> f, row |-> disclosures[f][i]]]
        all == FlattenSeq([f \in File |-> Entries(f)])
        Count(acc, e) ==
            IF ~Certified(e.row) \/ ~Counted(acc.seen, e.file, e.row) THEN acc
            ELSE [seen |-> acc.seen \cup {<<e.file, e.row.case>>},
                  rows |-> acc.rows \cup {[year |-> FiscalYears[e.file], name |-> e.row.name,
                                           file |-> e.file, case |-> e.row.case]}]
    IN  FoldLeft(Count, [seen |-> {}, rows |-> {}], all).rows

CountOf(year, name) == Cardinality({t \in Tally : t.year = year /\ t.name = name})

-----------------------------------------------------------------------------
(* match_company_aliases().                                                  *)

SameLetters(c, name) == c.letters = name.letters

One(candidates) == Cardinality(candidates) = 1

Resolved(name) ==
    IF name \in DOMAIN Alias THEN {Alias[name]}
    ELSE IF \E c \in Employer : SameLetters(c, name) THEN {CHOOSE c \in Employer : SameLetters(c, name)}
    ELSE LET candidates == {c \in Employer : c.key = name.key}
         IN  IF One(candidates) THEN {CHOOSE c \in candidates : TRUE} ELSE {}

Dataset(at) ==
    {[company |-> CHOOSE c \in Resolved(t.name) : TRUE, year |-> t.year, name |-> t.name,
      count |-> CountOf(t.year, t.name), at |-> at] : t \in {u \in Tally : Resolved(u.name) # {}}}

-----------------------------------------------------------------------------
(* import_employer_history().                                                *)

KeyOf(r) == <<r.year, r.name>>

Stays_Never(old, new) == FALSE      \* mutant
Stays(old, new) == old.at > new.at

Replaced(records, item) ==
    LET same == {r \in records : KeyOf(r) = KeyOf(item)}
    IN  IF \E r \in same : Stays(r, item) THEN records ELSE (records \ same) \cup {item}

\* datasets are prepared when their files are read, and imported in any order
Import(at) ==
    /\ Len(imports) < MaxImports
    /\ imports' = Append(imports, [at |-> at, data |-> Dataset(at)])
    /\ filings' = [c \in Employer |->
         LET mine == SetToSeq({r \in Dataset(at) : r.company = c})
         IN  FoldLeft(Replaced, filings[c], mine)]
    /\ UNCHANGED disclosures

\* the same dataset once more, or an older one late
ImportAgain(i) ==
    /\ Len(imports) < MaxImports
    /\ imports' = Append(imports, imports[i])
    /\ filings' = [c \in Employer |->
         FoldLeft(Replaced, filings[c], SetToSeq({r \in imports[i].data : r.company = c}))]
    /\ UNCHANGED disclosures

\* an agency publishes another row, or a corrected file
Disclose(f, row) ==
    /\ MapThenSumSet(LAMBDA g : Len(disclosures[g]), File) < MaxFilings
    /\ disclosures' = [disclosures EXCEPT ![f] = Append(@, row)]
    /\ UNCHANGED <<filings, imports>>

Latest == IF imports = <<>> THEN 0 ELSE Max({imports[i].at : i \in DOMAIN imports})

EmployerHistoryNext ==
    \/ \E f \in File, row \in DisclosureRow : Disclose(f, row)
    \/ Import(Latest + 1)
    \/ \E i \in DOMAIN imports : ImportAgain(i)

-----------------------------------------------------------------------------
(* Properties                                                                *)

Cases(year) ==
    {r.case : r \in {s \in DisclosureRow : Certified(s)
        /\ \E f \in File : FiscalYears[f] = year /\ \E i \in DOMAIN disclosures[f] : disclosures[f][i] = s}}

(* Quarterly files repeat cases: the filings of a fiscal year over all legal *)
(* names are its distinct certified cases, in whatever file and under        *)
(* whatever name a case comes again.                                         *)
CasesCountOnce == \A f \in File :
    LET year == FiscalYears[f] IN Cardinality({t \in Tally : t.year = year}) = Cardinality(Cases(year))

(* "Parent/subsidiary names are never joined by fuzzy matching": without a   *)
(* reviewed alias a company shows the filings of a legal name only if it is  *)
(* the name itself or no other company could be meant.                       *)
NeverAmbiguous == \A c \in Employer : \A r \in filings[c] :
    r.name \notin DOMAIN Alias =>
        SameLetters(c, r.name) \/ \A d \in Employer : d.key = r.name.key => d = c

(* "Replace each dated dataset record idempotently": after imports repeated  *)
(* and out of order, a company has one record per year and legal name, the   *)
(* one of the newest dataset that spoke of them.                             *)
NewestOnce == \A c \in Employer :
    LET told == UNION {{r \in imports[i].data : r.company = c} : i \in DOMAIN imports}
    IN  /\ filings[c] = {r \in told : \A q \in told : KeyOf(q) = KeyOf(r) => q.at <= r.at}
        /\ \A q, r \in filings[c] : KeyOf(q) = KeyOf(r) => q = r

(* From the government's files to a company: each case once, under a name    *)
(* that is its own, from the newest dataset.                                 *)
FilingsAreTrue == CasesCountOnce /\ NeverAmbiguous /\ NewestOnce
=============================================================================
