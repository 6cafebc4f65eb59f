------------------------------ MODULE Screening ------------------------------
(***************************************************************************)
(* From the documents of an evidence check to the bucket a posting falls   *)
(* into for a private profile: extract() and reconcile()                   *)
(* (app/evidence/extract.py), finish() where it decides what is complete   *)
(* (app/evidence/store.py), evaluate() and its SQL twin                    *)
(* bucket_expression() (app/evidence/screening.py).                        *)
(*                                                                         *)
(* A statement is a clause the patterns recognise: its topic, whether it   *)
(* says yes or no, and the wording that changes its meaning.  A pay is an  *)
(* advertised range.  Documents are published statement by statement; the  *)
(* position of a document is the order of its URL.  An absent policy is    *)
(* "unknown", an absent restriction "none", an absent amount NoAmount.     *)
(***************************************************************************)
EXTENDS Integers, Sequences, SequencesExt

CONSTANTS
    Statement,      \* clauses pages may contain
    Pay,            \* pay statements pages may contain
    Profile,        \* private requirements
    Posting,        \* what readers compare a check with
    Kinds,          \* kinds of the documents, in the order of their URLs
    MaxStatements,  \* bound: statements and pays of all documents
    RecentYear,     \* 2023
    NoAmount,
    AnyPlace

\* "cpt" stands for the three kinds of training, which have the same rules
Policies == {"cpt", "sponsorship", "future_sponsorship"}
Restrictions == {"citizenship_required", "permanent_authorization_required"}

ASSUME StatementAssumption == Statement \subseteq
    [topic : {"cpt", "sponsorship"} \cup Restrictions, says : {"allowed", "denied", "required"},
     hedged : BOOLEAN, question : BOOLEAN, future : BOOLEAN, now : BOOLEAN]

\* CompensationRange refuses a range without amounts
ASSUME PayAssumption ==
    /\ NoAmount \in Int
    /\ \A p \in Pay : /\ p.low \in Int /\ p.high \in Int
                      /\ p.low # NoAmount \/ p.high # NoAmount

\* the fields of Requirements
ASSUME ProfileAssumption == \A r \in Profile :
    /\ r.authorization \in {"none", "unrestricted", "cpt"}
    /\ r.hourly \in Int /\ r.annual \in Int

ASSUME PostingAssumption == \A job \in Posting : job.us \in BOOLEAN /\ job.closed \in BOOLEAN

ASSUME KindAssumption == Kinds \in Seq({"posting", "application", "company_policy"})

VARIABLE documents      \* one per entry of Kinds: what it states, and whether it was cut off

Url == 1 .. Len(Kinds)

\* any of the pages may be longer than what is read of it
ScreeningInit == \E whole \in [Url -> BOOLEAN] :
    documents = [u \in Url |-> [kind |-> Kinds[u], complete |-> whole[u],
                               statements |-> {}, pays |-> {}]]

-----------------------------------------------------------------------------
(* extract(): the facts of one document.                                     *)

Value(s) == IF s.hedged THEN "conditional" ELSE s.says

\* a future-only statement does not speak of the present
Fields(s) ==
    IF s.topic = "sponsorship" /\ s.future
      THEN {"future_sponsorship"} \cup (IF s.now THEN {"sponsorship"} ELSE {})
      ELSE {s.topic}

Stated(d, field) == {Value(s) : s \in {r \in d.statements : ~r.question /\ field \in Fields(r)}}

Agreed(values, absent) ==
    IF values = {} THEN absent
    ELSE IF \E v \in values : values = {v} THEN CHOOSE v \in values : TRUE ELSE "conflicting"

Extracted(d) ==
    IF d.kind = "company_policy"
      THEN [policies |-> [f \in Policies |-> "unknown"],
            restrictions |-> [f \in Restrictions |-> "none"], pay |-> {}]
      ELSE [policies |-> [f \in Policies |-> Agreed(Stated(d, f), "unknown")],
            restrictions |-> [f \in Restrictions |-> Agreed(Stated(d, f), "none")],
            pay |-> d.pays]

-----------------------------------------------------------------------------
(* reconcile(): complete role documents, in the order of their URLs.         *)

Merged(previous, value, absent) ==
    CASE value = absent -> previous
      [] previous = absent -> value
      [] OTHER -> IF previous = value THEN value ELSE "conflicting"

Usable(d) == d.complete /\ d.kind # "company_policy"

\* one fact of the usable documents, document after document
Together(part, field, absent) ==
    FoldLeft(LAMBDA v, d : IF Usable(d) THEN Merged(v, Extracted(d)[part][field], absent) ELSE v,
             absent, documents)

Contradicts(p, q) ==
    /\ <<p.currency, p.period, p.component, p.place>> = <<q.currency, q.period, q.component, q.place>>
    /\ <<p.low, p.high>> # <<q.low, q.high>>

Reconciled ==
    LET pay == UNION {Extracted(documents[u]).pay : u \in {v \in Url : Usable(documents[v])}}
    IN  [policies |-> [f \in Policies |-> Together("policies", f, "unknown")],
         restrictions |-> [f \in Restrictions |-> Together("restrictions", f, "none")],
         pay |-> pay,
         conflicting |-> \E p, q \in pay : Contradicts(p, q)]

\* finish() of a check that collected these documents
Status == IF \A u \in Url : documents[u].complete THEN "complete" ELSE "partial"

-----------------------------------------------------------------------------
(* evaluate().                                                               *)

NeedsAuthorization(r) == r.authorization \notin {"none", "unrestricted"} \/ r.future
Floor(r, job) == IF job.kind = "internship" THEN r.hourly ELSE r.annual
Period(kind) == IF kind = "internship" THEN "hour" ELSE "year"
Configured(r) ==
    r.authorization # "none" \/ r.future \/ r.places # AnyPlace
      \/ r.hourly # NoAmount \/ r.annual # NoAmount

Amount(p) == IF p.high # NoAmount THEN p.high ELSE p.low

\* recent_h1b_summary(): any filings count, if one is recent
Filed(records) ==
    LET valid == {x \in records : x.kind \in {"h1b_filings", "h1b_approvals"} /\ x.count >= 1}
    IN  \E x \in valid : x.year >= RecentYear

Applicable(r, job, data) ==
    {p \in data.pay : p.component = "base" /\ p.period = Period(job.kind) /\ p.currency = "USD" /\ p.us
                        /\ (r.places = AnyPlace \/ p.place \in r.places)}

Below(pay) == IF \E p \in pay : p.high = NoAmount THEN "review" ELSE "fail"

PayVerdict(r, job, data) ==
    LET pay == Applicable(r, job, data)
    IN  CASE Floor(r, job) = NoAmount -> "pass"
          [] Floor(r, job) # NoAmount /\ (data.conflicting \/ pay = {}) -> "review"
          [] OTHER -> IF \E p \in pay : Amount(p) >= Floor(r, job) THEN "pass"
                      ELSE Below(pay)

FutureVerdict(job, data) ==
    LET future == data.policies["future_sponsorship"]
        now == data.policies["sponsorship"]
        free == \A f \in Restrictions : data.restrictions[f] = "none"
    IN  IF future = "allowed" \/ (future = "unknown" /\ now = "allowed" /\ free) THEN "pass"
        ELSE IF future = "denied" \/ (future = "unknown" /\ now = "denied") THEN "fail"
        ELSE IF future = "unknown" /\ now = "unknown" /\ free /\ Filed(job.records) THEN "pass"
        ELSE "review"

TrainingVerdict(value) ==
    IF value = "allowed" THEN "pass" ELSE IF value = "denied" THEN "fail" ELSE "review"

Verdicts(r, job, data) ==
    {PayVerdict(r, job, data)}
      \cup (IF NeedsAuthorization(r)
              THEN {IF data.restrictions[f] = "required" THEN "fail" ELSE "review" :
                      f \in {g \in Restrictions : data.restrictions[g] # "none"}} ELSE {})
      \cup (IF r.authorization \notin {"none", "unrestricted"}
              THEN {TrainingVerdict(data.policies[r.authorization])} ELSE {})
      \cup (IF r.future THEN {FutureVerdict(job, data)} ELSE {})
      \cup (IF r.places # AnyPlace /\ job.place \notin r.places THEN {"review"} ELSE {})

Evaluate(r, job, data) ==
    IF job.closed THEN "excluded"
    ELSE IF ~Configured(r) \/ ~job.us \/ Status # "complete" \/ job.check # "current" THEN "review"
    ELSE LET verdicts == Verdicts(r, job, data)
         IN  IF "fail" \in verdicts THEN "excluded"
             ELSE IF "review" \in verdicts THEN "review" ELSE "matches"

-----------------------------------------------------------------------------
(* bucket_expression(): the same in SQL, where an absent value is NULL and   *)
(* comparisons with it are neither true nor false.                           *)

Lit(b) == IF b THEN "true" ELSE "false"
Eq(value, other, absent) == IF value = absent THEN "null" ELSE Lit(value = other)
Or(S) == IF "true" \in S THEN "true" ELSE IF "null" \in S THEN "null" ELSE "false"
And(S) == IF "false" \in S THEN "false" ELSE IF "null" \in S THEN "null" ELSE "true"
Not(v) == CASE v = "true" -> "false" [] v = "false" -> "true" [] OTHER -> "null"

\* without a check every column of it is NULL
Fresh(job) ==
    And({IF job.check = "none" THEN "null" ELSE Lit(Status = "complete"),
         IF job.check = "none" THEN "null" ELSE Lit(job.check = "current"), Lit(job.us)})

RestrictionFails(data) == Or({Eq(data.restrictions[f], "required", "none") : f \in Restrictions})
RestrictionReviews(data) ==
    {And({Lit(data.restrictions[f] # "none"), Not(Eq(data.restrictions[f], "required", "none"))}) :
       f \in Restrictions}

FutureFailed_Stated(data) == Lit(data.policies["future_sponsorship"] = "denied")      \* mutant
FutureFailed(data) ==
    Lit(\/ data.policies["future_sponsorship"] = "denied"
        \/ data.policies["future_sponsorship"] = "unknown" /\ data.policies["sponsorship"] = "denied")

\* _company_has_recent_h1b(): one record that is recent and counts
FiledInSql(records) == \E x \in records :
    x.kind \in {"h1b_filings", "h1b_approvals"} /\ x.year >= RecentYear /\ x.count >= 1

FutureSatisfied(job, data) ==
    LET future == data.policies["future_sponsorship"]
        now == data.policies["sponsorship"]
    IN  Or({Lit(future = "allowed"),
            And({Lit(future = "unknown"),
                 Not(Or({Lit(data.restrictions[f] # "none") : f \in Restrictions})),
                 Or({Lit(now = "allowed"),
                     And({Lit(now = "unknown"),
                          Lit(FiledInSql(job.records))})})})})

Unbounded(comparable) == Lit(\E p \in comparable : p.high = NoAmount)

PayFails(r, job, data) ==
    LET comparable == Applicable(r, job, data)
    IN  And({Lit(comparable # {}), Lit(~\E p \in comparable : Amount(p) >= Floor(r, job)),
             Not(Unbounded(comparable)), Lit(~data.conflicting)})

PayReviews(r, job, data) ==
    LET comparable == Applicable(r, job, data)
    IN  Or({Lit(data.conflicting), Lit(comparable = {}),
            And({Lit(~\E p \in comparable : Amount(p) >= Floor(r, job)), Unbounded(comparable)})})

Failures(r, job, data) ==
    (IF NeedsAuthorization(r) THEN {RestrictionFails(data)} ELSE {})
      \cup (IF r.authorization \notin {"none", "unrestricted"}
              THEN {Lit(data.policies[r.authorization] = "denied")} ELSE {})
      \cup (IF r.future THEN {FutureFailed(data)} ELSE {})
      \cup (IF Floor(r, job) # NoAmount THEN {PayFails(r, job, data)} ELSE {})

Reviews(r, job, data) ==
    (IF NeedsAuthorization(r) THEN RestrictionReviews(data) ELSE {})
      \cup (IF r.authorization \notin {"none", "unrestricted"}
              THEN {Lit(data.policies[r.authorization] \notin {"allowed", "denied"})} ELSE {})
      \cup (IF r.future THEN {And({Not(FutureFailed(data)), Not(FutureSatisfied(job, data))})} ELSE {})
      \cup (IF r.places # AnyPlace THEN {Lit(job.place \notin r.places)} ELSE {})
      \cup (IF Floor(r, job) # NoAmount THEN {PayReviews(r, job, data)} ELSE {})

Bucket(r, job, data) ==
    IF ~Configured(r) THEN (IF job.closed THEN "excluded" ELSE "review")
    ELSE CASE job.closed -> "excluded"
           [] ~job.closed /\ Fresh(job) # "true" -> "review"
           [] OTHER -> IF Or(Failures(r, job, data)) = "true" THEN "excluded"
                       ELSE IF Or(Reviews(r, job, data)) = "true" THEN "review" ELSE "matches"

-----------------------------------------------------------------------------
(* Pages gain a statement or a pay.                                          *)

Size == FoldLeft(LAMBDA n, d : n + Cardinality(d.statements) + Cardinality(d.pays), 0,
                 [u \in Url |-> documents[u]])

Publish(u, s) ==
    /\ Size < MaxStatements /\ s \notin documents[u].statements
    /\ documents' = [documents EXCEPT ![u].statements = @ \cup {s}]

Advertise(u, p) ==
    /\ Size < MaxStatements /\ p \notin documents[u].pays
    /\ documents' = [documents EXCEPT ![u].pays = @ \cup {p}]

ScreeningNext == \E u \in Url :
    \/ \E s \in Statement : Publish(u, s)
    \/ \E p \in Pay : Advertise(u, p)

ScreeningSpec == ScreeningInit /\ [][ScreeningNext]_documents

-----------------------------------------------------------------------------
(* Properties                                                                *)

RoleDocuments == {documents[u] : u \in {v \in Url : documents[v].kind # "company_policy"}}
Said(field) == UNION {Stated(d, field) : d \in RoleDocuments}

(* "SQL equivalent of evaluate": the bucket a listing filters and counts by  *)
(* is the one each item of it shows, for every profile, posting and page.    *)
SqlAgrees == LET data == Reconciled IN
    \A r \in Profile, job \in Posting : Evaluate(r, job, data) = Bucket(r, job, data)

(* "Conflicting restriction statements remain conflicting across documents,  *)
(* independent of source ordering", and so do policies: folding documents    *)
(* one by one gives what their statements say together.                      *)
ReconciledIsUnion == Status = "complete" => LET data == Reconciled IN
    /\ \A f \in Policies : data.policies[f] = Agreed(Said(f), "unknown")
    /\ \A f \in Restrictions : data.restrictions[f] = Agreed(Said(f), "none")

(* A match of a profile that needs authorization has nothing against it on   *)
(* any role document of the check: no exception, no conflict, no restriction *)
(* and no cut-off page behind which one could be.                            *)
MatchIsUndisputed == LET data == Reconciled IN \A r \in Profile, job \in Posting :
    Evaluate(r, job, data) = "matches" /\ NeedsAuthorization(r) =>
        /\ \A d \in RoleDocuments : d.complete
        /\ \A d \in RoleDocuments, s \in Statement :
              s \in d.statements /\ ~s.question /\ s.topic \in {r.authorization} \cup Restrictions
                => s.says = "allowed" /\ ~s.hedged

(* "Unknown/conditional/conflicting evidence appears in Needs review": an    *)
(* open posting is excluded only by what a page says without any hedge.      *)
ExclusionIsStated == LET data == Reconciled IN \A r \in Profile, job \in Posting :
    Evaluate(r, job, data) = "excluded" /\ ~job.closed =>
        \/ \E d \in RoleDocuments, s \in Statement :
              s \in d.statements /\ s.says \in {"denied", "required"} /\ ~s.hedged /\ ~s.question
        \/ \A p \in Applicable(r, job, data) : p.high # NoAmount /\ p.high < Floor(r, job)

\* what evaluate() takes for support of future sponsorship: a page that offers it, or,
\* with no restriction stated and nothing said of the future, a page that sponsors at
\* all, or recent filings where no page speaks of sponsorship either
FutureIsSupported(job) ==
    \/ Said("future_sponsorship") = {"allowed"}
    \/ /\ Said("future_sponsorship") = {} /\ \A f \in Restrictions : Said(f) = {}
       /\ \/ Said("sponsorship") = {"allowed"}
          \/ Said("sponsorship") = {} /\ Filed(job.records)

PayReaches(r, job) == \E d \in RoleDocuments : \E p \in d.pays :
    /\ p.component = "base" /\ p.period = Period(job.kind) /\ p.us
    /\ Amount(p) >= Floor(r, job)

(* Each requirement of a matching profile has support of its own: training   *)
(* that the role documents allow and nothing else, a base pay on one of them *)
(* that reaches the floor; future sponsorship also by a page that sponsors   *)
(* without speaking of the future or, where the pages are silent, by filings.*)
MatchIsSupported == LET data == Reconciled IN \A r \in Profile, job \in Posting :
    Evaluate(r, job, data) = "matches" =>
        /\ r.authorization = "cpt" => Said("cpt") = {"allowed"}
        /\ r.future => FutureIsSupported(job)
        /\ Floor(r, job) # NoAmount => PayReaches(r, job)

(* "Employer filings and aggregator flags never establish a match" and       *)
(* "sponsorship without explicit future timing does not establish future     *)
(* support": a match that needs future sponsorship has a page that states it.*)
SupportIsExplicit == LET data == Reconciled IN \A r \in Profile, job \in Posting :
    Evaluate(r, job, data) = "matches" /\ r.future => Said("future_sponsorship") = {"allowed"}

(* From statements to the bucket of a posting: both implementations agree,   *)
(* order does not count, an exclusion rests on a page, and a match has       *)
(* support for each requirement and no page against it.                      *)
VerdictsAreFounded ==
    /\ SqlAgrees
    /\ ReconciledIsUnion
    /\ MatchIsUndisputed
    /\ MatchIsSupported
    /\ ExclusionIsStated
=============================================================================
