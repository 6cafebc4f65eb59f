------------------------- MODULE EvidenceCollection -------------------------
(***************************************************************************)
(* Collecting the public documents of one role (app/evidence/collect.py):  *)
(* the posting in the board's API, its landing page, perhaps rendered, and *)
(* the company policies linked there.                                      *)
(*                                                                         *)
(* One action per request and what follows it up to the next.  Pages are   *)
(* what the checks tell apart: where a redirect ended, whether the text is *)
(* long enough or a barrier, which JobPosting records it embeds, which     *)
(* links it has.  Their requests are those of Retrieval.                  *)
(***************************************************************************)
EXTENDS Integers, Sequences, FiniteSets

CONSTANTS
    Embedded,       \* lists of JobPosting records pages may embed
    Linked,         \* lists of links pages may have
    Renders         \* whether a renderer is configured: subset of BOOLEAN

\* records and links are told apart by what matching_posting() and the last
\* loop of _collect() compare
Texts == {"barrier", "short", "long"}
EmbeddedType == [url : BOOLEAN, title : BOOLEAN, company : BOOLEAN, describes : Texts]
LinkType == [local : BOOLEAN, policy : BOOLEAN, itself : BOOLEAN]

ASSUME PageAssumption ==
    /\ Renders \subseteq BOOLEAN
    /\ \A s \in Embedded : \A i \in 1 .. Len(s) : s[i] \in EmbeddedType
    /\ \A s \in Linked : \A i \in 1 .. Len(s) : s[i] \in LinkType

VARIABLES
    target,     \* [provider, listed: whether its URL is one the worker may read]
    stage,      \* the next request, or "done"
    landing,    \* the page being judged
    collected,  \* documents so far
    failure     \* code of the FetchError, "lost" for any other exception

Board == {"greenhouse", "lever"}
Namespaced == target.provider # "employer"
NoLanding == [from |-> "nowhere", final |-> "same", text |-> "short", embedded |-> <<>>, links |-> <<>>,
              rendered |-> FALSE]

CollectionInit ==
    /\ target \in [provider : Board \cup {"workday", "employer"}, listed : BOOLEAN]
    /\ stage = IF target.provider \in Board THEN "api" ELSE "page"
    /\ landing = NoLanding
    /\ collected = <<>>
    /\ failure = "none"

Document(kind, from, final, text) == [kind |-> kind, from |-> from, final |-> final, text |-> text]

Failed(code) == stage' = "done" /\ failure' = code
Done == stage' = "done" /\ failure' = "none"

-----------------------------------------------------------------------------
(* The posting in the API of Greenhouse or Lever.                            *)

\* where absolute_url, hostedUrl and applyUrl lead: the identity of the role,
\* the target's own URL on an employer's host, or elsewhere
Place == {"role", "branded", "elsewhere"}
ApiAnswer == [id : BOOLEAN, title : BOOLEAN, hosted : Place, apply : Place \cup {"absent"}, long : BOOLEAN]

ApiMatches(a) == a.id /\ a.title /\ a.hosted \in {"role", "branded"}

PageOf(a) ==
    IF target.provider = "greenhouse" \/ a.apply = "absent" THEN a.hosted ELSE a.apply

AskApi ==
    /\ stage = "api"
    /\ \/ Failed("unavailable") /\ UNCHANGED <<landing, collected>>
       \/ \E a \in ApiAnswer :
            LET posting == Document("posting", "api", "role", IF a.long THEN "long" ELSE "short")
            IN  IF ~ApiMatches(a) THEN Failed("mismatch") /\ UNCHANGED <<landing, collected>>
                ELSE /\ collected' = <<posting>>
                     /\ IF PageOf(a) = "role" \/ PageOf(a) = a.hosted
                          THEN /\ stage' = "page" /\ failure' = "none"
                               /\ landing' = [NoLanding EXCEPT !.from = PageOf(a)]
                          ELSE Failed("mismatch") /\ UNCHANGED landing
    /\ UNCHANGED target

-----------------------------------------------------------------------------
(* The landing page.                                                         *)

\* only a branded Greenhouse page may be missing, if the API told enough
MayBeMissing ==
    target.provider = "greenhouse" /\ landing.from # "role" /\ collected # <<>> /\ collected[1].text = "long"

\* where redirects ended: at the role, at its branded page, where the request
\* went, or at another posting
Final == {"role", "branded", "same", "elsewhere"}
Arrived(final) ==
    \/ final = "same"
    \/ final = "role" /\ Namespaced
    \/ final = "branded" /\ target.provider = "greenhouse"

GetPage ==
    /\ stage = "page"
    /\ IF target.provider \notin Board /\ ~target.listed
         THEN Failed("unreviewed") /\ UNCHANGED landing
         ELSE \/ /\ IF MayBeMissing THEN Done ELSE Failed("unavailable")
                 /\ UNCHANGED landing
              \/ Failed("unavailable") /\ UNCHANGED landing      \* a cooldown, a size, a redirect
              \/ \E final \in Final, text \in Texts,
                    embedded \in Embedded, links \in Linked :
                   IF ~Arrived(final) THEN Failed("mismatch") /\ UNCHANGED landing
                   ELSE IF text = "barrier" THEN Failed("barrier") /\ UNCHANGED landing
                   ELSE /\ landing' = [from |-> landing.from, final |-> final, text |-> text,
                                       embedded |-> embedded, links |-> links, rendered |-> FALSE]
                        /\ stage' \in IF text = "short" \/ embedded = <<>>
                                        THEN {IF r THEN "render" ELSE "judge" : r \in Renders}
                                        ELSE {"judge"}
                        /\ failure' = "none"
    /\ UNCHANGED <<target, collected>>

\* an error of the renderer is not a FetchError: documents so far are lost
Render ==
    /\ stage = "render"
    /\ \/ Failed("lost") /\ collected' = <<>> /\ UNCHANGED landing
       \/ Failed("mismatch") /\ UNCHANGED <<landing, collected>>
       \/ \E text \in Texts, embedded \in Embedded :
            /\ landing' = [landing EXCEPT !.text = text, !.embedded = embedded, !.rendered = TRUE]
            /\ stage' = "judge" /\ failure' = "none"
            /\ UNCHANGED collected
    /\ UNCHANGED target

-----------------------------------------------------------------------------
(* matching_posting() and what becomes of the page's text.                   *)

Owns(e) == e.url /\ e.title /\ (Namespaced \/ e.company)

Owners(embedded) == {i \in 1 .. Len(embedded) : Owns(embedded[i])}

Generic_First(embedded) == Owners(embedded) # {}      \* mutant
Generic(embedded) == Cardinality(Owners(embedded)) = 1

\* the description of one record, the role's part of a page, or both
JudgedText ==
    IF ~Namespaced THEN "described"
    ELSE IF Generic(landing.embedded) THEN "both" ELSE "scoped"

\* short texts together stay short
Judged ==
    LET description == IF Generic(landing.embedded)
                         THEN {landing.embedded[i].describes : i \in Owners(landing.embedded)} ELSE {}
        texts == description \cup (IF Namespaced THEN {landing.text} ELSE {})
    IN  IF "barrier" \in texts THEN "barrier" ELSE IF "long" \in texts THEN "long" ELSE "short"

\* document_too_large comes first: a text of any size but a short one may be
Judge ==
    /\ stage = "judge"
    /\ IF ~Namespaced /\ ~Generic(landing.embedded)
         THEN Failed("unverified") /\ UNCHANGED collected
       ELSE \/ Judged # "short" /\ Failed("too large") /\ UNCHANGED collected
            \/ Judged = "barrier" /\ Failed("barrier") /\ UNCHANGED collected
            \/ /\ Judged = "short" /\ UNCHANGED collected
               /\ IF MayBeMissing THEN Done ELSE Failed("unverified")
            \/ /\ Judged = "long"
               /\ collected' = Append(collected,
                    Document(IF target.provider = "lever" THEN "application" ELSE "posting",
                             "page", landing.final, JudgedText))
               /\ stage' = "policies" /\ failure' = "none"
    /\ UNCHANGED <<target, landing>>

\* links in order, until there are three documents
Full == Len(collected) >= 3

FollowLinks ==
    /\ stage = "policies"
    /\ LET wanted == {i \in 1 .. Len(landing.links) :
                        landing.links[i].local /\ landing.links[i].policy /\ ~landing.links[i].itself}
       IN  IF wanted = {} \/ Full THEN Done /\ UNCHANGED <<landing, collected>>
           ELSE LET next == CHOOSE i \in wanted : \A k \in wanted : i <= k IN
                \/ Failed("unavailable") /\ UNCHANGED <<landing, collected>>
                \/ Failed("mismatch") /\ UNCHANGED <<landing, collected>>
                \/ /\ collected' = Append(collected, Document("company_policy", "link", "same", "all"))
                   /\ landing' = [landing EXCEPT !.links =
                                    SubSeq(landing.links, next + 1, Len(landing.links))]
                   /\ UNCHANGED <<stage, failure>>
    /\ UNCHANGED target

CollectionNext == AskApi \/ GetPage \/ Render \/ Judge \/ FollowLinks

-----------------------------------------------------------------------------
(* Properties                                                                *)

\* finish() takes a check for complete if there are documents and no error
CheckComplete == stage = "done" /\ failure = "none" /\ collected # <<>>
RoleDocs == {i \in 1 .. Len(collected) : collected[i].kind # "company_policy"}

(* "Only that record's description supports facts", "unproven role scope     *)
(* requires review": whatever redirects, rendering and embedded records did, *)
(* a role document is of the API's posting, of the role's own page, or of    *)
(* the one record of a reviewed page that names URL, title and company.      *)
RoleTextOnly == \A i \in RoleDocs :
    \/ collected[i].from = "api"
    \/ /\ collected[i].from = "page" /\ collected[i].final # "elsewhere"
       /\ target.provider = "employer" =>
            /\ target.listed /\ collected[i].text = "described"
            /\ Cardinality({k \in 1 .. Len(landing.embedded) :
                  LET e == landing.embedded[k] IN e.url /\ e.title /\ e.company}) = 1

(* A complete check has read the landing page, unless the role is a branded  *)
(* Greenhouse page whose API told enough; every interruption after the first *)
(* document leaves the check incomplete.                                     *)
CompleteSawLanding == CheckComplete =>
    \/ \E i \in RoleDocs : collected[i].from = "page"
    \/ target.provider = "greenhouse" /\ landing.from = "branded" /\ collected[1].text = "long"

(* "Three documents maximum: exact role, public landing, directly linked     *)
(* company policy", in that order, whatever links a page has.                *)
ThreeAtMost ==
    /\ Len(collected) <= 3
    /\ \A i, k \in 1 .. Len(collected) :
         i < k /\ collected[i].kind = "company_policy" => collected[k].kind = "company_policy"
    /\ (\E i \in 1 .. Len(collected) : collected[i].kind = "company_policy") =>
         \E i \in RoleDocs : collected[i].from = "page"

(* What one collection hands over: documents of this role, the landing page  *)
(* if it is called complete, and not more than the limit.                    *)
CheckIsSound == RoleTextOnly /\ CompleteSawLanding /\ ThreeAtMost
=============================================================================
