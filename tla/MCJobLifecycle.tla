--------------------------- MODULE MCJobLifecycle ---------------------------
(* Small sources for JobLifecycle: three ATS postings (two of one tenant, one *)
(* of another) and an aggregator's redirect, which exposes no identity.       *)
EXTENDS JobLifecycle

CONSTANTS a1, a2, b1, tenantA, tenantB, p1, p2

Links == {"a1", "a2", "b1", "site", "redirect"}
LinkIdentity == [u \in Links |-> CASE u = "a1" -> a1 [] u = "a2" -> a2 [] u = "b1" -> b1
                                    [] OTHER -> NoIdentity]
LinkRank == [u \in Links |-> CASE u = "redirect" -> 1 [] u = "site" -> 3 [] OTHER -> 4]
Tenant == [i \in {a1, a2, b1} |-> IF i = b1 THEN tenantB ELSE tenantA]
TwoNames == [p \in Pass |-> IF p = p1 THEN "Acme" ELSE "ACME"]

Says(source, url, closed, date) ==
    [source |-> source, row |-> 1, url |-> url, closed |-> closed, date |-> date,
     own |-> NoIdentity]

\* boards and feeds list open jobs only; the Simplify tables list both
Board == {Says("greenhouse", "a1", FALSE, 0), Says("greenhouse", "a1", FALSE, 2),
          Says("greenhouse", "a2", FALSE, 2)}
Branded == {[Says("greenhouse", "site", FALSE, 2) EXCEPT !.own = a2]}
Feeds == {Says("applyguy", u, FALSE, 1) : u \in {"b1", "redirect"}}
Table == {Says("simplify_github", "a1", TRUE, 1), Says("simplify_github", "redirect", FALSE, 1)}

AllSources == Board \cup Branded \cup Feeds \cup Table
=============================================================================
