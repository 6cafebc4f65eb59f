------------------------------ MODULE MCParts ------------------------------
(* Instances for TLC of components that share no state and promise only what *)
(* never happens, one part of the state space each.                          *)
EXTENDS MCScreening, AdvertisedFacts, EvidenceCollection, Admission, ReadmeTables,
        OccurrenceMigration, Trackers, EmployerHistory, LocationReconciliation,
        JobPublication, Deployment, MCIngestion, GitHubReads, Throttle

VARIABLE part

Line(topic, negative) == [topic |-> topic, negative |-> negative, positive |-> TRUE,
                          conditional |-> FALSE, question |-> FALSE, future |-> FALSE]
Row(lines, markers, ranges, text) ==
    [lines |-> lines, markers |-> markers, ranges |-> ranges, text |-> text, us |-> TRUE]
DollarPay == [amount |-> 50, period |-> "hour", currency |-> "$"]
Rows ==
    {Row(<<>>, {"no_sponsorship", "citizens"}, {}, {DollarPay}),
     Row(<<Line("sponsorship", TRUE)>>, {}, {}, {}),
     Row(<<[Line("sponsorship", FALSE) EXCEPT !.future = TRUE], Line("cpt", FALSE)>>, {},
         {[amount |-> 60, periods |-> {"hour"}, currency |-> "USD"]}, {}),
     Row(<<Line("sponsorship", FALSE), Line("sponsorship", TRUE)>>, {}, {}, {DollarPay})}
Sources == {"greenhouse", "lever", "github_markdown", "simplify_github"}
Observations ==
    {o \in [source : Sources, at : 1 .. 3, payload : Rows] :
       o.source \in {"github_markdown", "simplify_github"} => o.at = 2}

Record(url, title, company, describes) ==
    [url |-> url, title |-> title, company |-> company, describes |-> describes]
Records ==
    {<<>>, <<Record(TRUE, TRUE, TRUE, "long")>>, <<Record(TRUE, TRUE, TRUE, "short")>>,
     <<Record(TRUE, TRUE, FALSE, "long")>>, <<Record(FALSE, TRUE, TRUE, "long")>>,
     <<Record(TRUE, TRUE, TRUE, "long"), Record(TRUE, TRUE, TRUE, "long")>>,
     <<Record(TRUE, FALSE, TRUE, "long"), Record(TRUE, TRUE, TRUE, "barrier")>>}
PolicyLink == [local |-> TRUE, policy |-> TRUE, itself |-> FALSE]
Links ==
    {<<>>, <<PolicyLink, PolicyLink, PolicyLink>>,
     <<[PolicyLink EXCEPT !.local = FALSE], [PolicyLink EXCEPT !.itself = TRUE], PolicyLink>>}

Rates == [aggregate |-> [rate |-> 2, burst |-> 2], ingress |-> [rate |-> 1, burst |-> 1],
          public |-> [rate |-> 2, burst |-> 1], private |-> [rate |-> 2, burst |-> 1]]

Written(company, shape, linked) == [company |-> company, shape |-> shape, linked |-> linked]
TableRows ==
    {Written("A", "pipe", TRUE), Written("same", "pipe", TRUE), Written("B", "pipe", FALSE),
     Written("B", "tag", TRUE), Written("A", "spread", TRUE), Written("same", "spread", TRUE),
     Written("B", "open", TRUE), Written("B", "header", FALSE)}

OldDeliveries == {[kind |-> "recap", jobs |-> <<7, 3, 2>>], [kind |-> "alert", jobs |-> <<4>>]}

Model(state, jobs) == [state |-> state, jobs |-> jobs]
Found(url, number) == [url |-> url, version |-> number, stated |-> TRUE]
ModelReplies ==
    {Model("read", {}), Model("read", {Found("x", 1)}), Model("read", {Found("x", 2), Found("y", 1)}),
     Model("partial", {Found("y", 1)})}
Hop(kind, links) == [kind |-> kind, public |-> TRUE, links |-> links]
Chains ==
    {<<Hop("page", {"x", "y"})>>, <<Hop("redirect", {}), Hop("page", {"x"})>>, <<Hop("error", {})>>}

Legal(letters, key) == [letters |-> letters, key |-> key]
Employers == {Legal("acme", "acme"), Legal("beta inc", "beta"), Legal("beta llc", "beta")}
Disclosed(name, case, status) ==
    [visa |-> "H-1B", status |-> status, name |-> name, case |-> case]
DisclosureRows ==
    {Disclosed(Legal("acme corp", "acme"), 1, "certified"),
     Disclosed(Legal("acme inc", "acme"), 1, "certified"),
     Disclosed(Legal("acme inc", "acme"), 2, "certified"),
     Disclosed(Legal("beta corp", "beta"), 3, "certified"),
     Disclosed(Legal("beta inc", "beta"), 4, "certified"),
     Disclosed(Legal("beta labs", "beta labs"), 4, "denied")}
Years == <<2023, 2024, 2024>>
Aliases == [n \in {Legal("beta labs", "beta labs")} |-> Legal("beta llc", "beta")]

\* locations: two of the strongest sources, one weaker, two nobody knows
Tiers == <<3, 3, 1, 0, 0>>

\* one host is served faster than the others
Speeds ==
    [h \in Host |-> IF h = CHOOSE x \in Host : TRUE
                     THEN [rate |-> 2, capacity |-> 3] ELSE [rate |-> 1, capacity |-> 1]]

screening == <<documents>>
facts == <<details, told>>
collection == <<target, stage, landing, collected, failure>>
services == <<screening, facts, collection, admission, file>>
records == <<migration, trackers, employerHistory, locations, publication, deployment>>
sources == <<ingestion, reads, throttle>>

\* one initial state for a part that is not explored
Init ==
    /\ part \in {"screening", "facts", "collection", "admission", "readme",
             "migration", "trackers", "history", "places",
             "publication", "deployment", "ingestion", "reads", "throttle"}
    /\ ScreeningInit /\ (part # "screening" => \A u \in Url : ~documents[u].complete)
    /\ FactsInit /\ ReadmeInit /\ TrackersInit /\ EmployerHistoryInit
    /\ LocationsInit /\ PublicationInit /\ ThrottleInit
    /\ CollectionInit /\ (part # "collection" => target = [provider |-> "lever", listed |-> TRUE])
    /\ AdmissionInit /\ (part # "admission" => rollout = "enforce")
    /\ DeploymentInit /\ (part # "deployment" => disk.at = 1)
    /\ IngestionInit /\ (part # "ingestion" => readme = <<<<>>>>)
    /\ GitHubReadsInit /\ (part # "reads" => branch = 1)
    /\ MigrationInit /\ (part # "migration" => event = {})

ServicesNext ==
    \/ /\ part = "screening"
       /\ ScreeningNext
       /\ UNCHANGED <<facts, collection, admission, file>>
    \/ /\ part = "facts"
       /\ FactsNext
       /\ UNCHANGED <<screening, collection, admission, file>>
    \/ /\ part = "collection"
       /\ CollectionNext
       /\ UNCHANGED <<screening, facts, admission, file>>
    \/ /\ part = "admission"
       /\ AdmissionNext
       /\ UNCHANGED <<screening, facts, collection, file>>
    \/ /\ part = "readme"
       /\ ReadmeNext
       /\ UNCHANGED <<screening, facts, collection, admission>>

RecordsNext ==
    \/ /\ part = "migration"
       /\ MigrationNext
       /\ UNCHANGED <<trackers, employerHistory, locations, publication, deployment>>
    \/ /\ part = "trackers"
       /\ TrackersNext
       /\ UNCHANGED <<migration, employerHistory, locations, publication, deployment>>
    \/ /\ part = "history"
       /\ EmployerHistoryNext
       /\ UNCHANGED <<migration, trackers, locations, publication, deployment>>
    \/ /\ part = "places"
       /\ LocationsNext
       /\ UNCHANGED <<migration, trackers, employerHistory, publication, deployment>>
    \/ /\ part = "publication"
       /\ PublicationNext
       /\ UNCHANGED <<migration, trackers, employerHistory, locations, deployment>>
    \/ /\ part = "deployment"
       /\ DeploymentNext
       /\ UNCHANGED <<migration, trackers, employerHistory, locations, publication>>

SourcesNext ==
    \/ /\ part = "ingestion"
       /\ IngestionNext
       /\ UNCHANGED <<reads, throttle>>
    \/ /\ part = "reads"
       /\ GitHubReadsNext
       /\ UNCHANGED <<ingestion, throttle>>
    \/ /\ part = "throttle"
       /\ ThrottleNext
       /\ UNCHANGED <<ingestion, reads>>

Next ==
    /\ UNCHANGED part
    /\ \/ ServicesNext /\ UNCHANGED <<records, sources>>
       \/ RecordsNext /\ UNCHANGED <<services, sources>>
       \/ SourcesNext /\ UNCHANGED <<services, records>>

Spec == Init /\ [][Next]_<<part, services, records, sources>>
=============================================================================
