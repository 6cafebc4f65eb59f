----------------------------- MODULE MCScreening -----------------------------
(* Pages, profiles and postings of Screening for TLC.                        *)
EXTENDS Screening

Plain(topic, says) == [topic |-> topic, says |-> says, hedged |-> FALSE, question |-> FALSE,
                       future |-> FALSE, now |-> FALSE]
Statements ==
    {Plain("cpt", "allowed"), Plain("cpt", "denied"),
     [Plain("cpt", "allowed") EXCEPT !.hedged = TRUE],
     [Plain("cpt", "denied") EXCEPT !.question = TRUE],
     Plain("sponsorship", "allowed"), Plain("sponsorship", "denied"),
     [Plain("sponsorship", "allowed") EXCEPT !.future = TRUE],
     [Plain("sponsorship", "denied") EXCEPT !.future = TRUE, !.now = TRUE],
     Plain("citizenship_required", "required"),
     [Plain("citizenship_required", "required") EXCEPT !.hedged = TRUE]}

Salary(low, high) == [low |-> low, high |-> high, currency |-> "USD", period |-> "year",
                      component |-> "base", place |-> "a", us |-> TRUE]
Pays == {Salary(80, 120), Salary(80, -1), [Salary(60, 70) EXCEPT !.place = "b"],
         [Salary(30, 40) EXCEPT !.period = "hour"]}

Needs(auth, future, places, annual) ==
    [authorization |-> auth, future |-> future, places |-> places, hourly |-> 50, annual |-> annual]
Profiles ==
    {Needs("cpt", FALSE, {}, -1), Needs("none", TRUE, {}, -1), Needs("unrestricted", FALSE, {}, 100),
     Needs("none", FALSE, {"a"}, 75), [Needs("none", FALSE, {}, -1) EXCEPT !.hourly = -1]}

Shown(kind, check, records) ==
    [kind |-> kind, check |-> check, records |-> records, closed |-> FALSE, us |-> TRUE, place |-> "a"]
Filings == {[kind |-> "h1b_filings", count |-> 2, year |-> 2024]}
Postings ==
    {Shown("new_grad", "current", {}), Shown("new_grad", "current", Filings),
     Shown("internship", "current", {}), Shown("new_grad", "stale", {}),
     [Shown("new_grad", "none", {}) EXCEPT !.us = FALSE],
     [Shown("new_grad", "current", {}) EXCEPT !.closed = TRUE]}

ThreeKinds == <<"application", "company_policy", "posting">>
Anywhere == {}
Minus == -1
=============================================================================
