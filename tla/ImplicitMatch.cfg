\* Pages that say nothing or offer sponsorship at no stated time, and an employer that
\* filed in a recent year.
SPECIFICATION ScreeningSpec
CONSTANTS
    Statement <- Statements
    Pay <- Pays
    Profile <- Profiles
    Posting <- Postings
    Kinds <- ThreeKinds
    MaxStatements = 2
    RecentYear = 2023
    NoAmount <- Minus
    AnyPlace <- Anywhere
INVARIANTS
    SupportIsExplicit
