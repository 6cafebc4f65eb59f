\* One file that lists a role once, with the links of two postings or with none.
SPECIFICATION IngestionSpec
CONSTANTS
    Role = {j1}
    SourceRow <- ListedRows
    MaxFiles = 1
    MaxPerFile = 1
    MaxEditions = 3
PROPERTIES
    ClosureStands
