CONSTANTS
    Char <- Chars
    Text <- AllText
    Empty <- EmptyText
    Texts <- SetTexts
    Files <- AllFiles
    Edited <- EditFiles
    Loaded <- Parsed
    FieldDelims = {",", ";"}
    TextDelims <- Quotes
    MaxRows = 3
    MaxWidth = 3
    MaxFields = 4
SPECIFICATION Spec
INVARIANTS TypeOK SaveLoads
PROPERTIES KeepsSheet PlainFilesSplit
CHECK_DEADLOCK FALSE
