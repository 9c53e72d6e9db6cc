\* The same column twice, under two collations.
CONSTANTS
    Value <- MCValue
    Text <- MCText
    Collation = {"C", "en"}
    Rank <- MCRank
    DatumToText <- MCDatumToText
    TextToDatum <- MCTextToDatum
    Null = Null
    None = None
    AttNums <- MCAttNums
    IndexCollation <- MCIndexCollation
    Input <- MCInput
    Inserts = 3
SPECIFICATION Spec
INVARIANTS NeverTooNarrow
CHECK_DEADLOCK FALSE
