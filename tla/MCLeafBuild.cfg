\* Any four of nine rows in any order; a byte has eight values, and the page
\* room for 13 bytes of bounds.
CONSTANTS
    Value <- MCValue
    Text <- MCText
    Collation = {"C", "en"}
    Rank <- MCRank
    DatumToText <- MCDatumToText
    TextToDatum <- MCTextToDatum
    Null = Null
    None = None
    Column = {1, 2, 3}
    IndexCollation <- MCIndexCollation
    Supported = {1, 2}
    TextLen <- MCTextLen
    Room = 13
    Radix = 8
    PageSize = 52
    max_blob_len = 49
    SUMMARY_VERSION = 2
    OtherVersion = {1, 3}
    Bytes <- MCBytes
    Described <- MCDescribed
    Input <- MCInput
    MaxRows = 4
    Failed = Failed
SPECIFICATION Spec
INVARIANTS TypeOK CoversRows PruneLosesNoRow StaysSelective InsertAlwaysFits
    ReadsBack BlobTellsSummary
PROPERTIES BuildIsExact GivesUpNoMoreThanNeeded
CHECK_DEADLOCK FALSE
