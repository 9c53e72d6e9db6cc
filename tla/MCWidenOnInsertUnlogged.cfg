\* As MCWidenOnInsert, for an unlogged table: a crash leaves no metapage, and
\* under fairness.
CONSTANTS
    Value <- MCValue
    Text <- MCText
    Collation = {"C"}
    Rank <- MCRank
    DatumToText <- MCDatumToText
    TextToDatum <- MCTextToDatum
    Null = Null
    None = None
    Column = {1}
    IndexCollation <- MCIndexCollation
    Supported = {1}
    TextLen <- MCTextLen
    Room = 7
    Backend = {b1, b2}
    Slot = {1, 2}
    Input <- MCInput
    NoTuple = NoTuple
    Idle = Idle
    NoPage = NoPage
    OtherFormat = OtherFormat
    Logged = FALSE
    WalBuffers = 1
SPECIFICATION FairSpec
INVARIANTS PageCovers
PROPERTIES InsertReturns
