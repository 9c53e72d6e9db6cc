\* Two sessions and two line pointers; room for three bytes of text.
CONSTANTS
    Value <- MCValue
    Text <- MCText
    Collation = {"C"}
    Rank <- MCRank
    DatumToText <- MCDatumToText
    TextToDatum <- MCTextToDatum
    Null = Null
    None = None
    Column = {1}
    IndexCollation <- MCIndexCollation
    Supported = {1}
    TextLen <- MCTextLen
    Room = 7
    Backend = {b1, b2}
    Slot = {1, 2}
    Input <- MCInput
    NoTuple = NoTuple
    Idle = Idle
    NoPage = NoPage
    OtherFormat = OtherFormat
    Logged = TRUE
    WalBuffers = 2
SPECIFICATION Spec
SYMMETRY Sessions
INVARIANTS TypeOK PageCovers RecoveryCovers PruneLosesNoRow
PROPERTIES NeverNarrows PromiseKept
