\* Pruning by trees of clauses.
CONSTANTS
    Value = {"a", "b", "c"}
    Text = {"a", "b", "c"}
    Collation = {"C", "en"}
    Rank <- MCRank
    DatumToText <- MCDatumToText
    TextToDatum <- MCTextToDatum
    Null = Null
    None = None
    Column = {1, 2}
    IndexCollation <- MCIndexCollation
    Supported = {1, 2}
    TextLen <- MCTextLen
    Room = 12
    Leaf <- MCLeaf
    Opaque <- MCOpaque
    CmpProc = {"own", "other"}
    OrderOf <- MCOrderOf
    HasNullField = {"b"}
    HasSetField = {"a", "b", "c"}
    Partition <- MCPartition
    NoQual = NoQual
    MaxRelabels = 1
    DepthLimit = 1
    MaxLeaves = 3
    MaxBools = 2
SPECIFICATION TreeSpec
INVARIANTS TreeTypeOK PruneLosesNoRow
CHECK_DEADLOCK FALSE
