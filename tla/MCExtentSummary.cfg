\* Ranges and geometries, three values scanned and any inserted.
CONSTANTS
    Point <- MCPoint
    Hull <- MCHull
    Shape <- MCShape
    Unrendered <- MCUnrendered
    TooLong <- MCTooLong
    Null = Null
    None = None
    GEOMETRY_BATCH = 2
    MaxRows = 3
SPECIFICATION Spec
INVARIANTS TypeOK PruneLosesNoRow ExtentIsExact ExtentIsOwned
