\* Everything the README promises, minus the rows that widened nothing.
CONSTANTS
    Backend = {b1, b2}
    Key = {k1, k2}
    NotCached = NotCached
    MaxFrames = 2
    MaxRows = 3
SPECIFICATION Spec
SYMMETRY Symmetric
INVARIANTS TypeOK CacheCoversWidened OwnRowsVisible
