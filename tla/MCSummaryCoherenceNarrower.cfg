\* The claim that a cached summary is never narrower than the data.
CONSTANTS
    Backend = {b1, b2}
    Key = {k1, k2}
    NotCached = NotCached
    MaxFrames = 2
    MaxRows = 3
SPECIFICATION Spec
SYMMETRY Symmetric
INVARIANTS CacheNeverNarrower
