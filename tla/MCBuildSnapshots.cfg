\* CREATE INDEX, REINDEX and DROP INDEX among five transactions.
CONSTANTS
    Key = {k1, k2}
    Reader = {r1, r2}
    MaxTime = 5
SPECIFICATION Spec
INVARIANTS TypeOK OlderSnapshotsCovered
SYMMETRY MCSymmetry
CHECK_DEADLOCK FALSE
