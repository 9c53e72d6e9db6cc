\* What holds of queries, their snapshots and kept plans.
CONSTANTS
    Backend = {b1, b2}
    Planner = {b1}
    Key = {k1}
    NotCached = NotCached
    NoSnapshot = NoSnapshot
    MaxFrames = 2
    MaxRows = 2
SPECIFICATION QuerySpec
INVARIANTS QueryTypeOK PlanCoversHeard KeptPlanCovers
