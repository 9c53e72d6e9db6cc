\* What holds of the per-plan state under nesting and errors.
CONSTANTS
    Rel = {r1, r2}
    Proc = {p1, p2}
    Absent = Absent
    Freed = Freed
    MaxStack = 9
SPECIFICATION Spec
SYMMETRY Symmetric
INVARIANTS TypeOK CleanBetweenPlans GuardHeldByHook
PROPERTY NoConflictingBorrow
