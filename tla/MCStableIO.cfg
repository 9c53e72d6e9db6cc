\* Only pinned settings matter.
CONSTANTS
    Setting = {"DateStyle", "extra_float_digits"}
    Pinned = {"DateStyle", "extra_float_digits"}
    Lossy = {"extra_float_digits"}
    Style = {"exact", "other"}
    Exact = "exact"
    MaxStack = 5
SPECIFICATION Spec
INVARIANTS TypeOK BoundReadsBack SettingsRestored
