SPECIFICATION Spec
CONSTANTS
    d1 = d1
    d2 = d2
    Sessions = {d1, d2}
    Total <- Equal
    Labelable <- EqualLabelable
    None = none
    Torn = torn
    MaxTroubles = 1
INVARIANT CursorCovered
