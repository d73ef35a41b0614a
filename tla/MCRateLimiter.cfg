CONSTANTS
    Sessions = {s1, s2}
    Global = Global
    Cost = 2
    GlobalRate = 2
    GlobalCapacity = 5
    SessionRate = 1
    SessionCapacity = 3
    Adjustments <- MCAdjustments
    MaxClock = 5
    MaxWait = 4
    MaxBack = 4
SYMMETRY MCSymmetry
SPECIFICATION Spec
INVARIANTS
    TypeOK
    WindowBound
    DebtBounded
PROPERTIES
    ImplementsBuckets
