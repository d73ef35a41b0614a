CONSTANTS
    Sessions = {s1}
    Threads = {t1, t2, t3}
    Gone = Gone
    MaxTurn = 3
    MaxCoded = 1
SYMMETRY Symmetry
SPECIFICATION Spec
INVARIANTS TypeOK AnsweredSurvives EndedIsNotResumed
PROPERTIES ImplementsDurableSessions
