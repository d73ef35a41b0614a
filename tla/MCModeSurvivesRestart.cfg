CONSTANTS
    Sessions = {s1}
    Threads = {t1}
    Gone = Gone
    MaxTurn = 2
    MaxCoded = 0
SPECIFICATION Spec
INVARIANTS ModeSurvivesRestart
