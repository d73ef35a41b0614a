CONSTANTS
    s1 = s1
    s2 = s2
    Submissions <- MCSubmissions
    Programs <- MCPrograms
SPECIFICATION FairSpec
INVARIANTS
    TypeOK
    NothingLeftBehind
    PassedMeansPassed
    RightFailsOnlyByTrouble
PROPERTIES
    EveryCodeAnswered
