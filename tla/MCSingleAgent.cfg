CONSTANTS
    t1 = t1
    t2 = t2
    Threads <- MCThreads
    Totals <- MCTotals
    MaxTurn = 17
SPECIFICATION FairSpec
INVARIANTS
    TypeOK
    QuestionsWithinTotal
    StageShare
    IndexBounded
PROPERTIES
    StageOrder
    ImplementsSharedContract
    ReportComes
