CONSTANTS
    Agents <- MCAgents
    Tech <- MCTech
    Configs <- MCConfigs
    MaxTurn = 7
    NoAgent = NoAgent
    NoTask = NoTask
    Scribe = Scribe
SPECIFICATION FairSpec
INVARIANTS
    TypeOK
    QuestionsWithinTotal
    VisitOrder
    QuestionsMetered
PROPERTIES
    NoQuestionAfterFinish
    LeavesOnlyWhenSpent
    ImplementsContract
    ImplementsManager
    Terminates
CHECK_DEADLOCK FALSE
