CONSTANTS
    Agents <- MCAgents
    Tech <- MCTech
    Configs <- MCConfigs
    MaxTurn = 5
    NoAgent = NoAgent
    NoTask = NoTask
    Scribe = Scribe
    r1 = r1
    r2 = r2
    s1 = s1
    Readers <- MCReaders
    Submitters <- MCSubmitters
SPECIFICATION StreamsFairSpec
INVARIANTS
    StreamsTypeOK
    OverlapWithinTotal
    OverlapMetered
    EndsOnlyWhenSpent
PROPERTIES
    EndIsFinal
    ImplementsSharedContract
    AllStreamsEnd
CHECK_DEADLOCK FALSE
