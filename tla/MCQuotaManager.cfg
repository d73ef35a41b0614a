CONSTANTS
    Agents <- MCAgents
    Tech <- MCTech
    Configs <- MCConfigs
    MaxTurn = 5
    MaxOldTurns = 2
SPECIFICATION GrantsSpec
INVARIANTS
    GrantsTypeOK
    RestartInvisible
    GrantedWithinLimits
PROPERTY NeverRefunded
