CONSTANTS
    Agents <- MCAgents
    Tech <- MCTech
    Configs <- MCConfigs
    MaxTurn = 8
    NoAgent = NoAgent
    NoTask = NoTask
    Scribe = Scribe
SPECIFICATION Spec
PROPERTY TurnsWithinTotal
