--------------------------- MODULE MCQuotaManager ---------------------------
(* Two interviewers, one with sub-stages; three configurations: legacy      *)
(* fields only, stage_turn_limits only, and both at once.                   *)
EXTENDS QuotaGrants

MCTech   == {"tech1"}
MCAgents == {"tech1", "hr"}

NoLimits == [s \in Stages |-> 0]

MCConfig(total, t, h, legacy, limits) ==
    [ rounds   |-> <<"tech1", "hr">>,
      total    |-> total,
      maxTurns |-> [a \in MCAgents |-> IF a = "tech1" THEN t ELSE h],
      legacy   |-> [a \in MCAgents |-> IF a = "tech1" THEN legacy ELSE LegacyDefault],
      limits   |-> [a \in MCAgents |-> IF a = "tech1" THEN limits ELSE NoLimits] ]

ShortLegacy == [chat |-> 1, coding |-> 1, reflect |-> 2]
ShortLimits == [chat |-> 1, coding |-> 1, reflect |-> 2, done |-> 1]

MCConfigs ==
    { MCConfig(3, 2, 1, ShortLegacy, NoLimits),
      MCConfig(4, 2, 3, LegacyDefault, ShortLimits),
      MCConfig(3, 2, 1, [chat |-> 3, coding |-> 5, reflect |-> 1], ShortLimits) }
=============================================================================
