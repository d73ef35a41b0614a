----------------------------- MODULE MCInterview -----------------------------
(* Two technical interviewers and one without sub-stages, in configurations *)
(* that end at the total, at the last interviewer, or at once.              *)
EXTENDS Interview

MCTech   == {"tech1", "tech2"}
MCAgents == {"tech1", "tech2", "hr"}

NoLimits == [s \in Stages |-> 0]
One      == [chat |-> 1, coding |-> 1, reflect |-> 1]
Wide     == [chat |-> 1, coding |-> 2, reflect |-> 1]

MCConfig(rounds, total, tech, hr, legacy) ==
    [ rounds   |-> rounds,
      total    |-> total,
      maxTurns |-> [a \in MCAgents |-> IF a \in MCTech THEN tech ELSE hr],
      legacy   |-> [a \in MCAgents |-> legacy],
      limits   |-> [a \in MCAgents |-> NoLimits] ]

MCConfigs ==
    { MCConfig(<<"tech1", "hr">>, 5, 3, 2, One),       \* the total is the sum
      MCConfig(<<"tech1", "tech2">>, 6, 2, 1, One),    \* room to spare: ends at the last
      MCConfig(<<"hr", "tech2">>, 6, 5, 2, Wide),      \* several rounds of sub-stages
      MCConfig(<<"tech1", "tech2", "hr">>, 4, 1, 1, One),
      MCConfig(<<"hr", "tech1">>, 5, 3, 1, One),       \* a first interviewer with one turn
      MCConfig(<< >>, 3, 1, 1, One) }                  \* nothing enabled

=============================================================================
