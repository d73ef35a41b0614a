------------------------------ MODULE MCStreams ------------------------------
(* Two streams at a time and one submission.                                *)
EXTENDS Streams

CONSTANTS r1, r2, s1

MCTech   == {"tech1", "tech2"}
MCAgents == {"tech1", "tech2", "hr"}

MCReaders    == {r1, r2}
MCSubmitters == {s1}

NoLimits == [s \in Stages |-> 0]
One      == [chat |-> 1, coding |-> 1, reflect |-> 1]

MCConfig(rounds, total, tech, hr) ==
    [ rounds   |-> rounds,
      total    |-> total,
      maxTurns |-> [a \in MCAgents |-> IF a \in MCTech THEN tech ELSE hr],
      legacy   |-> [a \in MCAgents |-> One],
      limits   |-> [a \in MCAgents |-> NoLimits] ]

MCConfigs ==
    { MCConfig(<<"tech1", "hr">>, 3, 3, 2),      \* ends at the total
      MCConfig(<<"tech1", "hr">>, 4, 2, 1),      \* ends at the last interviewer
      MCConfig(<<"tech1", "tech2">>, 3, 1, 1),   \* two interviewers with sub-stages
      MCConfig(<<"hr", "tech2">>, 3, 2, 1),      \* the total is the sum
      MCConfig(<< >>, 3, 1, 1) }
=============================================================================
