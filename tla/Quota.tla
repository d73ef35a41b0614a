------------------------------- MODULE Quota -------------------------------
(***************************************************************************)
(* The turn quotas of an interview: the limits an InterviewConfig sets     *)
(* (protocol/schemas.py) and the arithmetic of TurnQuotaManager            *)
(* (orchestrator/quota.py) as operators on values.  A manager value is a   *)
(* record [global, agent, stage] of what remains at each level.  The       *)
(* dictionaries of the code are filled lazily; a missing key there always  *)
(* reads as the full limit, so they are total functions here.              *)
(***************************************************************************)
EXTENDS Integers, Sequences

CONSTANTS
    Agents,   \* every interviewer a configuration may name
    Tech      \* those with sub-stages ("tech1" and "tech2" in the code)

ASSUME TechAssumption == Tech \subseteq Agents

\* The sub-stages of state.py, in the order advance_sub_stage walks them.
StageOrder == <<"chat", "coding", "reflect", "done">>
Stages     == {"chat", "coding", "reflect", "done"}
Standard   == {"chat", "coding", "reflect"}
NoStage    == "none"

(***************************************************************************)
(* InterviewConfig.  "rounds" is what get_enabled_rounds returns (no agent *)
(* twice); "legacy" holds max_chat_turns, max_coding_turns and             *)
(* max_reflect_turns; "limits" holds stage_turn_limits, 0 standing for a   *)
(* stage that has no entry.                                                *)
(***************************************************************************)
Config ==
    [ rounds   : Seq(Agents),
      total    : Nat \ {0},
      maxTurns : [Agents -> Nat \ {0}],
      legacy   : [Agents -> [Standard -> Nat \ {0}]],
      limits   : [Agents -> [Stages -> Nat]] ]

NoRepeats(seq) == \A i, j \in 1 .. Len(seq) : seq[i] = seq[j] => i = j

\* Faulty variant: the clamp is forgotten.
NonNegUnclamped(n) == n

NonNeg(n) == IF n < 0 THEN 0 ELSE n     \* max(0, n)

LegacyDefault == [chat |-> 2, coding |-> 5, reflect |-> 1]
FallbackLimit == [chat |-> 2, coding |-> 5, reflect |-> 1, done |-> 2]

AgentLimit(cfg, a) == cfg.maxTurns[a]

\* TurnQuotaManager._get_stage_limit: a legacy field that differs from its
\* default wins over stage_turn_limits.
StageLimit(cfg, a, s) ==
    IF s \in Standard /\ cfg.legacy[a][s] # LegacyDefault[s]
    THEN cfg.legacy[a][s]
    ELSE IF cfg.limits[a][s] # 0 THEN cfg.limits[a][s] ELSE FallbackLimit[s]

\* The threshold at which the engine leaves a sub-stage by itself: it reads
\* the legacy fields only.
AdvanceLimit(cfg, a, s) == cfg.legacy[a][s]

(***************************************************************************)
(* The manager.                                                            *)
(***************************************************************************)
QuotaType == [ global : Nat, agent : [Agents -> Nat], stage : [Agents -> [Stages -> Nat]] ]
UsedType  == [ agent : [Agents -> Nat], stage : [Agents -> [Stages -> Nat]] ]

FullQuota(cfg) ==
    [ global |-> cfg.total,
      agent  |-> [a \in Agents |-> AgentLimit(cfg, a)],
      stage  |-> [a \in Agents |-> [s \in Stages |-> StageLimit(cfg, a, s)]] ]

NothingUsed ==
    [ agent |-> [a \in Agents |-> 0],
      stage |-> [a \in Agents |-> [s \in Stages |-> 0]] ]

\* Faulty variants of check: an exhausted agent, an exhausted interview pass.
CheckAgentBlind(q, a, s) ==
    IF q.global <= 0 THEN "FINISH"
    ELSE IF s # NoStage /\ q.stage[a][s] <= 0 THEN "ADVANCE_STAGE"
    ELSE "CONTINUE"

CheckGlobalBlind(q, a, s) ==
    IF q.agent[a] <= 0 THEN "SWITCH_AGENT"
    ELSE IF s # NoStage /\ q.stage[a][s] <= 0 THEN "ADVANCE_STAGE"
    ELSE "CONTINUE"

\* check: the first exhausted level, from the widest to the narrowest.
Check(q, a, s) ==
    IF q.global <= 0 THEN "FINISH"
    ELSE IF q.agent[a] <= 0 THEN "SWITCH_AGENT"
    ELSE IF s # NoStage /\ q.stage[a][s] <= 0 THEN "ADVANCE_STAGE"
    ELSE "CONTINUE"

\* Faulty variant: a refused turn does not count for the interview.
ConsumeGrantedOnly(q, a, s) ==
    [ global |-> IF Check(q, a, s) = "CONTINUE" THEN q.global - 1 ELSE q.global,
      agent  |-> [q.agent EXCEPT ![a] = NonNeg(@ - 1)],
      stage  |-> IF s = NoStage THEN q.stage
                 ELSE [q.stage EXCEPT ![a][s] = NonNeg(@ - 1)] ]

\* consume: every level loses one unit, whatever check said.
Consume(q, a, s) ==
    [ global |-> NonNeg(q.global - 1),
      agent  |-> [q.agent EXCEPT ![a] = NonNeg(@ - 1)],
      stage  |-> IF s = NoStage THEN q.stage
                 ELSE [q.stage EXCEPT ![a][s] = NonNeg(@ - 1)] ]

\* reset_stage_quota
ResetStage(cfg, q, a, s) == [q EXCEPT !.stage[a][s] = StageLimit(cfg, a, s)]

\* Faulty variant: the consumption of the sub-stages is not stored.
PersistAgentsOnly(cfg, q) ==
    [ agent |-> [a \in Agents |-> AgentLimit(cfg, a) - q.agent[a]],
      stage |-> [a \in Agents |-> [s \in Stages |-> 0]] ]

\* _persist_to_state: what InterviewState remembers of a manager.
Persist(cfg, q) ==
    [ agent |-> [a \in Agents |-> AgentLimit(cfg, a) - q.agent[a]],
      stage |-> [a \in Agents |-> [s \in Stages |-> StageLimit(cfg, a, s) - q.stage[a][s]]] ]

(***************************************************************************)
(* _restore_from_state: the manager a recovered session gets from the      *)
(* turn counter and the consumption stored in its state.  A session stored *)
(* before quotas existed has no consumption; its per-round turn counts     *)
(* stand in for it.  (The first unit an agent consumes makes the           *)
(* dictionary quota_consumed_agent non-empty, and every limit is positive, *)
(* so "empty" is "all zero".)                                              *)
(***************************************************************************)
Restore(cfg, turn, used, roundTurns) ==
    LET agentUsed == IF \A a \in Agents : used.agent[a] = 0 THEN roundTurns ELSE used.agent
    IN  [ global |-> NonNeg(cfg.total - turn),
          agent  |-> [a \in Agents |-> NonNeg(AgentLimit(cfg, a) - agentUsed[a])],
          stage  |-> [a \in Agents |-> [s \in Stages |->
                         NonNeg(StageLimit(cfg, a, s) - used.stage[a][s])]] ]
=============================================================================
