------------------------- MODULE QuotaManagerProofs -------------------------
(* Restarts, resets and refused turns cannot break the quotas: proofs about *)
(* modules QuotaManager and QuotaGrants, for every set of configurations    *)
(* and every bound.                                                         *)
EXTENDS QuotaGrants, QuotaLemmas

(***************************************************************************)
(* The inductive invariants.  What remains is within the limits and the    *)
(* live manager is the one a restart would build; what was let through     *)
(* plus what remains is within the limits.                                 *)
(***************************************************************************)
IInv ==
    /\ TypeOK
    /\ Within(config, quota)
    /\ RestartInvisible

Accounted ==
    /\ granted.all + quota.global <= config.total
    /\ \A a \in Agents : granted.agent[a] + quota.agent[a] <= AgentLimit(config, a)

GInv == IInv /\ GrantsTypeOK /\ Accounted

(* A manager restored from any state is within its limits.                  *)
LEMMA RestoreWithin ==
    ASSUME NEW cfg \in Config, NEW t \in Nat, NEW u \in UsedType,
           NEW rt \in [Agents -> Nat]
    PROVE  /\ Restore(cfg, t, u, rt) \in QuotaType
           /\ Restore(cfg, t, u, rt).global = NonNeg(cfg.total - t)
           /\ Within(cfg, Restore(cfg, t, u, rt))
<1> DEFINE r == Restore(cfg, t, u, rt)
           from == IF \A a \in Agents : u.agent[a] = 0 THEN rt ELSE u.agent
<1>1. /\ cfg.total \in Nat
      /\ u.agent \in [Agents -> Nat]
      /\ u.stage \in [Agents -> [Stages -> Nat]]
  BY DEF Config, UsedType
<1>2. \A n, m \in Nat : NonNeg(n - m) \in Nat /\ NonNeg(n - m) <= n
  BY DEF NonNeg
<1>3. from \in [Agents -> Nat]
  BY <1>1
<1>4. /\ r.global = NonNeg(cfg.total - t)
      /\ r.agent = [a \in Agents |-> NonNeg(AgentLimit(cfg, a) - from[a])]
      /\ r.stage = [a \in Agents |-> [s \in Stages |->
                       NonNeg(StageLimit(cfg, a, s) - u.stage[a][s])]]
      /\ r = [global |-> r.global, agent |-> r.agent, stage |-> r.stage]
  BY DEF Restore
<1>5. \A a \in Agents : /\ NonNeg(AgentLimit(cfg, a) - from[a]) \in Nat
                        /\ NonNeg(AgentLimit(cfg, a) - from[a]) <= AgentLimit(cfg, a)
  BY <1>2, <1>3, LimitsPositive
<1>6. \A a \in Agents, s \in Stages :
          /\ NonNeg(StageLimit(cfg, a, s) - u.stage[a][s]) \in Nat
          /\ NonNeg(StageLimit(cfg, a, s) - u.stage[a][s]) <= StageLimit(cfg, a, s)
  BY <1>1, <1>2, LimitsPositive
<1>7. r.global \in Nat
  BY <1>1, <1>2, <1>4
<1>8. r.agent \in [Agents -> Nat]
  BY <1>4, <1>5
<1>9. r.stage \in [Agents -> [Stages -> Nat]]
  BY <1>4, <1>6
<1>10. r \in QuotaType
  BY <1>4, <1>7, <1>8, <1>9 DEF QuotaType
<1>11. Within(cfg, r)
  <2>1. ASSUME NEW a \in Agents
        PROVE  r.agent[a] <= AgentLimit(cfg, a)
    <3>1. r.agent[a] = NonNeg(AgentLimit(cfg, a) - from[a])
      BY <1>4
    <3>2. QED
      BY <3>1, <1>5
  <2>2. \A a \in Agents, s \in Stages : r.stage[a][s] <= StageLimit(cfg, a, s)
    BY <1>4, <1>6
  <2>3. QED
    BY <2>1, <2>2 DEF Within
<1>12. QED
  BY <1>4, <1>10, <1>11

LEMMA InitIInv == Init => IInv
<1> SUFFICES ASSUME Init PROVE IInv
  OBVIOUS
<1>1. config \in Config /\ turn \in Nat /\ roundTurns \in [Agents -> Nat]
  BY QuotaConfigsAssumption, BoundsAssumption DEF Init
<1>2. used \in UsedType
  BY DEF Init, NothingUsed, UsedType
<1>3. /\ quota \in QuotaType
      /\ quota.global = NonNeg(config.total - turn)
      /\ Within(config, quota)
  BY <1>1, <1>2, RestoreWithin DEF Init
<1>4. TypeOK
  BY <1>1, <1>2, <1>3 DEF TypeOK, Init
<1>5. RestartInvisible
  BY DEF Init, RestartInvisible
<1>6. QED
  BY <1>3, <1>4, <1>5 DEF IInv

(* In a state of the invariant, a full manager was never charged with old   *)
(* per-round counts.                                                        *)
LEMMA FullMeansNoRounds ==
    ASSUME IInv, \A a \in Agents : quota.agent[a] = AgentLimit(config, a)
    PROVE  (\A a \in Agents : used.agent[a] = 0) /\ (\A a \in Agents : roundTurns[a] = 0)
<1> DEFINE from == IF \A b \in Agents : used.agent[b] = 0 THEN roundTurns ELSE used.agent
<1>1. /\ config \in Config
      /\ used.agent \in [Agents -> Nat]
      /\ roundTurns \in [Agents -> Nat]
  BY QuotaConfigsAssumption DEF IInv, TypeOK, UsedType
<1>2. \A a \in Agents : AgentLimit(config, a) = NonNeg(AgentLimit(config, a) - from[a])
  BY DEF IInv, RestartInvisible, Restore
<1>3. ASSUME NEW a \in Agents
      PROVE  from[a] = 0
  <2>1. AgentLimit(config, a) \in Nat \ {0} /\ from[a] \in Nat
    BY <1>1, LimitsPositive
  <2>2. QED
    BY <1>2, <2>1 DEF NonNeg
<1>4. CASE \A b \in Agents : used.agent[b] = 0
  BY <1>3, <1>4
<1>5. CASE ~ \A b \in Agents : used.agent[b] = 0
  <2>1. \A a \in Agents : used.agent[a] = 0
    BY <1>3, <1>5
  <2>2. QED
    BY <2>1, <1>5
<1>6. QED
  BY <1>4, <1>5

LEMMA MeterIInv ==
    ASSUME IInv, NEW a \in Agents, NEW s \in StagesOf(a), Meter(a, s)
    PROVE  IInv'
<1>1. /\ config \in Config /\ config' = config /\ config \in Configs
      /\ turn \in Nat /\ turn' = turn + 1 /\ quota \in QuotaType
      /\ s \in Stages \cup {NoStage}
  BY QuotaConfigsAssumption DEF IInv, TypeOK, Meter, StagesOf
<1>2. /\ quota' \in QuotaType
      /\ quota'.global = NonNeg(quota.global - 1)
      /\ quota'.agent = [quota.agent EXCEPT ![a] = NonNeg(quota.agent[a] - 1)]
      /\ \A b \in Agents : /\ quota'.agent[b] <= quota.agent[b]
                           /\ \A t \in Stages : quota'.stage[b][t] <= quota.stage[b][t]
  BY <1>1, ConsumeSpends DEF Meter
<1>3. \A b \in Agents : /\ quota.agent[b] \in Nat /\ quota'.agent[b] \in Nat
                        /\ AgentLimit(config, b) \in Nat \ {0}
                        /\ quota.agent[b] <= AgentLimit(config, b)
                        /\ \A t \in Stages : /\ quota.stage[b][t] \in Nat
                                             /\ quota'.stage[b][t] \in Nat
                                             /\ StageLimit(config, b, t) \in Nat
                                             /\ quota.stage[b][t] <= StageLimit(config, b, t)
  BY <1>1, <1>2, LimitsPositive DEF QuotaType, IInv, Within
<1>4. Within(config', quota')
  BY <1>1, <1>2, <1>3 DEF Within
<1>5. config.total \in Nat \ {0} /\ quota.global \in Nat
      /\ quota.global = NonNeg(config.total - turn)
  BY <1>1 DEF Config, QuotaType, IInv, RestartInvisible, Restore
<1>6. quota'.global = NonNeg(config.total - turn')
  BY <1>1, <1>2, <1>5 DEF NonNeg
<1>7. quota'.agent[a] # AgentLimit(config, a)
  <2>1. quota'.agent[a] = NonNeg(quota.agent[a] - 1)
    BY <1>1, <1>2 DEF QuotaType
  <2>2. QED
    BY <2>1, <1>3 DEF NonNeg
<1>8. roundTurns' \in [Agents -> Nat]
  <2>1. roundTurns \in [Agents -> Nat]
    BY DEF IInv, TypeOK
  <2>2. [roundTurns EXCEPT ![a] = @ + 1] \in [Agents -> Nat]
    BY <2>1
  <2>3. QED
    BY <2>1, <2>2 DEF Meter
<1>9. /\ Restore(config, turn', Persist(config, quota'), roundTurns') = quota'
      /\ Persist(config, quota') \in UsedType
  <2>1. turn' \in Nat
    BY <1>1
  <2>2. QED
    BY <1>1, <1>2, <1>4, <1>6, <1>7, <1>8, <2>1, RestoreAfterPersist
<1>10. used' = Persist(config, quota')
  BY DEF Meter
<1>11. RestartInvisible'
  BY <1>1, <1>9, <1>10 DEF RestartInvisible
<1>12. TypeOK'
  BY <1>1, <1>2, <1>8, <1>9, <1>10 DEF TypeOK
<1>13. QED
  BY <1>4, <1>11, <1>12 DEF IInv

LEMMA ResetIInv ==
    ASSUME IInv, NEW a \in Tech, NEW s \in Stages, ResetStageQuota(a, s)
    PROVE  IInv'
<1>1. /\ config \in Config /\ config' = config /\ config \in Configs
      /\ turn \in Nat /\ turn' = turn /\ quota \in QuotaType
      /\ a \in Agents
      /\ roundTurns \in [Agents -> Nat] /\ roundTurns' = roundTurns
  BY QuotaConfigsAssumption, TechAssumption DEF IInv, TypeOK, ResetStageQuota
<1>2. /\ quota.global \in Nat
      /\ quota.agent \in [Agents -> Nat]
      /\ quota.stage \in [Agents -> [Stages -> Nat]]
      /\ quota = [global |-> quota.global, agent |-> quota.agent, stage |-> quota.stage]
  BY <1>1 DEF QuotaType
<1>3. StageLimit(config, a, s) \in Nat
  BY <1>1, LimitsPositive
<1>4. quota' = [global |-> quota.global, agent |-> quota.agent,
                stage |-> [quota.stage EXCEPT ![a][s] = StageLimit(config, a, s)]]
  BY <1>2 DEF ResetStageQuota, ResetStage
<1>5. quota' \in QuotaType
  BY <1>1, <1>2, <1>3, <1>4 DEF QuotaType
<1>6. Within(config', quota')
  <2>1. Within(config, quota)
    BY DEF IInv
  <2>2. ASSUME NEW b \in Agents, NEW t \in Stages
        PROVE  quota'.stage[b][t] <= StageLimit(config, b, t)
    <3>1. CASE b = a /\ t = s
      <4>1. quota'.stage[b][t] = StageLimit(config, a, s)
        BY <3>1, <1>1, <1>2, <1>4
      <4>2. QED
        BY <3>1, <4>1, <1>3
    <3>2. CASE ~ (b = a /\ t = s)
      <4>1. quota'.stage[b][t] = quota.stage[b][t]
        BY <3>2, <1>1, <1>2, <1>4
      <4>2. QED
        BY <4>1, <2>1 DEF Within
    <3>3. QED
      BY <3>1, <3>2
  <2>3. QED
    BY <2>1, <2>2, <1>1, <1>4 DEF Within
<1>7. quota'.global = NonNeg(config.total - turn)
  BY <1>4 DEF IInv, RestartInvisible, Restore
<1>8. (\A b \in Agents : quota'.agent[b] = AgentLimit(config, b))
          => \A b \in Agents : roundTurns[b] = 0
  BY <1>4, FullMeansNoRounds
<1>9. /\ Restore(config, turn, Persist(config, quota'), roundTurns) = quota'
      /\ Persist(config, quota') \in UsedType
  BY <1>1, <1>5, <1>6, <1>7, <1>8, RestoreAfterPersist
<1>10. used' = Persist(config, quota')
  BY DEF ResetStageQuota
<1>11. RestartInvisible'
  BY <1>1, <1>9, <1>10 DEF RestartInvisible
<1>12. TypeOK'
  BY <1>1, <1>5, <1>9, <1>10 DEF IInv, TypeOK
<1>13. QED
  BY <1>6, <1>11, <1>12 DEF IInv

LEMMA NextIInv == IInv /\ [Next]_vars => IInv'
<1> SUFFICES ASSUME IInv, [Next]_vars PROVE IInv'
  OBVIOUS
<1>1. CASE \E a \in Agents : \E s \in StagesOf(a) : Meter(a, s)
  BY <1>1, MeterIInv
<1>2. CASE \E a \in Tech, s \in Stages : ResetStageQuota(a, s)
  BY <1>2, ResetIInv
<1>3. CASE Restart
  <2>1. UNCHANGED vars
    BY <1>3 DEF Restart, IInv, RestartInvisible, vars
  <2>2. QED
    BY <2>1 DEF vars, IInv, TypeOK, Within, RestartInvisible
<1>4. CASE UNCHANGED vars
  BY <1>4 DEF vars, IInv, TypeOK, Within, RestartInvisible
<1>5. QED
  BY <1>1, <1>2, <1>3, <1>4 DEF Next

LEMMA SpecIInv == Spec => []IInv
<1>1. Init => IInv
  BY InitIInv
<1>2. IInv /\ [Next]_vars => IInv'
  BY NextIInv
<1>3. QED
  BY <1>1, <1>2, PTL DEF Spec

(* What a step takes from the interview and from each agent: nothing, or    *)
(* one unit of the interview and of the agent that is metered.              *)
LEMMA StepTakes ==
    ASSUME IInv, [Next]_vars
    PROVE  /\ quota'.global <= quota.global
           /\ \A a \in Agents : quota'.agent[a] <= quota.agent[a]
           /\ config' = config
           /\ \A a \in Agents : \A s \in StagesOf(a) : Meter(a, s) =>
                  /\ quota'.global = NonNeg(quota.global - 1)
                  /\ quota'.agent[a] = NonNeg(quota.agent[a] - 1)
<1>1. quota \in QuotaType /\ quota.global \in Nat /\ quota.agent \in [Agents -> Nat]
  BY DEF IInv, TypeOK, QuotaType
<1>2. ASSUME NEW a \in Agents, NEW s \in StagesOf(a), Meter(a, s)
      PROVE  /\ quota'.global <= quota.global
             /\ \A b \in Agents : quota'.agent[b] <= quota.agent[b]
             /\ config' = config
             /\ quota'.global = NonNeg(quota.global - 1)
             /\ quota'.agent[a] = NonNeg(quota.agent[a] - 1)
  <2>1. s \in Stages \cup {NoStage}
    BY DEF StagesOf
  <2>2. quota' = Consume(quota, a, s) /\ config' = config
    BY <1>2 DEF Meter
  <2>3. /\ quota'.global = NonNeg(quota.global - 1)
        /\ quota'.agent = [quota.agent EXCEPT ![a] = NonNeg(quota.agent[a] - 1)]
        /\ \A b \in Agents : quota'.agent[b] <= quota.agent[b]
    BY <1>1, <2>1, <2>2, ConsumeSpends
  <2>4. QED
    BY <1>1, <2>2, <2>3 DEF NonNeg
<1>3. ASSUME NEW a \in Tech, NEW s \in Stages, ResetStageQuota(a, s)
      PROVE  quota'.global = quota.global /\ quota'.agent = quota.agent /\ config' = config
  <2>1. quota' = ResetStage(config, quota, a, s) /\ config' = config
    BY <1>3 DEF ResetStageQuota
  <2>2. QED
    BY <2>1, <1>1 DEF ResetStage, QuotaType
<1>4. Restart \/ UNCHANGED vars => quota' = quota /\ config' = config
  BY DEF Restart, IInv, RestartInvisible, vars
<1>5. QED
  BY <1>1, <1>2, <1>3, <1>4 DEF Next

----------------------------------------------------------------------------
(* The history neither constrains the manager nor outgrows the limits.      *)
LEMMA GrantsSplit ==
    [GrantsNext]_grantVars =>
        /\ [Next]_vars
        /\ \/ \E a \in Agents : \E s \in StagesOf(a) : MeterCounted(a, s)
           \/ granted' = granted
BY DEF GrantsNext, grantVars, MeterCounted, Next

LEMMA InitGInv == GrantsInit => GInv
<1> SUFFICES ASSUME GrantsInit PROVE GInv
  OBVIOUS
<1>1. IInv /\ Init
  BY InitIInv DEF GrantsInit
<1>2. /\ config \in Config /\ quota \in QuotaType /\ config.total \in Nat
      /\ turn \in Nat /\ quota.global = NonNeg(config.total - turn)
  BY <1>1, QuotaConfigsAssumption DEF IInv, TypeOK, Config, RestartInvisible, Restore
<1>3. quota.global \in Nat /\ quota.global <= config.total
  BY <1>2 DEF NonNeg
<1>4. \A a \in Agents : /\ quota.agent[a] \in Nat /\ AgentLimit(config, a) \in Nat
                        /\ quota.agent[a] <= AgentLimit(config, a)
  BY <1>1, <1>2, LimitsPositive DEF IInv, Within, QuotaType
<1>5. /\ granted \in [agent : [Agents -> Nat], all : Nat]
      /\ granted.all = 0 /\ \A a \in Agents : granted.agent[a] = 0
  BY DEF GrantsInit, NothingGranted
<1>6. Accounted
  BY <1>2, <1>3, <1>4, <1>5 DEF Accounted
<1>7. QED
  BY <1>1, <1>5, <1>6 DEF GInv, GrantsTypeOK, IInv

LEMMA NextGInv == GInv /\ [GrantsNext]_grantVars => GInv'
<1> SUFFICES ASSUME GInv, [GrantsNext]_grantVars PROVE GInv'
  OBVIOUS
<1>1. IInv' /\ [Next]_vars
  BY GrantsSplit, NextIInv DEF GInv
<1>2. /\ config' = config
      /\ quota'.global <= quota.global
      /\ \A a \in Agents : quota'.agent[a] <= quota.agent[a]
      /\ \A a \in Agents : \A s \in StagesOf(a) : Meter(a, s) =>
             /\ quota'.global = NonNeg(quota.global - 1)
             /\ quota'.agent[a] = NonNeg(quota.agent[a] - 1)
  BY <1>1, StepTakes DEF GInv
<1>3. /\ granted.agent \in [Agents -> Nat] /\ granted.all \in Nat
      /\ granted = [agent |-> granted.agent, all |-> granted.all]
      /\ granted.all + quota.global <= config.total
      /\ \A b \in Agents : granted.agent[b] + quota.agent[b] <= AgentLimit(config, b)
  BY DEF GInv, GrantsTypeOK, Accounted
<1>4. /\ quota.global \in Nat /\ quota'.global \in Nat /\ config.total \in Nat
      /\ quota.agent \in [Agents -> Nat] /\ quota'.agent \in [Agents -> Nat]
      /\ \A b \in Agents : AgentLimit(config, b) \in Nat
  <2>1. config \in Config /\ quota \in QuotaType /\ quota' \in QuotaType
    BY <1>1, QuotaConfigsAssumption DEF GInv, IInv, TypeOK
  <2>2. QED
    BY <2>1, LimitsPositive DEF QuotaType, Config
<1>5. ASSUME NEW a \in Agents, NEW s \in StagesOf(a), MeterCounted(a, s),
             Check(quota, a, s) = "CONTINUE"
      PROVE  granted' \in [agent : [Agents -> Nat], all : Nat] /\ Accounted'
  <2>1. quota.global >= 1 /\ quota.agent[a] >= 1
    BY <1>4, <1>5 DEF Check
  <2>2. granted' = [agent |-> [granted.agent EXCEPT ![a] = @ + 1], all |-> granted.all + 1]
    BY <1>5 DEF MeterCounted
  <2>3. quota'.global = quota.global - 1 /\ quota'.agent[a] = quota.agent[a] - 1
    BY <1>2, <1>4, <1>5, <2>1 DEF MeterCounted, NonNeg
  <2>4. ASSUME NEW b \in Agents
        PROVE  granted'.agent[b] + quota'.agent[b] <= AgentLimit(config, b)
    <3>1. CASE b = a
      BY <3>1, <2>2, <2>3, <1>3, <1>4
    <3>2. CASE b # a
      <4>1. granted'.agent[b] = granted.agent[b] /\ quota'.agent[b] <= quota.agent[b]
        BY <3>2, <2>2, <1>2, <1>3
      <4>2. QED
        BY <4>1, <1>3, <1>4
    <3>3. QED
      BY <3>1, <3>2
  <2>5. granted'.all + quota'.global <= config.total
    BY <2>2, <2>3, <1>3, <1>4
  <2>6. granted' \in [agent : [Agents -> Nat], all : Nat]
    BY <2>2, <1>3
  <2>7. QED
    BY <2>4, <2>5, <2>6, <1>2 DEF Accounted
<1>6. ASSUME granted' = granted
      PROVE  granted' \in [agent : [Agents -> Nat], all : Nat] /\ Accounted'
  <2>1. \A b \in Agents : granted.agent[b] + quota'.agent[b] <= AgentLimit(config, b)
    BY <1>2, <1>3, <1>4
  <2>2. granted.all + quota'.global <= config.total
    BY <1>2, <1>3, <1>4
  <2>3. QED
    BY <1>2, <1>6, <2>1, <2>2 DEF Accounted, GInv, GrantsTypeOK
<1>7. granted' \in [agent : [Agents -> Nat], all : Nat] /\ Accounted'
  BY <1>5, <1>6, GrantsSplit DEF MeterCounted
<1>8. QED
  BY <1>1, <1>7 DEF GInv, GrantsTypeOK, IInv

LEMMA SpecGInv == GrantsSpec => []GInv
<1>1. GrantsInit => GInv
  BY InitGInv
<1>2. GInv /\ [GrantsNext]_grantVars => GInv'
  BY NextGInv
<1>3. QED
  BY <1>1, <1>2, PTL DEF GrantsSpec

(* Every history the manager writes is one the manager may have: counting   *)
(* takes no behaviour away, so what holds of the manager holds of it.       *)
LEMMA GrantsKeepManager == GrantsSpec => Spec
<1>1. GrantsInit => Init
  BY DEF GrantsInit
<1>2. [GrantsNext]_grantVars => [Next]_vars
  BY GrantsSplit
<1>3. QED
  BY <1>1, <1>2, PTL DEF GrantsSpec, Spec

----------------------------------------------------------------------------
(* Every reachable state of the quota manager has the declared types; in    *)
(* particular what remains never goes below zero.                           *)
THEOREM QuotaTypeCorrect == GrantsSpec => []GrantsTypeOK
BY SpecGInv, PTL DEF GInv

(* The manager a restart rebuilds from the stored state is the live one     *)
(* (_persist_to_state and _restore_from_state are inverse to each other).   *)
THEOREM RestartIsInvisible == Spec => []RestartInvisible
<1>1. IInv => RestartInvisible
  BY DEF IInv
<1>2. QED
  BY <1>1, SpecIInv, PTL

(* The turns check lets through stay within max_turns of each agent and     *)
(* total_max_turns of the interview, for any order of calls and restarts.   *)
THEOREM GrantsAreBounded == GrantsSpec => []GrantedWithinLimits
<1>1. GInv => GrantedWithinLimits
  <2> SUFFICES ASSUME GInv PROVE GrantedWithinLimits
    OBVIOUS
  <2>1. /\ config \in Config /\ quota \in QuotaType
        /\ granted.all \in Nat /\ granted.agent \in [Agents -> Nat]
    BY QuotaConfigsAssumption DEF GInv, IInv, TypeOK, GrantsTypeOK
  <2>2. quota.global \in Nat /\ quota.agent \in [Agents -> Nat] /\ config.total \in Nat
    BY <2>1 DEF QuotaType, Config
  <2>3. \A a \in Agents : AgentLimit(config, a) \in Nat
    BY <2>1, LimitsPositive
  <2>4. QED
    BY <2>1, <2>2, <2>3 DEF GInv, Accounted, GrantedWithinLimits
<1>2. QED
  BY <1>1, SpecGInv, PTL

(* No step gives turns back to the interview or to an agent.                *)
THEOREM QuotaNeverRefunded == Spec => NeverRefunded
<1>1. IInv /\ [Next]_vars =>
        [ /\ quota'.global <= quota.global
          /\ \A a \in Agents : quota'.agent[a] <= quota.agent[a] ]_vars
  BY StepTakes
<1>2. QED
  BY <1>1, SpecIInv, PTL DEF Spec, NeverRefunded
=============================================================================
