----------------------------- MODULE QuotaLemmas -----------------------------
(* What the operators of module Quota return, for every configuration.      *)
EXTENDS Quota, TLAPS

(* A manager value within its limits. *)
Within(cfg, q) ==
    \A a \in Agents : /\ q.agent[a] <= AgentLimit(cfg, a)
                      /\ \A s \in Stages : q.stage[a][s] <= StageLimit(cfg, a, s)

(* Every limit the manager applies is positive, whichever field of the      *)
(* configuration it comes from (quota.py _get_agent_limit, _get_stage_limit).*)
LEMMA LimitsPositive ==
    ASSUME NEW cfg \in Config, NEW a \in Agents
    PROVE  /\ AgentLimit(cfg, a) \in Nat \ {0}
           /\ \A s \in Stages : StageLimit(cfg, a, s) \in Nat \ {0}
<1>1. AgentLimit(cfg, a) \in Nat \ {0}
  BY DEF AgentLimit, Config
<1>2. ASSUME NEW s \in Stages
      PROVE  StageLimit(cfg, a, s) \in Nat \ {0}
  <2>1. cfg.limits[a][s] \in Nat
    BY DEF Config
  <2>2. s \in Standard => cfg.legacy[a][s] \in Nat \ {0}
    BY DEF Config
  <2>3. FallbackLimit[s] \in Nat \ {0}
    BY DEF FallbackLimit, Stages
  <2>4. QED
    BY <2>1, <2>2, <2>3 DEF StageLimit
<1>3. QED
  BY <1>1, <1>2

(* Consuming keeps a manager a manager, spends one unit of the interview    *)
(* and of the agent, never goes below zero and never raises a level.        *)
LEMMA ConsumeSpends ==
    ASSUME NEW q \in QuotaType, NEW a \in Agents, NEW s \in Stages \cup {NoStage}
    PROVE  LET c == Consume(q, a, s) IN
           /\ c \in QuotaType
           /\ c.global = NonNeg(q.global - 1)
           /\ c.agent = [q.agent EXCEPT ![a] = NonNeg(q.agent[a] - 1)]
           /\ \A b \in Agents : /\ c.agent[b] <= q.agent[b]
                                /\ \A t \in Stages : c.stage[b][t] <= q.stage[b][t]
<1> DEFINE c == Consume(q, a, s)
<1>1. /\ q.global \in Nat
      /\ q.agent \in [Agents -> Nat]
      /\ q.stage \in [Agents -> [Stages -> Nat]]
  BY DEF QuotaType
<1>2. \A n \in Nat : NonNeg(n - 1) \in Nat /\ NonNeg(n - 1) <= n
  BY DEF NonNeg
<1>3. c.global = NonNeg(q.global - 1) /\ c.global \in Nat
  BY <1>1, <1>2 DEF Consume
<1>4. c.agent = [q.agent EXCEPT ![a] = NonNeg(q.agent[a] - 1)]
  BY DEF Consume
<1>5. c.agent \in [Agents -> Nat] /\ \A b \in Agents : c.agent[b] <= q.agent[b]
  BY <1>1, <1>2, <1>4
<1>6. /\ c.stage \in [Agents -> [Stages -> Nat]]
      /\ \A b \in Agents, t \in Stages : c.stage[b][t] <= q.stage[b][t]
  <2>1. CASE s = NoStage
    BY <2>1, <1>1 DEF Consume
  <2>2. CASE s # NoStage
    <3>1. s \in Stages
      BY <2>2
    <3>2. c.stage = [q.stage EXCEPT ![a][s] = NonNeg(q.stage[a][s] - 1)]
      BY <2>2 DEF Consume
    <3>3. q.stage[a][s] \in Nat
      BY <1>1, <3>1
    <3>4. QED
      BY <1>1, <1>2, <3>1, <3>2, <3>3
  <2>3. QED
    BY <2>1, <2>2
<1>7. c = [global |-> c.global, agent |-> c.agent, stage |-> c.stage]
  BY DEF Consume
<1>8. c \in QuotaType
  BY <1>3, <1>5, <1>6, <1>7 DEF QuotaType
<1>9. QED
  BY <1>3, <1>4, <1>5, <1>6, <1>8

(* Reading back what was stored gives the manager that was stored, provided *)
(* its interview level matches the turn counter and the per-round counts    *)
(* (read only when nothing is recorded as used) are zero when it is full.   *)
LEMMA RestoreAfterPersist ==
    ASSUME NEW cfg \in Config, NEW q \in QuotaType, Within(cfg, q),
           NEW t \in Nat, q.global = NonNeg(cfg.total - t),
           NEW rt \in [Agents -> Nat],
           (\A a \in Agents : q.agent[a] = AgentLimit(cfg, a))
               => \A a \in Agents : rt[a] = 0
    PROVE  /\ Restore(cfg, t, Persist(cfg, q), rt) = q
           /\ Persist(cfg, q) \in UsedType
<1> DEFINE u == Persist(cfg, q)
           r == Restore(cfg, t, u, rt)
           used == IF \A a \in Agents : u.agent[a] = 0 THEN rt ELSE u.agent
<1>0. /\ q.agent \in [Agents -> Nat]
      /\ q.stage \in [Agents -> [Stages -> Nat]]
      /\ q = [global |-> q.global, agent |-> q.agent, stage |-> q.stage]
  BY DEF QuotaType
<1>1. /\ \A a \in Agents : u.agent[a] = AgentLimit(cfg, a) - q.agent[a]
      /\ \A a \in Agents, s \in Stages :
             u.stage[a][s] = StageLimit(cfg, a, s) - q.stage[a][s]
      /\ u = [agent |-> u.agent, stage |-> u.stage]
  BY DEF Persist
<1>2. \A a \in Agents : /\ AgentLimit(cfg, a) \in Nat
                        /\ q.agent[a] \in Nat
                        /\ q.agent[a] <= AgentLimit(cfg, a)
  BY <1>0, LimitsPositive DEF Within
<1>3. \A a \in Agents, s \in Stages : /\ StageLimit(cfg, a, s) \in Nat
                                      /\ q.stage[a][s] \in Nat
                                      /\ q.stage[a][s] <= StageLimit(cfg, a, s)
  BY <1>0, LimitsPositive DEF Within
<1>4. r.agent = q.agent
  <2>1. r.agent = [a \in Agents |-> NonNeg(AgentLimit(cfg, a) - used[a])]
    BY DEF Restore
  <2>2. ASSUME NEW a \in Agents
        PROVE  NonNeg(AgentLimit(cfg, a) - used[a]) = q.agent[a]
    <3>1. CASE \A b \in Agents : u.agent[b] = 0
      <4>1. ASSUME NEW b \in Agents
            PROVE  q.agent[b] = AgentLimit(cfg, b)
        <5>1. AgentLimit(cfg, b) - q.agent[b] = 0
          BY <3>1, <1>1
        <5>2. QED
          BY <5>1, <1>2
      <4>2. used[a] = 0
        BY <3>1, <4>1
      <4>3. QED
        BY <4>1, <4>2, <1>2 DEF NonNeg
    <3>2. CASE ~ \A b \in Agents : u.agent[b] = 0
      <4>1. used[a] = AgentLimit(cfg, a) - q.agent[a]
        BY <3>2, <1>1
      <4>2. QED
        BY <4>1, <1>2 DEF NonNeg
    <3>3. QED
      BY <3>1, <3>2
  <2>3. QED
    BY <2>1, <2>2, <1>0
<1>5. r.stage = q.stage
  <2>1. r.stage = [a \in Agents |-> [s \in Stages |->
                      NonNeg(StageLimit(cfg, a, s) - u.stage[a][s])]]
    BY DEF Restore
  <2>2. \A a \in Agents, s \in Stages :
            NonNeg(StageLimit(cfg, a, s) - u.stage[a][s]) = q.stage[a][s]
    BY <1>1, <1>3 DEF NonNeg
  <2>3. \A a \in Agents :
            [s \in Stages |-> NonNeg(StageLimit(cfg, a, s) - u.stage[a][s])] = q.stage[a]
    BY <2>2, <1>0
  <2>4. QED
    BY <2>1, <2>3, <1>0
<1>6. r = [global |-> q.global, agent |-> r.agent, stage |-> r.stage]
  BY DEF Restore
<1>7. u \in UsedType
  <2>1. u.agent \in [Agents -> Nat]
    BY <1>2 DEF Persist
  <2>2. u.stage \in [Agents -> [Stages -> Nat]]
    BY <1>3 DEF Persist
  <2>3. QED
    BY <1>1, <2>1, <2>2 DEF UsedType
<1>8. QED
  BY <1>0, <1>4, <1>5, <1>6, <1>7
=============================================================================
