----------------------------- MODULE QuotaGrants -----------------------------
(***************************************************************************)
(* What the quota manager let through: module QuotaManager with a history  *)
(* variable that counts the turns check answered with "CONTINUE".          *)
(***************************************************************************)
EXTENDS QuotaManager

VARIABLE granted    \* the turns let through, per agent and in all

grantVars == <<vars, granted>>

(* The manager's fields, and counts.                                       *)
GrantsTypeOK == TypeOK /\ granted \in [agent : [Agents -> Nat], all : Nat]

NothingGranted == [agent |-> [a \in Agents |-> 0], all |-> 0]

GrantsInit == Init /\ granted = NothingGranted

MeterCounted(a, s) ==
    /\ Meter(a, s)
    /\ IF Check(quota, a, s) = "CONTINUE"
       THEN granted' = [agent |-> [granted.agent EXCEPT ![a] = @ + 1],
                        all   |-> granted.all + 1]
       ELSE UNCHANGED granted

GrantsNext ==
    \/ \E a \in Agents : \E s \in StagesOf(a) : MeterCounted(a, s)
    \/ (\E a \in Tech, s \in Stages : ResetStageQuota(a, s)) /\ UNCHANGED granted
    \/ Restart /\ UNCHANGED granted

GrantsSpec == GrantsInit /\ [][GrantsNext]_grantVars

----------------------------------------------------------------------------
(* The turns let through stay within the limits the configuration sets for *)
(* each agent and for the interview, restarts included.  (check against    *)
(* consume, which also spends on refused turns.)                           *)
GrantedWithinLimits ==
    /\ granted.all <= config.total
    /\ \A a \in Agents : granted.agent[a] <= AgentLimit(config, a)
=============================================================================
