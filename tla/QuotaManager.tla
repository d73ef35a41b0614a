---------------------------- MODULE QuotaManager ----------------------------
(***************************************************************************)
(* TurnQuotaManager over the life of one InterviewState: turns are metered,*)
(* a stage allowance may be reset, and at any moment the process may be    *)
(* replaced by one that rebuilds the manager from the state.  The caller   *)
(* is left free to name any agent and any sub-stage in any order, which    *)
(* is more than the engine does.                                           *)
(***************************************************************************)
EXTENDS Quota

CONSTANTS
    Configs,       \* the interview configurations considered
    MaxTurn,       \* bound on the turn counter
    MaxOldTurns    \* bound on the turns of a session stored before quotas existed

ASSUME QuotaConfigsAssumption == Configs \subseteq Config
ASSUME BoundsAssumption == MaxTurn \in Nat /\ MaxOldTurns \in Nat

VARIABLES
    config,      \* InterviewState.config
    turn,        \* InterviewState.turn
    used,        \* InterviewState.quota_consumed_agent / quota_consumed_stage
    roundTurns,  \* InterviewState.round_turn_counts
    quota        \* the live manager

vars == <<config, turn, used, roundTurns, quota>>

StagesOf(a) == IF a \in Tech THEN Stages ELSE {NoStage}

(* The limits, what is used and what is left never go below zero.          *)
TypeOK ==
    /\ config \in Configs
    /\ turn \in Nat
    /\ used \in UsedType
    /\ roundTurns \in [Agents -> Nat]
    /\ quota \in QuotaType

\* A new session, or one stored by a version that counted rounds only.
Init ==
    /\ config \in Configs
    /\ used = NothingUsed
    /\ turn \in 0 .. MaxOldTurns
    /\ roundTurns \in [Agents -> 0 .. turn]
    /\ quota = Restore(config, turn, used, roundTurns)

\* Orchestrator.step: check_and_consume, then the turn counter, then (on the
\* turns it does not reroute) the per-round count.
Meter(a, s) ==
    /\ turn < MaxTurn
    /\ quota' = Consume(quota, a, s)
    /\ used' = Persist(config, quota')
    /\ turn' = turn + 1
    /\ IF Check(quota, a, s) = "CONTINUE"
       THEN roundTurns' \in {roundTurns, [roundTurns EXCEPT ![a] = @ + 1]}
       ELSE UNCHANGED roundTurns
    /\ UNCHANGED config

\* Faulty variant: the reset is not written back to the state.
ResetStageUnsaved(a, s) ==
    /\ quota' = ResetStage(config, quota, a, s)
    /\ UNCHANGED <<config, turn, used, roundTurns>>

ResetStageQuota(a, s) ==
    /\ quota' = ResetStage(config, quota, a, s)
    /\ used' = Persist(config, quota')
    /\ UNCHANGED <<config, turn, roundTurns>>

\* Faulty variant: the new manager starts afresh.
RestartAfresh ==
    /\ quota' = FullQuota(config)
    /\ UNCHANGED <<config, turn, used, roundTurns>>

\* A new manager over the same state (recovery after a restart).
Restart ==
    /\ quota' = Restore(config, turn, used, roundTurns)
    /\ UNCHANGED <<config, turn, used, roundTurns>>

Next ==
    \/ \E a \in Agents : \E s \in StagesOf(a) : Meter(a, s)
    \/ \E a \in Tech, s \in Stages : ResetStageQuota(a, s)
    \/ Restart

Spec == Init /\ [][Next]_vars

----------------------------------------------------------------------------
(* A restart is invisible: the state always holds enough to rebuild the    *)
(* live manager exactly, whatever was consumed, reset or inherited from an *)
(* older session.  (_persist_to_state against _restore_from_state.)        *)
RestartInvisible == quota = Restore(config, turn, used, roundTurns)

(* No step gives back turns of the interview or of an agent: neither a     *)
(* restart nor the reset of a stage allowance is a way to more turns.      *)
NeverRefunded ==
    [][ /\ quota'.global <= quota.global
        /\ \A a \in Agents : quota'.agent[a] <= quota.agent[a] ]_vars
=============================================================================
