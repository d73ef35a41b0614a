------------------------------ MODULE Interview ------------------------------
(***************************************************************************)
(* One interview driven by the Orchestrator (orchestrator/engine.py), step *)
(* by step or streamed, over an InterviewState (state.py), with the        *)
(* code-submission handler of api.py, the save that ends a request and the *)
(* restart from what was last saved.  Requests arrive one at a time.  A    *)
(* request to the language model answers or raises; a question, a          *)
(* candidate's answer, a report are events, their text is left out.        *)
(***************************************************************************)
EXTENDS Quota, FiniteSets

CONSTANTS
    Configs,    \* the interview configurations considered
    MaxTurn,    \* bound on the turn counter (a finished interview still counts)
    NoAgent,    \* current_agent = "" : the interview has not started
    NoTask,     \* current_coding_task = None
    Scribe      \* the writer of the report, never an interviewer

ASSUME InterviewConfigsAssumption ==
    \A c \in Configs : c \in Config /\ NoRepeats(c.rounds)

\* The bound leaves room for every step of an unfinished interview.
ASSUME MaxTurnAssumption ==
    MaxTurn \in Nat /\ \A c \in Configs : c.total < MaxTurn

ASSUME DistinctAssumption ==
    NoAgent \notin Agents /\ NoTask \notin Agents /\ Scribe \notin Agents

VARIABLES
    config,      \* InterviewState.config
    turn,        \* turn
    status,      \* status
    agent,       \* current_agent
    stages,      \* tech<i>_sub_stage with tech<i>_stage_turns
    task,        \* current_coding_task: the agent whose problem it is
    packages,    \* transfer_queue: who asked, who is announced next, in which turn
    used,        \* quota_consumed_agent, quota_consumed_stage
    roundTurns,  \* round_turn_counts
    quota,       \* the orchestrator's TurnQuotaManager
    reply,       \* what the last request was answered with
    saved        \* the state as the session store last took it

vars == <<config, turn, status, agent, stages, task, packages,
          used, roundTurns, quota, reply, saved>>

Replies == {"none", "question", "followup", "report", "llm_error", "invalid_report"}

Progress == [stage : Stages, turns : Nat]
Package  == [from : Agents, to : Agents \cup {Scribe}, round : Nat]

(* The declared types of InterviewState's fields (state.py). *)
FieldsOK ==
    /\ config \in Configs
    /\ turn \in Nat
    /\ status \in {"ongoing", "finished"}
    /\ agent \in Agents \cup {NoAgent}
    /\ stages \in [Tech -> Progress]
    /\ task \in Tech \cup {NoTask}
    /\ packages \in Seq(Package)
    /\ used \in UsedType
    /\ roundTurns \in [Agents -> Nat]
    /\ quota \in QuotaType
    /\ reply \in Replies

Snapshots ==
    [ turn : Nat, status : {"ongoing", "finished"}, agent : Agents \cup {NoAgent},
      stages : [Tech -> Progress], task : Tech \cup {NoTask}, packages : Seq(Package),
      used : UsedType, roundTurns : [Agents -> Nat] ]

(* What is held and what is stored have the types of the fields.           *)
TypeOK == FieldsOK /\ saved \in Snapshots

\* InterviewState.to_json.  The configuration, which never changes, is in it too.
Snapshot ==
    [ turn |-> turn, status |-> status, agent |-> agent, stages |-> stages,
      task |-> task, packages |-> packages,
      used |-> used, roundTurns |-> roundTurns ]

(***************************************************************************)
(* The sub-stages of a technical interviewer (state.py).                   *)
(***************************************************************************)
Fresh == [stage |-> "chat", turns |-> 0]     \* reset_agent_stage

NextStage(s) == CASE s = "chat"   -> "coding"
                  [] s = "coding" -> "reflect"
                  [] OTHER        -> "done"

\* advance_sub_stage: "done" is left alone.
Advanced(p) == IF p.stage = "done" THEN p ELSE [stage |-> NextStage(p.stage), turns |-> 0]

\* After a question: count it, and leave the sub-stage at its limit.
Asked(a, p) ==
    IF p.turns + 1 >= AdvanceLimit(config, a, p.stage) THEN Advanced(p)
    ELSE [p EXCEPT !.turns = @ + 1]

\* The coding task as the next question finds it: set on entering "coding",
\* dropped in "reflect".
Prepared(a, p) ==
    IF p.stage = "coding" /\ p.turns = 0 THEN a
    ELSE IF p.stage = "reflect" THEN NoTask ELSE task

(***************************************************************************)
(* Where Orchestrator.step goes.  Current, its sub-stage and the verdict   *)
(* of the quota check are read before the quota is consumed, Spent after.  *)
(***************************************************************************)
IndexIn(seq, a) == CHOOSE i \in 1 .. Len(seq) : seq[i] = a

Rounds       == config.rounds
Position(a)  == IndexIn(Rounds, a)
Current      == IF agent = NoAgent THEN Rounds[1] ELSE agent
CurrentStage == IF Current \in Tech THEN stages[Current].stage ELSE NoStage
Verdict      == Check(quota, Current, CurrentStage)
Spent        == Consume(quota, Current, CurrentStage)

\* The two checks step makes after consuming the last unit of a level.
InterviewSpent == Verdict = "CONTINUE" /\ Spent.global <= 0
AgentSpent     == /\ Verdict = "CONTINUE"
                  /\ Spent.global > 0
                  /\ Spent.agent[Current] <= 0
                  /\ CurrentStage \in {NoStage, "done"}

Normal        == Verdict = "CONTINUE" /\ ~InterviewSpent /\ ~AgentSpent
StageExpired  == Verdict = "ADVANCE_STAGE"
RoundComplete == \/ StageExpired /\ NextStage(CurrentStage) = "done"
                 \/ Normal /\ CurrentStage = "done"
\* Faulty variant: a completed round of sub-stages always leaves.
LeavesEarly   == Verdict = "SWITCH_AGENT" \/ AgentSpent \/ RoundComplete

Leaves        == \/ Verdict = "SWITCH_AGENT"
                 \/ AgentSpent
                 \/ RoundComplete /\ Spent.agent[Current] <= 0
LastRound     == Position(Current) = Len(Rounds)

\* The sub-stages after the advance an expired stage quota causes.
StagesNow == IF StageExpired THEN [stages EXCEPT ![Current] = Advanced(@)] ELSE stages

\* _peek_next_agent: who speaks after a question of a, by the quotas q.
Peek(q, a) ==
    IF q.agent[a] > 0 THEN a
    ELSE IF Position(a) < Len(Rounds) THEN Rounds[Position(a) + 1] ELSE Scribe

Announced(a) == Peek(Spent, a)     \* asked in the step that asks the question

----------------------------------------------------------------------------
Init ==
    /\ config \in Configs
    /\ turn = 0
    /\ status = "ongoing"
    /\ agent = NoAgent
    /\ stages = [a \in Tech |-> Fresh]
    /\ task = NoTask
    /\ packages = << >>
    /\ used = NothingUsed
    /\ roundTurns = [a \in Agents |-> 0]
    /\ quota = FullQuota(config)
    /\ reply = "none"
    /\ saved = Snapshot      \* create_session saves the new state

\* Faulty variant: the turn is counted only when the quota grants it.
MeteredGrantedOnly ==
    /\ Rounds # << >>
    /\ turn < MaxTurn
    /\ turn' = IF Verdict = "CONTINUE" THEN turn + 1 ELSE turn
    /\ quota' = Spent
    /\ used' = Persist(config, Spent)
    /\ roundTurns' = IF Normal THEN [roundTurns EXCEPT ![Current] = @ + 1] ELSE roundTurns
    /\ UNCHANGED config

\* What every step does before it is routed.
Metered ==
    /\ Rounds # << >>
    /\ turn < MaxTurn
    /\ turn' = turn + 1
    /\ quota' = Spent
    /\ used' = Persist(config, Spent)
    /\ roundTurns' = IF Normal THEN [roundTurns EXCEPT ![Current] = @ + 1] ELSE roundTurns
    /\ UNCHANGED config

(***************************************************************************)
(* _process_tech_agent_sub_stage and _process_standard_agent: agent a asks *)
(* with its sub-stages at st.  When the model raises, only what was done   *)
(* before the call remains.  The answer of a technical interviewer may     *)
(* carry a coding problem of its own.                                      *)
(***************************************************************************)
Ask(a, st) ==
    /\ agent' = a
    /\ UNCHANGED status
    /\ \/ /\ packages' = Append(packages, [from |-> a, to |-> Announced(a), round |-> turn'])
          /\ reply' = "question"
          /\ IF a \in Tech
             THEN /\ stages' = [st EXCEPT ![a] = Asked(a, @)]
                  /\ task' \in {Prepared(a, st[a]), a}
             ELSE stages' = st /\ task' = task
       \/ /\ reply' = "llm_error"
          /\ stages' = st
          /\ task' = IF a \in Tech THEN Prepared(a, st[a]) ELSE task
          /\ UNCHANGED packages

\* _generate_report: no request to the model when there is nothing to report.
\* The result is "good" unless the model raises.
Report(good) == reply' = good \/ (packages # << >> /\ reply' = "llm_error")

----------------------------------------------------------------------------
\* No round is enabled: the first step finishes, before anything is counted.
FinishEmpty ==
    /\ agent = NoAgent
    /\ Rounds = << >>
    /\ status' = "finished"
    /\ Report("report")
    /\ UNCHANGED <<config, turn, agent, stages, task, packages,
                   used, roundTurns, quota>>

\* The last turn of the interview was just spent (_finish_interview).
FinishSpent ==
    /\ Metered
    /\ InterviewSpent
    /\ status' = "finished"
    /\ agent' = Current
    /\ Report("report")
    /\ UNCHANGED <<stages, task, packages>>

\* Faulty variant: the status is not set.
FinishExhaustedSilently ==
    /\ Metered
    /\ Verdict = "FINISH" \/ (Leaves /\ LastRound)
    /\ agent' = Current
    /\ stages' = StagesNow
    /\ Report("invalid_report")
    /\ UNCHANGED <<status, task, packages>>

\* _handle_quota_exhausted with FINISH, or with no interviewer left.  The
\* handler puts the whole result of _generate_report, a tuple, in a field the
\* response model declares as a string.
FinishExhausted ==
    /\ Metered
    /\ Verdict = "FINISH" \/ (Leaves /\ LastRound)
    /\ status' = "finished"
    /\ agent' = Current
    /\ stages' = StagesNow
    /\ Report("invalid_report")
    /\ UNCHANGED <<task, packages>>

\* _handle_quota_exhausted with SWITCH_AGENT.
SwitchAgent ==
    /\ Metered
    /\ Leaves /\ ~LastRound
    /\ LET next == Rounds[Position(Current) + 1]
       IN  Ask(next, IF next \in Tech THEN [StagesNow EXCEPT ![next] = Fresh] ELSE StagesNow)

\* _handle_quota_exhausted with ADVANCE_STAGE, short of "done".
AdvanceStage ==
    /\ Metered
    /\ StageExpired /\ ~RoundComplete
    /\ Ask(Current, StagesNow)

\* _handle_agent_round_complete with turns left: chat, coding, reflect again.
StartRound ==
    /\ Metered
    /\ RoundComplete /\ Spent.agent[Current] > 0
    /\ Ask(Current, [stages EXCEPT ![Current] = Fresh])

ContinueStage ==
    /\ Metered
    /\ Normal /\ ~RoundComplete
    /\ Ask(Current, stages)

Step ==
    \/ FinishEmpty \/ FinishSpent \/ FinishExhausted
    \/ SwitchAgent \/ AdvanceStage \/ StartRound \/ ContinueStage

(***************************************************************************)
(* Orchestrator.async_step, behind the /stream endpoints: the same metering*)
(* and the same handlers, but the question of an ordinary turn is streamed.*)
(***************************************************************************)

\* _execute_turn_async returns after the first chunk of an interviewer without
\* sub-stages: the candidate reads part of a question that is never recorded.
StreamedInPart ==
    /\ CurrentStage = NoStage
    /\ agent' = Current
    /\ reply' = "question"
    /\ UNCHANGED <<status, stages, task, packages>>

\* A stream read to its end is recorded as a question is; one abandoned by its
\* reader leaves what a failed request to the model leaves.
StreamTurn ==
    /\ Metered
    /\ Normal /\ ~RoundComplete
    /\ Ask(Current, stages) \/ StreamedInPart

AsyncStep ==
    \/ FinishEmpty \/ FinishSpent \/ FinishExhausted
    \/ SwitchAgent \/ AdvanceStage \/ StartRound \/ StreamTurn

(***************************************************************************)
(* api.submit_code: runs the code against the current task, advances the   *)
(* current interviewer's sub-stage and, when that enters "reflect", asks   *)
(* the first question of it.  (The requests it refuses change nothing.)    *)
(***************************************************************************)
SubmitCode ==
    /\ task # NoTask
    /\ agent \in Tech
    /\ LET now == Advanced(stages[agent])
       IN  IF now.stage = "reflect"
           THEN \/ /\ stages' = [stages EXCEPT ![agent] = [now EXCEPT !.turns = @ + 1]]
                   /\ reply' = "followup"
                \/ /\ stages' = [stages EXCEPT ![agent] = now]
                   /\ reply' = "llm_error"
           ELSE /\ stages' = [stages EXCEPT ![agent] = now]
                /\ reply' = "followup"
    /\ UNCHANGED <<config, turn, status, agent, task, packages,
                   used, roundTurns, quota>>

(***************************************************************************)
(* The session store.                                                      *)
(***************************************************************************)

\* What follows the orchestrator in the handlers of api.py.  A model that raises
\* ends the handler before the save, a save that raises is swallowed, and the
\* reader of a stream may be gone before it.
Saves == saved' = saved \/ (reply' # "llm_error" /\ saved' = Snapshot')

\* Faulty variant: the recovered orchestrator starts with full quotas.
RecoverAfresh ==
    /\ saved.status = "ongoing"
    /\ turn' = saved.turn
    /\ status' = saved.status
    /\ agent' = saved.agent
    /\ stages' = saved.stages
    /\ task' = saved.task
    /\ packages' = saved.packages
    /\ used' = saved.used
    /\ roundTurns' = saved.roundTurns
    /\ quota' = FullQuota(config)
    /\ reply' = "none"
    /\ UNCHANGED <<config, saved>>

\* startup_event after the process died: an orchestrator over the state last
\* saved, if that is of a running interview.  What came after the save is gone.
\* (An entry that expired, or was deleted and not saved again, is not recovered:
\* then nothing more happens.)
Recover ==
    /\ saved.status = "ongoing"
    /\ turn' = saved.turn
    /\ status' = saved.status
    /\ agent' = saved.agent
    /\ stages' = saved.stages
    /\ task' = saved.task
    /\ packages' = saved.packages
    /\ used' = saved.used
    /\ roundTurns' = saved.roundTurns
    /\ quota' = Restore(config, turn', used', roundTurns')
    /\ reply' = "none"
    /\ UNCHANGED <<config, saved>>

\* A request to step or to a stream, one after another.
Serve == (Step \/ AsyncStep) /\ Saves

\* submit_code never saves.
Next ==
    \/ Serve
    \/ SubmitCode /\ UNCHANGED saved
    \/ Recover

Spec == Init /\ [][Next]_vars

\* A candidate keeps answering until the interview is over.
FairSpec == Spec /\ WF_vars(Serve)

----------------------------------------------------------------------------
(***************************************************************************)
(* Safety.                                                                 *)
(***************************************************************************)
AskedBy(pk, a) == Cardinality({i \in 1 .. Len(pk) : pk[i].from = a})
QuestionsOf(a) == AskedBy(packages, a)

(* No question is asked past the total_max_turns-th turn, whatever is sent  *)
(* to the interview and whenever it is recovered; and an interview that is  *)
(* still going has not used more turns than that (Orchestrator.step).       *)
QuestionsWithinTotal ==
    /\ \A i \in 1 .. Len(packages) : packages[i].round <= config.total
    /\ status = "ongoing" => turn <= config.total

(* The packages are in the order of their turns and visit the interviewers  *)
(* in the configured order, never returning to one that was left            *)
(* (_handle_quota_exhausted, _get_next_enabled_agent).                      *)
VisitOrder ==
    \A i, j \in 1 .. Len(packages) :
        i < j => /\ packages[i].round < packages[j].round
                 /\ Position(packages[i].from) <= Position(packages[j].from)

(* Every question of an interviewer was paid from that interviewer's quota, *)
(* except one: the question asked on taking over is paid by the predecessor *)
(* (so the first interviewer has no free one).                              *)
QuestionsMetered ==
    \A a \in Agents :
        QuestionsOf(a) <= used.agent[a] + IF Rounds # << >> /\ a # Rounds[1] THEN 1 ELSE 0

(* A manager built over the present state is the one the interview has      *)
(* (quota.py).                                                              *)
RestartInvisible == quota = Restore(config, turn, used, roundTurns)

\* The reasons for which an interview may be over.
Over ==
    \/ Rounds = << >>
    \/ quota.global = 0
    \/ /\ agent # NoAgent
       /\ Position(agent) = Len(Rounds)
       /\ quota.agent[agent] = 0

(* No interview ends early: it is over only when total_max_turns is used    *)
(* up, the interviewer of the last round has nothing left, or no round was  *)
(* enabled (_finish_interview, _handle_quota_exhausted).                    *)
EndsOnlyWhenSpent == status = "finished" => Over

(* A finished interview stays finished and asks no further question in any  *)
(* step, although step and async_step have no guard on the status.  Only a  *)
(* restart from a state saved before the end can undo the end: one that was *)
(* saved is final.                                                          *)
NoQuestionAfterFinish ==
    [][ /\ status = "finished" /\ ~Recover =>
              UNCHANGED <<status, packages>> /\ reply' # "question"
        /\ saved.status = "finished" => status' = "finished" ]_vars

(* The floor passes only to the next enabled round, and only when the quota *)
(* of the one who leaves is used up (_handle_quota_exhausted).  A restart   *)
(* gives it back to whoever had it at the last save.                        *)
LeavesOnlyWhenSpent ==
    [][ agent' # NoAgent /\ agent' # Current /\ ~Recover =>
          /\ quota'.agent[Current] = 0
          /\ Position(agent') = Position(Current) + 1 ]_vars

(***************************************************************************)
(* Liveness.                                                               *)
(***************************************************************************)

\* A restart that gives back turns, or takes back an end, that were not saved.
Lost == Recover /\ <<turn, status>>' # <<turn, status>>

(* If the candidate keeps answering, the interview ends, however often the  *)
(* model fails, saves fail or code is submitted - unless restarts keep      *)
(* taking back turns that were not saved: a turn whose question the model   *)
(* failed to put never is (api.step, startup_event).                        *)
Terminates == <>[](status = "finished") \/ []<><<Lost>>_vars

(***************************************************************************)
(* The interview implements its contract: the round held is the position   *)
(* of the current agent (the first one before the start) and the turns     *)
(* left are the interview's remaining quota.                               *)
(***************************************************************************)
RoundOfAgent(a) ==
    IF Rounds = << >> THEN 0 ELSE Position(IF a = NoAgent THEN Rounds[1] ELSE a)

Contract == INSTANCE InterviewContract WITH
    nRounds   <- Len(Rounds),
    round     <- RoundOfAgent(agent),
    left      <- quota.global,
    questions <- Len(packages),
    open      <- (status = "ongoing"),
    kept      <- [ round     |-> RoundOfAgent(saved.agent),
                   left      |-> NonNeg(config.total - saved.turn),
                   questions |-> Len(saved.packages),
                   open      |-> saved.status = "ongoing" ]

(* Every step of the orchestrator, of a code submission or of a restart is  *)
(* a step of the contract or changes nothing it speaks of.                  *)
ImplementsContract == Contract!ContractSafety

(***************************************************************************)
(* The interview uses its quota manager only as module QuotaManager allows *)
(* any caller to, from one restart to the next.                            *)
(***************************************************************************)
Manager == INSTANCE QuotaManager WITH MaxOldTurns <- 0

Accounts       == <<turn, used, roundTurns>>
StoredAccounts == <<saved.turn, saved.used, saved.roundTurns>>

\* The manager of the accounts last saved.
Reloaded ==
    /\ Accounts' = StoredAccounts
    /\ quota' = Manager!Restore(config, turn', used', roundTurns')
    /\ UNCHANGED <<config, StoredAccounts>>

(* A step of the interview meters one turn of one agent in one of that      *)
(* agent's sub-stages, together with the turn counter and the consumption   *)
(* kept with it, or leaves them all alone, and may save these accounts; or  *)
(* it rebuilds the manager from the accounts last saved (check_and_consume, *)
(* _persist_to_state, _restore_from_state as the engine and startup_event   *)
(* call them).                                                              *)
ImplementsManager ==
    /\ Manager!Init /\ StoredAccounts = Accounts
    /\ [][ \/ /\ Manager!Next \/ UNCHANGED Manager!vars
              /\ StoredAccounts' \in {StoredAccounts, Accounts'}
           \/ Reloaded ]_<<Manager!vars, StoredAccounts>>
=============================================================================
