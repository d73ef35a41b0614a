------------------------------- MODULE Streams -------------------------------
(***************************************************************************)
(* One interview with requests that overlap: streams (async_step behind    *)
(* the /stream endpoints), which share the event loop, and code            *)
(* submissions (api.submit_code), which run in worker threads.  A stream   *)
(* gives the loop away while the model answers; what it read before it     *)
(* still uses afterwards.  A handler reached from async_step asks the      *)
(* model synchronously: nothing else runs on the loop until it answers,    *)
(* but submissions do.  Only after its last chunk does a stream save, and  *)
(* the process may die at any point before.  The steps between two such    *)
(* points are Interview's.                                                 *)
(***************************************************************************)
EXTENDS Interview

CONSTANTS
    Readers,      \* the streams that can be open at once
    Submitters    \* the submissions that can be in hand at once

ASSUME RequestsAssumption ==
    /\ IsFiniteSet(Readers)
    /\ Readers \cap Submitters = {}

VARIABLES
    calls,    \* what each request has in hand
    saving    \* the streams that are answered and have yet to save

streamVars == <<vars, calls, saving>>

Idle     == [pc |-> "idle"]
Pending  == [pc : {"streaming", "blocking"}, agent : Agents, stage : Stages \cup {NoStage}]
Judging  == [pc : {"running"}] \cup [pc : {"reflecting"}, agent : Tech]

CallsTyped ==
    /\ calls \in [Readers \cup Submitters -> {Idle} \cup Pending \cup Judging]
    /\ \A r \in Readers : calls[r] \in {Idle} \cup Pending
    /\ \A s \in Submitters : calls[s] \in {Idle} \cup Judging
    /\ saving \subseteq Readers

(* The fields of the state, and the requests in hand.                      *)
StreamsTypeOK == TypeOK /\ CallsTyped

\* The streams whose question is still to come, all of them or agent a's.
Open        == {r \in Readers : calls[r] # Idle}
OpenFor(a)  == {r \in Open : calls[r].agent = a}

LoopFree == \A r \in Open : calls[r].pc # "blocking"

\* A stream gets on when it is not another one that blocks the loop.
GoesOn(r) == calls[r].pc = "blocking" \/ LoopFree

Hung(r) == calls' = [calls EXCEPT ![r] = Idle]

----------------------------------------------------------------------------
(***************************************************************************)
(* async_step up to the request to the model.                              *)
(***************************************************************************)
StageIn(st, a) == IF a \in Tech THEN st[a].stage ELSE NoStage

\* a is about to ask with its sub-stages at st.
Begin(r, pc, a, st) ==
    /\ agent' = a
    /\ stages' = st
    /\ task' = IF a \in Tech THEN Prepared(a, st[a]) ELSE task
    /\ calls' = [calls EXCEPT ![r] = [pc |-> pc, agent |-> a, stage |-> StageIn(st, a)]]
    /\ UNCHANGED <<status, packages, reply, saved, saving>>

\* A request is taken up when nothing keeps the event loop.
Enter(r) == calls[r] = Idle /\ r \notin saving /\ LoopFree

\* A handler whose model raised, or whose reader is gone, does not get to the save.
ThenSaves(r) == saving' = IF reply' = "llm_error" THEN saving ELSE saving \cup {r}

StreamQuestion(r) ==
    /\ Enter(r) /\ Metered
    /\ Normal /\ ~RoundComplete
    /\ Begin(r, "streaming", Current, stages)

BlockOnSwitch(r) ==
    /\ Enter(r) /\ Metered
    /\ Leaves /\ ~LastRound
    /\ LET next == Rounds[Position(Current) + 1]
       IN  Begin(r, "blocking", next,
                 IF next \in Tech THEN [StagesNow EXCEPT ![next] = Fresh] ELSE StagesNow)

BlockOnAdvance(r) ==
    /\ Enter(r) /\ Metered
    /\ StageExpired /\ ~RoundComplete
    /\ Begin(r, "blocking", Current, StagesNow)

BlockOnRound(r) ==
    /\ Enter(r) /\ Metered
    /\ RoundComplete /\ Spent.agent[Current] > 0
    /\ Begin(r, "blocking", Current, [stages EXCEPT ![Current] = Fresh])

StreamReport(r) ==
    /\ Enter(r)
    /\ FinishEmpty \/ FinishSpent \/ FinishExhausted
    /\ ThenSaves(r)
    /\ UNCHANGED <<saved, calls>>

Stream(r) ==
    \/ StreamQuestion(r) \/ BlockOnSwitch(r) \/ BlockOnAdvance(r) \/ BlockOnRound(r)
    \/ StreamReport(r)

(***************************************************************************)
(* async_step, or the blocking handler, once the model has answered.       *)
(***************************************************************************)

\* The counter is the present sub-stage's, the limit that of the sub-stage the
\* question was asked in.
Counted(a, stage, p) ==
    IF p.turns + 1 >= AdvanceLimit(config, a, stage) THEN Advanced([p EXCEPT !.turns = @ + 1])
    ELSE [p EXCEPT !.turns = @ + 1]

\* Faulty variant: the package names the interviewer of the moment.
AskerNow(r) == agent

Asker(r) == calls[r].agent

Record(r) ==
    LET a == calls[r].agent
    IN  /\ r \in Open /\ GoesOn(r)
        /\ packages' = Append(packages, [from |-> Asker(r), to |-> Peek(quota, a), round |-> turn])
        /\ reply' = "question"
        /\ IF a \in Tech
           THEN /\ stages' = [stages EXCEPT ![a] = Counted(a, calls[r].stage, @)]
                /\ task' \in {task, a}
           ELSE UNCHANGED <<stages, task>>
        /\ Hung(r) /\ ThenSaves(r)
        /\ UNCHANGED <<config, turn, status, agent, used, roundTurns, quota, saved>>

\* The model raises, the reader goes away, or an interviewer without sub-stages
\* is cut after the first chunk, which does not stop the handler: nothing is
\* recorded.
Lose(r) ==
    /\ r \in Open /\ GoesOn(r)
    /\ \/ reply' = "llm_error"
       \/ calls[r].pc = "streaming" /\ calls[r].stage = NoStage /\ reply' = "question"
    /\ Hung(r) /\ ThenSaves(r)
    /\ UNCHANGED <<config, turn, status, agent, stages, task, packages,
                   used, roundTurns, quota, saved>>

Answer(r) == Record(r) \/ Lose(r)

\* The end of the handler, after its last chunk: the state as it is then.  A save
\* that raises is swallowed, and the reader may be gone before it.
Save(r) ==
    /\ r \in saving /\ LoopFree
    /\ saving' = saving \ {r}
    /\ saved' \in {saved, Snapshot}
    /\ UNCHANGED <<config, turn, status, agent, stages, task, packages,
                   used, roundTurns, quota, reply, calls>>

(***************************************************************************)
(* api.submit_code, which never saves.                                     *)
(***************************************************************************)
Submit(s) ==
    /\ calls[s] = Idle
    /\ task # NoTask
    /\ calls' = [calls EXCEPT ![s] = [pc |-> "running"]]
    /\ UNCHANGED <<vars, saving>>

\* The code has run; only now the current interviewer is read.
Judge(s) ==
    /\ calls[s].pc = "running"
    /\ agent \in Tech
    /\ stages' = [stages EXCEPT ![agent] = Advanced(@)]
    /\ IF stages'[agent].stage = "reflect"
       THEN /\ calls' = [calls EXCEPT ![s] = [pc |-> "reflecting", agent |-> agent]]
            /\ UNCHANGED reply
       ELSE Hung(s) /\ reply' = "followup"
    /\ UNCHANGED <<config, turn, status, agent, task, packages,
                   used, roundTurns, quota, saved, saving>>

\* The model has put the first question of "reflect".
Reflect(s) ==
    /\ calls[s].pc = "reflecting"
    /\ stages' = [stages EXCEPT ![calls[s].agent].turns = @ + 1]
    /\ reply' = "followup"
    /\ Hung(s)
    /\ UNCHANGED <<config, turn, status, agent, task, packages,
                   used, roundTurns, quota, saved, saving>>

\* The answer to the submission raises, or there is no interviewer for it.
Refuse(s) ==
    /\ calls[s] # Idle
    /\ Hung(s)
    /\ UNCHANGED <<vars, saving>>

Submission(s) == Submit(s) \/ Judge(s) \/ Reflect(s) \/ Refuse(s)

----------------------------------------------------------------------------
StreamsInit == Init /\ calls = [r \in Readers \cup Submitters |-> Idle] /\ saving = {}

\* The process dies, and every request in hand with it.  It comes back with the
\* state last saved: the turns of the streams in hand, and of those that failed
\* or had yet to save, come back with it.
Crash ==
    /\ Recover
    /\ calls' = [r \in Readers \cup Submitters |-> Idle]
    /\ saving' = {}

StreamsNext ==
    \/ \E r \in Readers : Stream(r) \/ Answer(r) \/ Save(r)
    \/ \E s \in Submitters : Submission(s)
    \/ Crash

StreamsSpec == StreamsInit /\ [][StreamsNext]_streamVars

\* The candidate keeps answering, every stream ends one way or another, and its
\* handler is run to the end.
StreamsFairSpec ==
    /\ StreamsSpec
    /\ WF_streamVars(\E r \in Readers : Stream(r))
    /\ \A r \in Readers : WF_streamVars(Answer(r)) /\ WF_streamVars(Save(r))

----------------------------------------------------------------------------
(* However streams overlap, the questions put and those still to come fit  *)
(* with the turns left in total_max_turns: a turn is consumed before the   *)
(* loop is given away (async_step, check_and_consume).                     *)
OverlapWithinTotal ==
    Len(packages) + Cardinality(Open) + quota.global <= config.total

(* Every question put or to come was paid from the quota of the            *)
(* interviewer who puts it, except one for an interviewer who took over,   *)
(* although the floor may pass on while a question is on its way.          *)
OverlapMetered ==
    \A a \in Agents :
        QuestionsOf(a) + Cardinality(OpenFor(a)) <=
            used.agent[a] + IF Rounds # << >> /\ a # Rounds[1] THEN 1 ELSE 0

(* Once the interview is over no stream of it is granted a question; those *)
(* granted before may still come, one each, and nothing reopens it but a   *)
(* crash before the end was saved.  One that was saved is final.           *)
EndIsFinal ==
    [][ /\ status = "finished" /\ ~Crash =>
              /\ status' = "finished"
              /\ Open' \subseteq Open
              /\ Len(packages') + Cardinality(Open') <= Len(packages) + Cardinality(Open)
        /\ saved.status = "finished" => status' = "finished" ]_streamVars

(* If the candidate keeps answering, the interview ends and the last       *)
(* stream with it, whatever submissions, failures of the model and of the  *)
(* store do - unless crashes keep taking back turns that were not saved,   *)
(* as those of streams still open or failed never are (event_generator,    *)
(* startup_event).                                                         *)
AllStreamsEnd ==
    <>[](status = "finished" /\ Open = {}) \/ []<><<Lost>>_streamVars

(***************************************************************************)
(* Interviews whose requests overlap implement their contract: a question  *)
(* is on its way from the metering of its turn until it is recorded or     *)
(* lost, in the round of the interviewer who was to put it.                *)
(***************************************************************************)
Shared == INSTANCE SharedContract WITH
    nRounds <- Len(Rounds),
    round   <- RoundOfAgent(agent),
    left    <- quota.global,
    earned  <- [k \in 1 .. Len(Rounds) |-> Cardinality(OpenFor(Rounds[k]))],
    put     <- [k \in 1 .. Len(Rounds) |-> QuestionsOf(Rounds[k])],
    open    <- (status = "ongoing"),
    kept    <- [ round |-> RoundOfAgent(saved.agent),
                 left  |-> NonNeg(config.total - saved.turn),
                 put   |-> [k \in 1 .. Len(Rounds) |-> AskedBy(saved.packages, Rounds[k])],
                 open  |-> saved.status = "ongoing" ]

(* Every step of a stream, of a submission or of a crash is one of the      *)
(* contract, or changes nothing it speaks of: what a stream read before it  *)
(* gave the loop away is still what it was granted when it goes on, and a   *)
(* crash goes back to one moment that was saved, with nothing on its way    *)
(* (async_step, _execute_turn_async, startup_event).                        *)
ImplementsSharedContract == Shared!SharedSpec
=============================================================================
