# TLA+ verification of InterviewCrew

InterviewCrew conducts a technical interview with several language-model
interviewers. A candidate's answers arrive over HTTP; an orchestrator decides who
asks the next question, how long each interviewer may go on, when the interview
ends, and keeps the state of it so that a restarted server can go on. This
directory models that control logic in TLA+, checks it with TLC on small
instances, and proves its main properties with TLAPS for every value of the
constants. Paths below are relative to `src/`; code is in `interview_crew/`.

## 1. The system

| Component | Code | State it keeps | Operations |
|---|---|---|---|
| Interview state | `state.py` | turn, status, current agent, sub-stage and stage turns of tech1/tech2, coding task, transfer queue, consumed quotas | `advance_sub_stage`, `reset_agent_stage`, `to_json` / `from_json` |
| Turn quota manager | `orchestrator/quota.py` | what remains of the interview's, each agent's and each sub-stage's turns; what was consumed goes to the state | `check`, `consume`, `reset_stage_quota`, restore, persist |
| Orchestrator | `orchestrator/engine.py` | the enabled rounds, the quota manager | `step`, `async_step`, the handlers of an exhausted quota, of a completed round of sub-stages and of the end |
| Code submission | `api.py:499` | none of its own | runs the code, advances the sub-stage, asks the first reflect question |
| Session API | `api.py` | `_sessions`, `_session_start_times` | create, step, stream, submit, recover at startup, expire |
| Session store | `storage/session_store.py` | serialised states, in memory or in Redis with a TTL | save, load, delete, list, cleanup |
| Rate limiter | `middleware/rate_limiter.py` | a global token bucket and one per session | `dispatch`, `consume` |
| Single-agent baseline | `baseline/single_agent_orchestrator.py` | its own turn and stage counts | `step` |
| Sandbox | `services/*.py` | a container or a subprocess | `execute` |
| Arbitration, budget | `orchestrator/conflict_arbitrator.py`, `budget_guardian.py` | the budget left | `detect_conflict`, `check_and_downgrade` |
| Agents, memory, LLM clients, tools, UI, CLI | the rest | text and metrics | |

How they interact: a request passes the rate limiter, is looked up in `_sessions`
and calls the session's orchestrator in a worker thread (`step`, `submit_code`) or
in the event loop (`stream`). The orchestrator consumes a turn from the quota
manager, which writes the consumption into the state; then it asks the language
model, appends a package to the state's transfer queue and returns. The handler
then serialises the state and saves it, unless the model raised: an error ends the
handler before the save, a stream saves only after its last chunk, and `submit_code`
never saves. Nothing locks a session. After a restart the startup handler builds a new
orchestrator, with a new quota manager, over each stored state that is not finished; what
was not saved is gone, the turns it had used included.

What is hard about it: three levels of quota that run out in any order, each with
a different consequence; a step that consumes before it is routed; failures of the
model half-way through a turn; code submissions between any two steps; answers
sent after the end; recovery of the manager from what the last saved state remembers of it;
turns of one session that overlap, in threads and on the event loop; saves and
clean-ups whose errors are swallowed; programs that never end, and a daemon that
fails half-way; a clock that can be set. What makes each part correct:

- **Quota**: no level grants more than its limit; refused turns, which are consumed
  too, do no harm; the state determines the manager.
- **Interview**: no question past the total; the rounds in order, none skipped or
  revisited, the floor passed only when spent; questions paid for; nothing asked
  after the end; the end reached.
- **Session service**: the store is never ahead of the session; what was answered
  and saved is not lost; what ended is not resumed.
- **Streams**: what a stream read before it waited for the model may be out of date
  when it goes on; still no question too many, none unpaid, none granted after the end.
- **Sandbox**: a pass is earned, a failure deserved or excused by trouble outside the
  program, nothing left behind, every submission answered.
- **Single agent**: the total whatever overlaps; stages in order while nothing does.
- **Rate limiter**: bounded grants in any window; bounded lock-out.

`PROJECT.json` lists the hazards one by one, with the line each bites at and the
properties that cover it.

## 2. The modules

    Quota               limits and manager arithmetic as operators on values
      QuotaManager      the manager in free use, with restarts
        QuotaGrants         what it let through, as history           MCQuotaManager
        QuotaLemmas, QuotaManagerProofs
      Interview         orchestrator + state + submission + recovery  MCInterview
        InterviewContract   the abstract interview it implements
        InterviewClaims     what the documents say and the code breaks  MCInterviewClaims
        InterviewProofs
        Streams             requests of one interview that overlap  MCStreams
          SharedContract      the contract under overlap it implements
          StreamsProofs
    Sandbox             submissions, containers, subprocesses         MCSandbox
      SandboxProofs
    SingleAgent         the baseline interviewer in threads           MCSingleAgent
      (SharedContract)      implemented by this module too
      SingleAgentProofs
    SessionService      API handlers, store, restarts                 MCSessionService
      DurableSessions       what a client of sessions may count on
      SessionServiceProofs
    RateLimiter         token buckets, filled when asked              MCRateLimiter
      TokenBuckets          buckets filled by time, which it implements
      RateLimiterProofs

A definition called `...` with a comment "Faulty variant" is a bug the code does
not have: it stands next to the definition it could replace, so that each property
can be shown to fail when the code is wrong.

**Quota** (`orchestrator/quota.py`, `protocol/schemas.py`). A configuration is a
record of the enabled rounds, the total, and per agent `max_turns`, the legacy
stage fields and `stage_turn_limits`. `StageLimit` keeps the precedence of
`_get_stage_limit`, `AdvanceLimit` the different one of the engine. `Check`,
`Consume`, `ResetStage`, `Persist` and `Restore` are the manager's methods on a
record `[global, agent, stage]`. The lazily filled dictionaries are total functions:
an absent key reads as the full limit everywhere in the code. A sub-stage that
`stage_turn_limits` names and `state.py` does not know is left out; none is ever
entered.

**QuotaManager** uses those operators more freely than the engine does: any agent,
any stage, any order, with resets and restarts at any point, over states of new
sessions and of sessions stored before quotas existed. **QuotaGrants** adds a history variable,
the turns `check` let through. QuotaManager itself has none, so that it can serve as a
specification: Interview, and Streams with it, implement it under
`Manager == INSTANCE QuotaManager WITH MaxOldTurns <- 0`, whose variables are theirs by name.

**Interview** is one interview. An action is a whole call of `step`: `Metered` is
what every step does before it is routed (check, consume, persist, count), and the
actions are the routes. `FinishEmpty`: no round is enabled. `FinishSpent`: the last
global unit was just consumed (`_finish_interview`). `FinishExhausted`: a quota
is exhausted and nobody is left (`_handle_quota_exhausted`). `SwitchAgent`,
`AdvanceStage`: its two other outcomes. `StartRound`: chat, coding and reflect
begin again (`_handle_agent_round_complete`). `ContinueStage`: an ordinary turn.
`Ask` is the part they share: the model answers, and the package, the stage
counter, the advance at the limit and the coding task follow; or
it raises, and only what preceded the call remains. `AsyncStep` is `async_step`: the same
routes, with the ordinary turn streamed (`StreamTurn`). `SubmitCode` is the
handler of `api.py:499`, allowed between any two steps.

The variable `saved` is the state as the session store last took it, a `Snapshot` of the
fields (`to_json`). A request is `Serve`: a step or a stream, then `Saves`, as the handlers
of `api.py` do it. A model that raised, a save that raised and a reader who left leave the old
snapshot; a submission always does. `Recover` is `startup_event` at any moment: every field goes
back to the snapshot, if that is of a running interview, and the manager is rebuilt over it. So
turns that failed, or were not saved, come back. That a store may also lose an entry, or be overtaken by
another thread's snapshot, is SessionService's. The text of questions,
histories, summaries, scores and token counts is left out, and so is the conflict flag, which nothing
that runs reads; whether an answer carries a coding problem is a free choice.

**InterviewContract** is the interview as whoever configured it sees it: rounds in
order, at most one question per turn, nothing after the end; the place it has got to may be kept
(`Keeps`), and it may be resumed at the place last kept if it was open there (`Resume`). `Interview` implements
it under the mapping in `Contract == INSTANCE InterviewContract WITH ...`.

**Streams** takes Interview apart where `async_step` gives the event loop away. It
extends Interview and uses its routing (`Metered`, `Leaves`, `StageExpired`, ...), so the
two cannot drift apart. A request of the
stream endpoints enters (`StreamQuestion`, `BlockOnSwitch`, `BlockOnAdvance`,
`BlockOnRound`), having consumed its turn and chosen who asks; `calls` holds the
interviewer and the sub-stage it read; `Record` or `Lose` uses them once the model has answered,
raised, or the reader has left. An ordinary turn leaves the loop to other streams
(`"streaming"`); a switch, an advance and a new round call the synchronous handler, which
keeps the loop (`"blocking"`, `LoopFree`), though not the threads of submissions. A
submission is three steps (`Submit`, `Judge`, `Reflect`): the task is read before its program
runs, the interviewer after it. A stream that has ended without an error is in `saving` until `Save`, which stores the
state as it is then and not as it was when the stream ended. `Crash` ends every request and goes back to the last save,
so the turns of streams that were open, failed or had yet to save come back. What runs between two of these points is
one action. Left out: a synchronous `step` in a worker thread while streams are open, which could
interleave with them at any instruction.

**SharedContract** is the interview as its client sees it when requests overlap: a turn is spent
at once and earns a question of the present or the next round, which comes later or never;
after the end nothing more is earned. Where it stands may be kept at any moment, and `Resume` goes back there
with nothing on its way. Streams implements it with one entry of `earned` per
round, counting the streams open for its interviewer; SingleAgent with a single round, whose
questions on their way are the threads that have counted and whose place kept stays the first one, because a restart
never builds a baseline again. The two mappings are called `Shared`.

**Sandbox** is a submission from `submit_code` to its reply. `GetClient`,
`PrepareFolder`, `Launch`, `Collect` or `GiveUp`, and `Cleanup` are
`DockerCodeExecutor.execute`; `RefuseForbidden`, `WriteFile`, `RunTest`, `LoseTest` and
`EndTests` are `execute_python`; `Mock` is the mock for other languages. Every
call of the daemon and the disk may raise, before or after its effect, and goes where the
code's `except` leads. A program is what the code can tell of it: whether it loads, whether
it can be analysed, whether a pattern forbids it, and what each test gives in a
container and in a process of its own, which differ because the two harnesses know
different functions. `trouble` is a history variable: what went wrong outside the
program. `Answer` is the handler with the verdict: the current interviewer may have changed
meanwhile and refuse; a failed test makes the reply itself raise; a reply that could be made may still be
lost, because a submission that enters the reflect stage asks the model for its first question, which may raise
(`"model_error"`). Both errors reach the client as an internal error. A program that prints the runner's markers itself is left out.

**SingleAgent** is `SingleAgentOrchestrator.step` in threads without a lock. An
action is what a thread does between two calls of functions, the points where CPython lets
another run: `Count`, `LookUp`, `Check`, `Advance`, `Enter`, `Put`,
and `Report` at the end. `OutOfStages` is the `IndexError` of a stage index past the list.
`raced` remembers that two steps overlapped. The state's status is not among the
variables, because this class never touches it.

**SessionService** is the life of sessions. A request is a thread's program, after
`api.py:383` and the generator of `api.py:419`: `Enter` (look-up, and the turn is
counted), `Reply` or `Conclude`, `Forget`
(`_record_session_duration_if_finished`), `ReadTurn` and `ReadStatus`
(`to_json` copies field by field), `Write`. `Abandon` is a model call that raises
or a reader of a stream who leaves. `Restart` is the death of the process and
`startup_event`; listing or loading may fail, so any subset of the stored unfinished
sessions comes back. A Redis call that raises may or may not have taken effect;
one that takes effect only later is not modelled. The memory store never
fails and dies with the process. An interview is a turn counter and a free
choice of the moment it ends: the details are Interview's. `acked`, `dropped` and
`raced` are history variables: what was answered and saved, whose entry
was deleted since, whose turns ever overlapped. Counting a turn is one
action: `turn += 1` on a plain attribute is not interrupted by another thread in CPython.

**DurableSessions** is a store of sessions without threads, look-ups, snapshots and start times: a
session is opened, advances, is checkpointed from its own past, discarded, and after a crash is
what its last checkpoint was, or gone. While turns of a session have not overlapped, its checkpoints
only move forward. SessionService implements it under the mapping `Durable`.

**RateLimiter** is `dispatch`, which has no suspension point that anything else
could use between its two `consume` calls (each bucket's lock is free when it is
asked for), so a request is one action. Fractions of tokens are integers: `Cost`
units make a token. The clock ticks, and may be set by any of `Adjustments`.

**TokenBuckets** has no clock and no time stamps: every bucket exists from the beginning and
gains its rate at each tick. RateLimiter, which fills a bucket when it is asked and makes
it when it is named, implements it under the mapping `Promise`, by what each bucket would hold if asked now.
A request takes from the global bucket before it asks its session's.

## 3. The runs

| Run | What it checks | Size |
|---|---|---|
| `quota_manager` | type, `RestartInvisible`, `GrantedWithinLimits`, `NeverRefunded` | 9 318 states |
| `interview` | type, `QuestionsWithinTotal`, `VisitOrder`, `QuestionsMetered`, `NoQuestionAfterFinish`, `LeavesOnlyWhenSpent`, `ImplementsContract`, `ImplementsManager`; `Terminates` under `FairSpec` | 205 983 states |
| `streams` | type, `OverlapWithinTotal`, `OverlapMetered`, `EndsOnlyWhenSpent`, `EndIsFinal`, `ImplementsSharedContract`; `AllStreamsEnd` under `StreamsFairSpec` | 327 833 states |
| `submission` | type, `NothingLeftBehind`, `PassedMeansPassed`, `RightFailsOnlyByTrouble`; `EveryCodeAnswered` under `FairSpec` | 1 487 516 states |
| `single_agent` | type, `QuestionsWithinTotal`, `StageShare`, `IndexBounded`, `StageOrder`, `ImplementsSharedContract`; `ReportComes` under `FairSpec` | 902 257 states |
| `session_service` | type, `AnsweredSurvives`, `EndedIsNotResumed`, `ImplementsDurableSessions` | 138 233 states |
| `rate_limiter` | type, `WindowBound`, `DebtBounded`, `ImplementsBuckets` | 440 003 states |
| `turns_within_total`, `report_delivered`, `shown_question_recorded`, `mode_survives_restart`, `failure_explained` | one claim of the documents, comments or tests each, violated | stops at the counterexample |

What the passing runs show:

- **Quotas.** Whatever is called in whatever order, the turns let through stay within
  the limits of every agent and of the interview although refused turns are consumed
  too; the stored state rebuilds the manager exactly, also for sessions of older
  versions; neither a reset nor a manager rebuilt over the same `InterviewState` returns turns of an agent or of the
  interview. (A restart that loads an older snapshot does: see Ends.)
- **Interviews.** With model failures, failed saves, submissions and restarts anywhere: no
  package is later than the total-th turn, packages follow the enabled rounds in order,
  each question is paid by its interviewer except the one on taking over, which the
  predecessor pays, so an interviewer who was switched to asks up to `max_turns + 1`
  questions; the floor leaves only an interviewer with nothing left, to the next
  round; a finished interview stays finished and asks nothing more, although neither
  `step` nor `async_step` looks at the status. A restart goes back to one moment that was saved, and undoes an end only if
  the end was not saved. Every step uses the quota manager as any caller may, and a restart rebuilds the manager of the
  accounts last saved.
- **Ends.** If the candidate keeps answering, the interview ends, however often the model or the store fails, unless
  restarts keep taking back turns that were not saved. The exception is real: a step whose model call raises
  uses up a turn and is not saved (`api.py:388`), so failing and restarting in turn keeps an interview open for
  ever. Hence the second disjunct of `Terminates`, restarts (`Lost`) without end that undo a turn or an end; a restart that
  loses neither, and any finite number of those that do, are covered.
- **Streams.** However streams overlap, the questions put, those on their way and the turns left
  fit in the total, because a turn is consumed before the loop is given away. Each is paid by the
  interviewer who asks it, even if the floor has passed on when it arrives. A question granted before the end may
  arrive after it; none is granted after it, and the interview is over only because the total or the
  last interviewer was spent. Each turn earns one question at most, of the round it was spent in, although
  what the stream read before it waited may be out of date. A crash goes back to one moment that was saved, with nothing
  on its way. Every stream ends, and so does the interview, unless crashes keep taking back what was not saved, which includes
  the turns of all streams that were open.
- **Submissions.** What runs is removed unless the daemon or the disk raised; two of these exceptions are
  leaks of the code: a container whose `run` raised after making it, and a temporary file whose
  `write` raised before the `try`. A pass means that every test passed in one place, where
  "passed" includes a program that exits with an empty output, which every expected
  value contains, and a task without tests. A right program fails only for trouble
  outside it. Programs that never end are answered by the timeouts. A submission is
  answered by an internal error for a failed test, a text that cannot be analysed, a disk that raised, or, also when it
  passed, a model that raised on the question of the reflect stage.
- **The baseline.** It keeps the contract of the streams, without a lock: the total holds and
  the end is final even if steps overlap; while they do not, stages come in
  order and each but the last puts one question fewer than its `max_turns`, because the turn that
  reaches the limit is asked by the next. Two threads may move the index past the last stage; from then on every step
  raises, yet the report comes, since the turn counter alone decides it.
- **Sessions.** However requests overlap, no stored field is ahead of the live
  session, and what a restart revives is what was stored; without overlap no save undoes another. A saved answer survives every failed save and every restart with Redis,
  and an interview whose end was saved is never resumed, as long as two turns of the session have not
  overlapped. With overlap both fail, since the slower thread saves the older
  snapshot over the newer one: this is why `raced` is in both properties.
- **Buckets.** In any window of time a bucket grants at most its capacity plus what
  its rate and the forward settings of the clock bring; a client locked out by a
  clock set back owes no more than that setting. Filling and making buckets late decides
  no request differently from buckets that are filled by time.

What the violated claims show (each is a finding in `PROJECT.json` with the
sentence it quotes):

1. `TurnsWithinTotal`: a step rerouted because an agent or a stage was spent consumes the
   last global unit and returns before the end check. The next step is turn total + 1.
2. `ReportDelivered`: `_handle_quota_exhausted` stores the tuple that
   `_generate_report` returns in the string field `report`.
3. `ShownQuestionRecorded`: `_execute_turn_async` returns inside the `async for` of its
   last branch, so an interviewer without sub-stages is cut after the first chunk.
4. `ModeSurvivesRestart`: a single-agent session, even one that has reported, is
   recovered as a multi-agent interview, because the state has no mode.
5. `FailureExplained`: the reply to a failed submission reads `t.passed` of a dictionary; the
   request ends in an internal error before the sub-stage moves.

Also read in the code, shown by no run of its own: the conflict flag that should route to tech2
(`docs/TECHNICAL.md:112`) is read by `_next_agent` only, which nothing calls, and is not in the model;
`submit_code` never saves, so a restart before the next turn forgets what it did; a submission
neither checks that the stage is coding nor clears the task, so a second one
moves reflect to done, although `api.py:558` speaks of coding to reflect only; two streams that
ask in the same sub-stage can advance it twice, because the limit is compared with the
counter of the sub-stage of the moment; every chunk of a stream adds the
estimate of the whole turn to the stored token totals; the budget guardian starts afresh in a
recovered orchestrator; `create_session` passes a round without `stage_turn_limits` as
`None`, which the schema refuses; a legacy stage field that differs from its
default wins over `stage_turn_limits` in the quota manager while the engine's
threshold only knows the legacy field; nothing calls `reset_stage_quota`, so a second
round of sub-stages runs on what the first left; an interviewer without sub-stages who opens the interview
runs `max_turns - 1` turns, because the answer that consumes the last unit already
switches; the addressee of a package is computed before the next answer is
consumed; the question a submission asks is counted in the reflect stage without the
comparison with its limit; a request that its session's bucket refuses has used a
global token; buckets and live sessions are never removed; `get_session_store` reads
`host` from a client object that has none and so always connects to localhost.

### Bounds

- `MCInterview`: three interviewers, two with sub-stages; six configurations chosen so
  that the interview ends by the total, by the last interviewer and at once, that a
  technical interviewer runs several rounds of sub-stages, that an interviewer has a
  single turn, and that global, agent and stage quotas run out in different orders.
  `MaxTurn = 7` leaves room for a turn after every end (the largest total is 6).
- `MCStreams`: two streams and one submission at a time; five configurations that end by the
  total, by the last interviewer and at once, with stages of one turn and interviewers of one to three, so that a stage, an
  interviewer and the total run out within two overlapping requests. `MaxTurn = 5` is
  beyond every total (at most 4), as 7 is in `MCInterview`, so the bound stops only interviews that are over
  and no liveness is lost to it.
- `MCSandbox`: two submissions, which share only the client, and programs that cover each
  branch: right and wrong in either place, exiting early, never ending, forbidden, not analysable, without tests,
  in another language, looking incomplete. Two tests are enough to distinguish the last, the first and all.
- `MCSingleAgent`: two threads; totals of 1, 2, 6 and 16, so that interviews end at once, in the second stage,
  and after the last stage was reached (the tenth turn) and overrun.
- `MCQuotaManager`: an interviewer with sub-stages and one without; legacy limits,
  `stage_turn_limits`, and both for the same stage; sessions that start with up to two
  old turns.
- `MCSessionService`: one session, because sessions share only the moment of a
  restart and the backend; three threads, three turns, one submission. The store of a
  session, its restart and its overlap do not depend on other sessions. Threads are symmetric.
- `MCRateLimiter`: two sessions and the global bucket, rates and capacities that are
  not multiples of a request's cost, a clock up to 5 with settings by 3 and -2, windows up to 4 ticks, at most 4 back.
  Sessions are symmetric.

Deadlock is checked but in `interview` and `streams`, where the system may really stop: once an end was saved nothing
restarts the session, and `MaxTurn` bounds the answers sent after it. A running interview that could not
go on would violate `Terminates` or `AllStreamsEnd`.

### Fairness

`FairSpec` of Interview assumes weak fairness of `Serve`, a step or a stream, only: the
candidate goes on answering, as the loops of `cli.py` and of the benchmarks do. Nothing is
assumed of submissions, saves or restarts, nor of the model: every call
may raise, since a turn is consumed before the model is asked. `StreamsFairSpec` assumes
the same of the requests together, and of each stream that it is answered, lost
or closed in the end, as the event loop and the timeouts of the HTTP client see to, and that its handler then runs
to its end (`Save`, which may fail). `FairSpec`
of Sandbox assumes that a handler's thread runs and that calls of the daemon return or raise; it assumes
nothing of the program, whose end `Collect` requires: only the timeout (`GiveUp`,
`LoseTest`) makes the liveness hold, as its mutant shows. `FairSpec` of SingleAgent assumes that each
thread runs and that answers keep coming. SessionService and RateLimiter state no
liveness; a client may leave at any time.

## 4. The proofs

All theorems hold for every value of the constants that satisfies the named
assumptions: `Tech` is a set of agents, configurations are in `Config` with no agent
twice, the turn bound exceeds every total; rates, costs and capacities are natural numbers;
the values that stand for "nothing" are not values of anything else. The open streams and the baseline's threads
are finite sets; a program's two lists of outcomes cover the same tests. Bounds are constants like
any other, so no theorem depends on their size.

| Module | Theorems | Inductive invariant |
|---|---|---|
| QuotaManagerProofs | `QuotaTypeCorrect`, `RestartIsInvisible`, `GrantsAreBounded`, `QuotaNeverRefunded` | `Within`: nothing remains beyond its limit, without which storing "limit minus remainder" and restoring it would not be inverse; `Accounted`: what was let through and what remains fit in the limits together, because a bound on what was let through says nothing of the next grant |
| InterviewProofs | `InterviewTypeCorrect`, `QuestionsStayWithinTotal`, `RoundsVisitedInOrder`, `QuestionsArePaid`, `RecoveryIsInvisible`, `NothingAskedAfterFinish`, `FloorPassesWhenSpent`, `NoEarlyEnd` | `Metering` (the state mirrors the manager), `Floor` (an interview is over only for a reason that cannot go away), `Visits` (every package is of this turn or earlier and of an interviewer at or before the current one). Order and payment are not inductive without them. For restarts the same is asked of the stored state (`SoundAt(config, saved)`), and that it is no further than the live one (`Behind`): together `HInv` |
| InterviewProofs | `InterviewImplementsContract`, `InterviewUsesManager` | from the same invariant: every step maps to `Exchange`, `Close`, `Late` or a stutter of the contract, keeping the place if it saves, and a restart to `Resume`; and to `Meter` or a stutter of the manager, a restart to `Reloaded`, the manager of the accounts last stored |
| InterviewProofs | `RoutingIsTotal`, `AnswersRunOut`, `QuotasOnlyShrink` | from the same invariant: the conditions of the branches of `step` exclude each other and cover every case; the answers an interview can still take (`AnswersLeft`) fall with each answer and are raised only by a restart that lost unsaved turns; that leaves as many as are stored (`StoredLeft`), which nothing raises and every save of a running interview lowers (it follows a turn); no quota grows in any step but a restart |
| StreamsProofs | `StreamsTypeCorrect`, `OverlapStaysWithinTotal`, `OverlapIsPaid`, `CrashIsInvisible`, `NoStreamAfterEnd`, `OverlapLeavesWhenSpent`, `NoEarlyEndWithOverlap` | the overlap properties together with `Metering` and `Floor` of InterviewProofs: a turn granted is one less in the quota, so packages, open streams and what remains are accounted as a whole. The lemmas on Interview's routing are reused. What is stored has the same properties with no stream in hand (`KeptAt`) and is no further than the live state (`Behind`): together `CInv` |
| StreamsProofs | `StreamsImplementContract`, `StreamsUseManager`, `StreamsRunOut` | from the same invariant: taking up a stream is `Earn`, its answer `Settle`, the end `End`, a save `Keeps`, a crash `Resume`; the measure `StreamsLeft` counts a turn left twice, once to be taken up and once to be answered; only a crash that lost something raises it, to `StreamsStored`, which nothing raises and every save that got further lowers |
| SandboxProofs | `SandboxTypeCorrect`, `SandboxCleansUp`, `PassesAreEarned`, `FailuresAreExcused` | per submission, what its verdict says at each phase (`SoundAt`: while tests run, the results so far are those of the tests so far) and what it may hold (`CleanAt`). The properties speak of judged submissions only, and so are not inductive |
| SandboxProofs | `WorkIsBounded`, `OnlyExcusedErrors` | the rank `WorkAhead`, stages and tests ahead, which falls at every step however a submission fails over; `ErrorsAreExcused`, the true half of the violated `FailureExplained`: a submission is answered by an error only for a failed test, a text that cannot be analysed, a disk error, or, where the reply could be made, a model that raised on the reflect question |
| SingleAgentProofs | `SingleTypeCorrect`, `SingleStaysWithinTotal`, `SingleEndIsFinal`, `SingleIndexBounded`, `SingleAgentImplementsContract` | `Overlap`: for the threads' set, by cardinalities; a stage's count plus the turns not looked up yet is within the turns taken |
| SingleAgentProofs | `SingleStageShare`, `SingleStageOrder` | `Ordered`, as long as nothing overlapped: what the one working thread has already counted and where it stands |
| RateLimiterProofs | `BucketsWithinCapacity`, `WindowsAreBounded`, `DebtsAreBounded`, `LimiterImplementsBuckets` | `Covered`: granted plus still available is within capacity plus accrual; the window bound alone forgets what the bucket still holds. The refinement rests on what `Available` is after a fill, a tick and a setting |
| SessionServiceProofs | `ServiceTypeCorrect`, `StoreIsThePast`, `AnswersSurvive`, `EndedStaysEnded` | `PInv`: snapshots on their way to the store are past too, and the single agent's count is never behind its recorded turn. `UInv`: without overlap a session has one request, its snapshot is up to date, and live and stored state hold all that was answered |
| SessionServiceProofs | `ServiceImplementsSessions`, `CrewStaysCrew` | `PInv`, `UInv` and `CodedKept`: without overlap, a submission counted since a snapshot was taken is not stored before it is written. `RequestedOrCrew`, the true half of the violated `ModeSurvivesRestart`: a session comes back as it was requested or as the crew's |

`QuotaLemmas` holds the facts about the operators of Quota that both quota proofs
use: every limit is positive, what `Consume` takes at each level, and that `Restore`
undoes `Persist` on a manager within its limits. Each step lemma treats one action
or the part several actions share.

The refinements are proved on initial states and on steps. Each step lemma names the abstract step an action
maps to, and all of them are combined in the theorem. Six theorems state properties that have no run of their
own because a stronger property is checked: `RecoveryIsInvisible`, `CrashIsInvisible` (now part of `ImplementsManager`
with `RestartInvisible` of the manager), `StoreIsThePast` (`ImplementsDurableSessions`), `SingleEndIsFinal`
(`ImplementsSharedContract`), `NoEarlyEnd` and `OverlapLeavesWhenSpent`, which the run of the other module checks.

Only model-checked: `Terminates`, `AllStreamsEnd`, `EveryCodeAnswered`, `ReportComes`, because liveness under fairness, which rests on
ENABLED, is out of the prover's reach, and the violated claims, which are facts about single behaviours. Of the first three
everything else is proved: `AnswersRunOut`, `StreamsRunOut` and `WorkIsBounded` show that each step towards the end lowers a measure, in the
first two that nothing but a restart which lost unsaved turns raises it, back to the measure of what is stored, which only
falls, and in the last that a step of one submission leaves the measure of every other alone. What is left to TLC is that such a
step is enabled until the end. `ReportComes` needs no more than that the turn counter rises, so it has no such theorem.

## 5. Not modelled

- A synchronous `step` of a session in a worker thread at the same time as its streams, or as
  another `step`: the threads may change over at nearly every instruction of the engine. SessionService has the overlap
  of whole turns and its effect on the store; the loss of a quota unit between two threads
  (`quota.py:174`) is visible in the code and needs no model.
- The configuration `create_session` builds, conflict detection, the token budget: functions
  without state of their own, or whose results decide nothing the properties are about. The
  interview modules take any configuration the schema accepts; the flag the arbitrator sets is read by nothing that runs.
- The harness code and the analysis of programs (`ast_analyzer.py`), agents, prompts, parsing of answers, memory
  distilling, mailbox: text. The orchestrator's decisions do not depend on them beyond
  what is left to free choice.
- LLM clients, metrics, CLI, demo server, static pages, benchmarks: input and output.

Worth adding: a theorem that ties the turns of SessionService to those of Interview, and
synchronous steps among the streams, cut at the points where the engine calls the model.

## 6. Running

    tlc -workers 2 -config MCInterview.cfg MCInterview
    tlapm InterviewProofs.tla

Each `.cfg` names its module in its file name, except the claims:
`MCModeSurvivesRestart.cfg` runs with `MCSessionService`, `MCFailureExplained.cfg` with `MCSandbox`, the others
(`MCTurnsWithinTotal.cfg`, ...) with `MCInterviewClaims`.
