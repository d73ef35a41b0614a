----------------------------- MODULE SingleAgent -----------------------------
(***************************************************************************)
(* The baseline interviewer (baseline/single_agent_orchestrator.py): one   *)
(* model that plays the five stages in turn.  Its step runs in worker      *)
(* threads with no lock, and what one thread does between two calls of a   *)
(* function is an action.  It never sets the state's status: only its own  *)
(* turn counter ends the interview.  A model that fails is replaced by     *)
(* another, and that by a fixed sentence, so a question always comes.      *)
(***************************************************************************)
EXTENDS Integers, FiniteSets

CONSTANTS
    Threads,     \* what the server runs steps on
    Totals,      \* the values of total_max_turns
    MaxTurn      \* bound on the steps, past the end

ASSUME ThreadsAssumption == IsFiniteSet(Threads)
ASSUME TotalsAssumption == Totals \subseteq Nat \ {0}

VARIABLES
    total,       \* state.config.total_max_turns
    turnCount,   \* turn_count
    index,       \* current_stage_index, from 0
    stageTurns,  \* stage_turn_counts
    asked,       \* state.transfer_queue: how many questions each stage put,
    latest,      \* and the stage of the last one, 0 before it
    request,     \* what each thread is doing
    \* History, for the properties.
    raced        \* two steps have overlapped

vars == <<total, turnCount, index, stageTurns, asked, latest, request, raced>>

\* STAGES: tech1, tech2, sysdes, leader and hr, by their positions.
Last      == 5
Positions == 1 .. Last

\* _get_stage_config
StageMax(i) == <<4, 4, 3, 2, 2>>[i]

Here      == index + 1          \* the position of the present stage

Idle(reply) == [pc |-> "idle", reply |-> reply]
Working(pc, i) == [pc |-> pc, stage |-> i]

Request ==
    [pc : {"idle"}, reply : {"none", "question", "report", "error"}]
      \cup [pc : {"starting", "reporting", "entering"}]
      \cup [pc : {"checking", "advancing", "asking"}, stage : Positions]

IsIdle(t) == request[t].pc = "idle"
Busy      == {t \in Threads : ~IsIdle(t)}
Pending   == {t \in Busy : request[t].pc # "reporting"}     \* will put a question
Advancing == {t \in Threads : request[t].pc = "advancing"}

Continue(t, r) == request' = [request EXCEPT ![t] = r]

Init ==
    /\ total \in Totals
    /\ turnCount = 0
    /\ index = 0
    /\ stageTurns = [i \in Positions |-> 0]
    /\ asked = [i \in Positions |-> 0]
    /\ latest = 0
    /\ request = [t \in Threads |-> Idle("none")]
    /\ raced = FALSE

----------------------------------------------------------------------------
\* Faulty variant: the turn is counted after the check.
EndsBeforeCounting == turnCount >= total

\* Faulty variant: the end is met at one turn only.
EndsOnce == turnCount + 1 = total

\* The counter has already moved.
Ends == turnCount + 1 >= total

Count(t) ==
    /\ IsIdle(t) /\ turnCount < MaxTurn
    /\ turnCount' = turnCount + 1
    /\ Continue(t, IF Ends THEN [pc |-> "reporting"] ELSE [pc |-> "starting"])
    /\ raced' = (raced \/ Busy # {})
    /\ UNCHANGED <<total, index, stageTurns, asked, latest>>

\* Faulty variant: an error of the model while reporting is not caught.
ReportOrRaise(t) ==
    /\ request[t].pc = "reporting"
    /\ \E r \in {"report", "error"} : Continue(t, Idle(r))
    /\ UNCHANGED <<total, turnCount, index, stageTurns, asked, latest, raced>>

\* A model that fails is replaced by a fixed sentence.
Report(t) ==
    /\ request[t].pc = "reporting"
    /\ Continue(t, Idle("report"))
    /\ UNCHANGED <<total, turnCount, index, stageTurns, asked, latest, raced>>

\* STAGES[current_stage_index] past the last stage: IndexError.
OutOfStages(t) ==
    /\ request[t].pc \in {"starting", "entering"}
    /\ Here \notin Positions
    /\ Continue(t, Idle("error"))
    /\ UNCHANGED <<total, turnCount, index, stageTurns, asked, latest, raced>>

LookUp(t) ==
    /\ request[t].pc = "starting"
    /\ Here \in Positions
    /\ stageTurns' = [stageTurns EXCEPT ![Here] = @ + 1]
    /\ Continue(t, Working("checking", Here))
    /\ UNCHANGED <<total, turnCount, index, asked, latest, raced>>

\* Faulty variant: a stage gives way one turn late.
SpentLate(i) == stageTurns[i] > StageMax(i)

Spent(i) == stageTurns[i] >= StageMax(i)

\* Faulty variant: the last stage is advanced from like any other.
RoomAlways == TRUE

\* The index is read here, and len() called before it is moved.
Room == index < Last - 1

Check(t) ==
    /\ request[t].pc = "checking"
    /\ LET i == request[t].stage
       IN  Continue(t, Working(IF Spent(i) /\ Room THEN "advancing" ELSE "asking", i))
    /\ UNCHANGED <<total, turnCount, index, stageTurns, asked, latest, raced>>

\* Faulty variant: the index is moved by the check and by the entry.
AdvanceTwice(t) ==
    /\ request[t].pc = "advancing"
    /\ index' = index + 2
    /\ Continue(t, [pc |-> "entering"])
    /\ UNCHANGED <<total, turnCount, stageTurns, asked, latest, raced>>

Advance(t) ==
    /\ request[t].pc = "advancing"
    /\ index' = index + 1
    /\ Continue(t, [pc |-> "entering"])
    /\ UNCHANGED <<total, turnCount, stageTurns, asked, latest, raced>>

\* Faulty variant: the count of the stage before goes on.
FirstTurnCarried == stageTurns[index] + 1

FirstTurn == 1

Enter(t) ==
    /\ request[t].pc = "entering"
    /\ Here \in Positions
    /\ stageTurns' = [stageTurns EXCEPT ![Here] = FirstTurn]
    /\ Continue(t, Working("asking", Here))
    /\ UNCHANGED <<total, turnCount, index, asked, latest, raced>>

\* The model has answered; the package names the stage of the question.
Put(t) ==
    /\ request[t].pc = "asking"
    /\ LET i == request[t].stage
       IN  asked' = [asked EXCEPT ![i] = @ + 1] /\ latest' = i
    /\ Continue(t, Idle("question"))
    /\ UNCHANGED <<total, turnCount, index, stageTurns, raced>>

Step(t) ==
    \/ Count(t) \/ Report(t) \/ OutOfStages(t) \/ LookUp(t) \/ Check(t)
    \/ Advance(t) \/ Enter(t) \/ Put(t)

\* Nothing more is sent.
Done ==
    /\ turnCount = MaxTurn /\ Busy = {}
    /\ UNCHANGED vars

Next == (\E t \in Threads : Step(t)) \/ Done

Spec == Init /\ [][Next]_vars

\* The candidate keeps answering, and the threads run.
FairSpec == Spec /\ \A t \in Threads : WF_vars(Step(t))

----------------------------------------------------------------------------
Questions == asked[1] + asked[2] + asked[3] + asked[4] + asked[5]

(* The fields of the orchestrator and of the state it keeps; no stage      *)
(* counts more turns than were taken.                                      *)
TypeOK ==
    /\ total \in Nat \ {0}
    /\ turnCount \in Nat
    /\ index \in Nat
    /\ stageTurns \in [Positions -> Nat]
    /\ \A i \in Positions : stageTurns[i] <= turnCount
    /\ asked \in [Positions -> Nat]
    /\ latest \in Positions \cup {0}
    /\ request \in [Threads -> Request]
    /\ raced \in BOOLEAN

(* However steps overlap, the questions put and those being made stay      *)
(* below total_max_turns, and below the answers taken.                     *)
QuestionsWithinTotal ==
    /\ Questions + Cardinality(Pending) <= turnCount
    /\ Questions + Cardinality(Pending) < total

(* As long as steps follow one another the stages come in their order,     *)
(* none is skipped and none comes back.                                    *)
StageOrder ==
    [][ ~raced' => latest' \in {latest, latest + 1} ]_vars

(* As long as steps follow one another every stage but the last gives way  *)
(* one question short of its max_turns, for the turn that reaches the      *)
(* limit already belongs to the next.                                      *)
StageShare ==
    ~raced =>
        \A i \in Positions : i < Last =>
            /\ asked[i] < StageMax(i)
            /\ i < Here /\ Busy = {} => asked[i] = StageMax(i) - 1

(* Steps that overlap may move the index past the last stage, after which  *)
(* every step raises; never by more than the threads, and never without    *)
(* overlap.                                                                *)
IndexBounded ==
    /\ index + Cardinality(Advancing) <= Last - 2 + Cardinality(Threads)
    /\ ~raced => Here \in Positions

(* Once the report is due no step is granted a question any more, and      *)
(* every later answer is replied to with a report again.                   *)
EndIsFinal ==
    [][ turnCount >= total =>
          /\ Pending' \subseteq Pending
          /\ Questions' + Cardinality(Pending') <= Questions + Cardinality(Pending)
      ]_vars

(* If the candidate keeps answering, the report comes, also when the steps *)
(* in between raised.                                                      *)
ReportComes == <>(\E t \in Threads : request[t] = Idle("report"))

(***************************************************************************)
(* The baseline makes the promise of the crew (module SharedContract),     *)
(* with one interviewer and so one round: a question is on its way from    *)
(* the count of its turn, with no lock, until the thread has put it or     *)
(* raised.  This is the life of one process: nothing is kept after the     *)
(* start, and nothing resumed.                                             *)
(***************************************************************************)
Shared == INSTANCE SharedContract WITH
    nRounds <- 1,
    round   <- 1,
    left    <- IF turnCount < total THEN total - turnCount ELSE 0,
    earned  <- [k \in 1 .. 1 |-> Cardinality(Pending)],
    put     <- [k \in 1 .. 1 |-> Questions],
    open    <- (turnCount < total),
    kept    <- [round |-> 1, left |-> total, put |-> [k \in 1 .. 1 |-> 0], open |-> TRUE]

(* Every step of a thread is one of the contract, or changes nothing it    *)
(* speaks of: no answer earns two questions, and none is earned once the   *)
(* report is due (SingleAgentOrchestrator.step).                           *)
ImplementsSharedContract == Shared!SharedSpec
=============================================================================
