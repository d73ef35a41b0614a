-------------------------- MODULE InterviewContract --------------------------
(***************************************************************************)
(* What an interview promises whoever configured it, without sub-stages,   *)
(* quotas of agents or failures of the model: a walk along the enabled     *)
(* rounds, in order and without skipping one, that asks at most one        *)
(* question per turn, spends a turn for each answer and asks nothing once  *)
(* it is closed.  Where the walk has got to may be kept, and a restart     *)
(* resumes the walk where it was last kept, unless it was closed by then.  *)
(***************************************************************************)
EXTENDS Naturals

VARIABLES
    nRounds,     \* how many rounds are enabled
    round,       \* the round being held, 0 when there is none
    left,        \* the turns left
    questions,   \* the questions asked so far
    open,        \* the interview is not over
    kept         \* the place last kept

place        == <<nRounds, round, left, questions, open>>
contractVars == <<place, kept>>

Place == [round |-> round, left |-> left, questions |-> questions, open |-> open]

ContractInit ==
    /\ nRounds \in Nat
    /\ left \in Nat \ {0}
    /\ round = IF nRounds = 0 THEN 0 ELSE 1
    /\ questions = 0
    /\ open = TRUE
    /\ kept = Place

\* An answer is taken and a question put by the interviewer of the round or
\* of the following one; the question may fail to come.
Exchange ==
    /\ open = TRUE /\ left > 0
    /\ left' = left - 1
    /\ round' \in {round, round + 1} \cap (1 .. nRounds)
    /\ questions' \in {questions, questions + 1}
    /\ UNCHANGED <<nRounds, open>>

\* The interview ends; the last answer may cost a turn.
Close ==
    /\ open = TRUE
    /\ open' = FALSE
    /\ left' \in {left, left - 1} \cap Nat
    /\ UNCHANGED <<nRounds, round, questions>>

\* Answers sent after the end are counted and change nothing else.
Late ==
    /\ open = FALSE
    /\ left > 0
    /\ left' = left - 1
    /\ UNCHANGED <<nRounds, round, questions, open>>

Keeps == kept' \in {kept, Place'}

Resume ==
    /\ kept.open = TRUE
    /\ Place' = kept
    /\ UNCHANGED <<nRounds, kept>>

ContractNext ==
    \/ (Exchange \/ Close \/ Late \/ UNCHANGED place) /\ Keeps
    \/ Resume

ContractSafety == ContractInit /\ [][ContractNext]_contractVars
=============================================================================
