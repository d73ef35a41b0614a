--------------------------- MODULE InterviewClaims ---------------------------
(***************************************************************************)
(* What the documentation, the comments and the tests of the repository    *)
(* say of an interview and the code does not do.  Each property quotes its *)
(* source; the README tells for each one how the code breaks it.           *)
(***************************************************************************)
EXTENDS Interview

(* No request takes a running interview past total_max_turns turns.        *)
(* tests/test_orchestrator.py:228 asserts turn <= total_max_turns.         *)
TurnsWithinTotal ==
    [][ status = "ongoing" => turn' <= config.total ]_vars

(* The step that ends the interview answers with the report, a string,     *)
(* unless the model raises (docs/TECHNICAL.md:145, engine.py:38).          *)
ReportDelivered ==
    [][ status = "ongoing" /\ status' = "finished"
          => reply' \in {"report", "llm_error"} ]_vars

(* A question the candidate is shown is recorded: streaming updates the    *)
(* state as step does (tests/test_async_step.py:116).                      *)
ShownQuestionRecorded ==
    [][ reply' = "question" => Len(packages') = Len(packages) + 1 ]_vars
=============================================================================
