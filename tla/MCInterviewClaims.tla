-------------------------- MODULE MCInterviewClaims --------------------------
(* The instances in which the documented claims fail. *)
EXTENDS MCInterview, InterviewClaims
=============================================================================
