---------------------------- MODULE MCRateLimiter ----------------------------
(* Two sessions that share the global bucket; half a token accrues per tick *)
(* in a session, a whole one globally.                                      *)
EXTENDS RateLimiter, TLC

MCAdjustments == {-2, 3}
MCSymmetry == Permutations(Sessions)
=============================================================================
