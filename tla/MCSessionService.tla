--------------------------- MODULE MCSessionService ---------------------------
(* One session, which shares nothing with the others but the moment of a    *)
(* restart, served by three threads.                                        *)
EXTENDS SessionService, TLC

Symmetry == Permutations(Threads)
=============================================================================
