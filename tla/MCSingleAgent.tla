---------------------------- MODULE MCSingleAgent ----------------------------
(* Two threads; the last stage is reached by the tenth turn.                *)
EXTENDS SingleAgent

CONSTANTS t1, t2

MCThreads == {t1, t2}
MCTotals  == {1, 2, 6, 16}
=============================================================================
