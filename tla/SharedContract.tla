--------------------------- MODULE SharedContract ----------------------------
(***************************************************************************)
(* What an interview promises when requests to it overlap: each answer     *)
(* taken while it is open spends a turn at once and earns one question,    *)
(* which belongs to the round it was earned in and may come later, or      *)
(* never.  The rounds are held in order.  When the interview is closed     *)
(* nothing more is earned, though what was earned may still come.  Where   *)
(* the interview stands may be kept at any moment; if it was open then, it *)
(* may be resumed there, and what was on its way is lost.  Modules Streams *)
(* and SingleAgent implement it.                                           *)
(***************************************************************************)
EXTENDS Naturals

VARIABLES
    nRounds,    \* how many rounds are enabled
    round,      \* the round being held, 0 when there is none
    left,       \* the turns left
    earned,     \* the questions on their way, per round
    put,        \* the questions put, per round
    open,       \* the interview is not over
    kept        \* the place last kept

standing   == <<nRounds, round, left, earned, put, open>>
sharedVars == <<standing, kept>>

Place == [round |-> round, left |-> left, put |-> put, open |-> open]

None == [k \in 1 .. nRounds |-> 0]

SharedInit ==
    /\ nRounds \in Nat
    /\ left \in Nat \ {0}
    /\ round = IF nRounds = 0 THEN 0 ELSE 1
    /\ earned = None
    /\ put = None
    /\ open = TRUE
    /\ kept = Place

\* The interviewer of round k, this one or the next, is to put a question.
Earn(k) ==
    /\ open = TRUE /\ left > 0
    /\ k \in {round, round + 1}
    /\ left' = left - 1
    /\ round' = k
    /\ earned' = [earned EXCEPT ![k] = @ + 1]
    /\ UNCHANGED <<nRounds, put, open>>

Settle(k) ==
    /\ earned[k] > 0
    /\ earned' = [earned EXCEPT ![k] = @ - 1]
    /\ put' \in {put, [put EXCEPT ![k] = @ + 1]}
    /\ UNCHANGED <<nRounds, round, left, open>>

End ==
    /\ open = TRUE
    /\ open' = FALSE
    /\ left' \in {left, left - 1} \cap Nat
    /\ UNCHANGED <<nRounds, round, earned, put>>

\* Answers sent after the end.
Late ==
    /\ open = FALSE /\ left > 0
    /\ left' = left - 1
    /\ UNCHANGED <<nRounds, round, earned, put, open>>

Keeps == kept' \in {kept, Place'}

Resume ==
    /\ kept.open = TRUE
    /\ Place' = kept
    /\ earned' = None
    /\ UNCHANGED <<nRounds, kept>>

SharedNext ==
    \/ /\ \/ \E k \in 1 .. nRounds : Earn(k) \/ Settle(k)
          \/ End \/ Late \/ UNCHANGED standing
       /\ Keeps
    \/ Resume

SharedSpec == SharedInit /\ [][SharedNext]_sharedVars
=============================================================================
