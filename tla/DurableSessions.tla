--------------------------- MODULE DurableSessions ---------------------------
(***************************************************************************)
(* What a client of sessions may count on, whatever threads, a store that  *)
(* fails and restarts do: a session only moves forward, but for a crash;   *)
(* after a crash it is exactly what was checkpointed last, if anything of  *)
(* it is left; and a checkpoint is of its past.  While a session serves    *)
(* one request at a time its checkpoints move forward too.                 *)
(***************************************************************************)
EXTENDS Naturals

CONSTANTS Sessions, Gone

VARIABLES
    opened,       \* the sessions there have ever been
    current,      \* what each is, Gone when it is not there
    checkpoint,   \* what is kept of each for after a crash
    overlapped    \* those that served two requests at once, ever

sessionVars == <<opened, current, checkpoint, overlapped>>

Nowhere == [s \in Sessions |-> Gone]

Fresh == [turn |-> 0, finished |-> FALSE, coded |-> 0]

\* From x a session may have moved forward to y.
Behind(x, y) ==
    /\ x.turn <= y.turn
    /\ x.coded <= y.coded
    /\ x.finished => y.finished

\* f and g differ at s only.
Only(f, g, s) == \A r \in Sessions \ {s} : g[r] = f[r]

SessionsInit ==
    /\ opened = {}
    /\ current = Nowhere
    /\ checkpoint = Nowhere
    /\ overlapped = {}

Open(s) ==
    /\ s \notin opened
    /\ opened' = opened \cup {s}
    /\ current[s] = Gone /\ current'[s] = Fresh /\ Only(current, current', s)
    /\ checkpoint[s] = Gone /\ checkpoint'[s] \in {Gone, Fresh} /\ Only(checkpoint, checkpoint', s)
    /\ UNCHANGED overlapped

Advance(s) ==
    /\ current[s] # Gone /\ current'[s] # Gone
    /\ Behind(current[s], current'[s]) /\ Only(current, current', s)
    /\ overlapped' \in {overlapped, overlapped \cup {s}}
    /\ UNCHANGED <<opened, checkpoint>>

Checkpoint(s) ==
    /\ current[s] # Gone /\ checkpoint'[s] # Gone
    /\ Behind(checkpoint'[s], current[s]) /\ Only(checkpoint, checkpoint', s)
    /\ s \notin overlapped /\ checkpoint[s] # Gone => Behind(checkpoint[s], checkpoint'[s])
    /\ UNCHANGED <<opened, current, overlapped>>

\* It is over, or too old.
Discard(s) ==
    /\ checkpoint'[s] = Gone /\ Only(checkpoint, checkpoint', s)
    /\ UNCHANGED <<opened, current, overlapped>>

\* What was finished does not go on.
Crash ==
    /\ checkpoint' \in {checkpoint, Nowhere}
    /\ \A s \in Sessions :
          \/ current'[s] = Gone
          \/ current'[s] = checkpoint'[s] /\ ~checkpoint'[s].finished
    /\ UNCHANGED <<opened, overlapped>>

SessionsNext ==
    \/ \E s \in Sessions : Open(s) \/ Advance(s) \/ Checkpoint(s) \/ Discard(s)
    \/ Crash

SessionsSpec == SessionsInit /\ [][SessionsNext]_sessionVars
=============================================================================
