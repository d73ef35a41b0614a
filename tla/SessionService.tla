---------------------------- MODULE SessionService ----------------------------
(***************************************************************************)
(* The sessions behind the HTTP API (api.py) and the store that outlives    *)
(* the process (storage/session_store.py).  Handlers run in threads with no *)
(* lock per session, so a turn is a sequence of actions between which other *)
(* requests come in.  What an interview does in a turn is the subject of    *)
(* Interview; here it is a counter that moves and an end that is reached.   *)
(* A session configured without rounds, which never counts, is left out.    *)
(***************************************************************************)
EXTENDS Naturals

CONSTANTS
    Sessions,   \* session ids (a new one is never one used before)
    Threads,    \* what the server runs requests on
    Gone,       \* no orchestrator, or no entry in the store
    MaxTurn,    \* bound on the turns and submissions of a session
    MaxCoded

ASSUME BoundAssumption == MaxTurn \in Nat /\ MaxCoded \in Nat

Modes == {"multi_agent", "single_agent"}

VARIABLES
    backend,     \* the store get_session_store chose: "redis" or "memory"
    requested,   \* the mode a session was created with, Gone before it is
    live,        \* _sessions: the orchestrator and the state it holds
    store,       \* _session_store: serialised states
    started,     \* the keys of _session_start_times
    request,     \* what each thread is doing
    \* History, for the properties.
    acked,       \* the state at the last reply whose save succeeded
    dropped,     \* the sessions whose entry was removed since
    raced        \* the sessions that served two turns at once, ever

vars == <<backend, requested, live, store, started, request, acked, dropped, raced>>

\* turn is InterviewState.turn; count is the single agent's own turn_count,
\* which no state holds; coded counts the code submissions.
Orchestrator == [mode : Modes, turn : Nat, count : Nat, over : BOOLEAN, coded : Nat]
Snapshot     == [turn : Nat, finished : BOOLEAN, coded : Nat]

ASSUME GoneAssumption == Gone \notin Modes \cup Orchestrator \cup Snapshot

Idle    == [pc |-> "idle"]
Request == {Idle}
      \cup [pc : {"asking"}, session : Sessions, late : BOOLEAN]
      \cup [pc : {"answered", "saving"}, session : Sessions, fin : BOOLEAN]
      \cup [pc : {"reading"}, session : Sessions, turn : Nat]
      \cup [pc : {"writing"}, session : Sessions, snap : Snapshot]

Busy(s) == \E t \in Threads : request[t] # Idle /\ request[t].session = s

\* InterviewState.status: the single agent never sets it.
Finished(o) == o.over /\ o.mode = "multi_agent"

New(mode)    == [mode |-> mode, turn |-> 0, count |-> 0, over |-> FALSE, coded |-> 0]
Empty        == [turn |-> 0, finished |-> FALSE, coded |-> 0]
Answered(o)  == [turn |-> o.turn, finished |-> Finished(o), coded |-> o.coded]

----------------------------------------------------------------------------
(***************************************************************************)
(* The store.  A save or a deletion in Redis may raise, before or after it  *)
(* took effect; every handler swallows that.                                *)
(***************************************************************************)
Saved(s, snap) == store' = [store EXCEPT ![s] = snap]
MayFail        == backend = "redis"
SaveFailed(s, snap) == MayFail /\ store' \in {store, [store EXCEPT ![s] = snap]}

Init ==
    /\ backend \in {"redis", "memory"}
    /\ requested = [s \in Sessions |-> Gone]
    /\ live = [s \in Sessions |-> Gone]
    /\ store = [s \in Sessions |-> Gone]
    /\ started = {}
    /\ request = [t \in Threads |-> Idle]
    /\ acked = [s \in Sessions |-> Gone]
    /\ dropped = {}
    /\ raced = {}

\* create_session
Create(s, mode) ==
    /\ requested[s] = Gone
    /\ requested' = [requested EXCEPT ![s] = mode]
    /\ live' = [live EXCEPT ![s] = New(mode)]
    /\ started' = started \cup {s}
    /\ \/ Saved(s, Empty) /\ acked' = [acked EXCEPT ![s] = Empty]
       \/ SaveFailed(s, Empty) /\ acked' = acked
    /\ UNCHANGED <<backend, request, dropped, raced>>

(***************************************************************************)
(* A turn: step, or the generator behind /stream.                           *)
(***************************************************************************)

\* The turn is counted before anything is asked of the model; the single
\* agent counts in the orchestrator.
Enter(t, s) ==
    LET o == live[s]
    IN  /\ request[t] = Idle
        /\ o # Gone
        /\ IF o.mode = "multi_agent"
           THEN o.turn < MaxTurn /\ live' = [live EXCEPT ![s].turn = @ + 1]
           ELSE o.count < MaxTurn /\ live' = [live EXCEPT ![s].count = @ + 1]
        /\ request' = [request EXCEPT ![t] = [pc |-> "asking", session |-> s, late |-> o.over]]
        /\ raced' = IF Busy(s) THEN raced \cup {s} ELSE raced
        /\ UNCHANGED <<backend, requested, store, started, acked, dropped>>

\* A question; the single agent's turn is recorded with it.
Reply(t) ==
    LET s == request[t].session
    IN  /\ request[t].pc = "asking" /\ ~request[t].late
        /\ live' = IF live[s].mode = "multi_agent" THEN live
                   ELSE [live EXCEPT ![s].turn = live[s].count]
        /\ request' = [request EXCEPT ![t] = [pc |-> "answered", session |-> s, fin |-> FALSE]]
        /\ UNCHANGED <<backend, requested, store, started, acked, dropped, raced>>

\* The report; a turn taken after the end reports again.
Conclude(t) ==
    LET s == request[t].session
    IN  /\ request[t].pc = "asking"
        /\ live' = [live EXCEPT ![s].over = TRUE]
        /\ request' = [request EXCEPT ![t] = [pc |-> "answered", session |-> s, fin |-> TRUE]]
        /\ UNCHANGED <<backend, requested, store, started, acked, dropped, raced>>

\* The model raises, or the reader of a stream goes away: nothing is saved.
Abandon(t) ==
    /\ request[t].pc \in {"asking", "answered"}
    /\ request' = [request EXCEPT ![t] = Idle]
    /\ UNCHANGED <<backend, requested, live, store, started, acked, dropped, raced>>

\* Faulty variant: the result is not looked at.
ForgetsAlways(t) == TRUE

Forgets(t) == request[t].fin

\* _record_session_duration_if_finished
Forget(t) ==
    LET s == request[t].session
        deleted == [store EXCEPT ![s] = Gone]
    IN  /\ request[t].pc = "answered"
        /\ IF Forgets(t)
           THEN /\ started' = started \ {s}
                /\ store' = deleted \/ (MayFail /\ store' = store)
           ELSE UNCHANGED <<started, store>>
        /\ dropped' = IF request[t].fin THEN dropped \cup {s} ELSE dropped
        /\ request' = [request EXCEPT ![t].pc = "saving"]
        /\ UNCHANGED <<backend, requested, live, acked, raced>>

\* to_json reads the state field by field, turn long before status.
ReadTurn(t) ==
    LET s == request[t].session
    IN  /\ request[t].pc = "saving"
        /\ request' = [request EXCEPT ![t] = [pc |-> "reading", session |-> s, turn |-> live[s].turn]]
        /\ UNCHANGED <<backend, requested, live, store, started, acked, dropped, raced>>

\* Faulty variant: the status is not serialised.
SerialisedWithoutStatus(o, turn) == [turn |-> turn, finished |-> FALSE, coded |-> o.coded]

Serialised(o, turn) == [turn |-> turn, finished |-> Finished(o), coded |-> o.coded]

ReadStatus(t) ==
    LET s == request[t].session
    IN  /\ request[t].pc = "reading"
        /\ request' = [request EXCEPT ![t] =
               [pc |-> "writing", session |-> s, snap |-> Serialised(live[s], request[t].turn)]]
        /\ UNCHANGED <<backend, requested, live, store, started, acked, dropped, raced>>

\* A history that grows while it is copied makes to_json raise.
SerialiseFails(t) ==
    /\ request[t].pc = "reading"
    /\ request[t].session \in raced
    /\ request' = [request EXCEPT ![t] = Idle]
    /\ UNCHANGED <<backend, requested, live, store, started, acked, dropped, raced>>

Write(t) ==
    LET s == request[t].session
        snap == request[t].snap
    IN  /\ request[t].pc = "writing"
        /\ \/ /\ Saved(s, snap)
              /\ acked' = [acked EXCEPT ![s] = Answered(live[s])]
              /\ dropped' = dropped \ {s}
           \/ /\ SaveFailed(s, snap)
              /\ UNCHANGED <<acked, dropped>>
        /\ request' = [request EXCEPT ![t] = Idle]
        /\ UNCHANGED <<backend, requested, live, started, raced>>

(***************************************************************************)
(* Everything else.                                                         *)
(***************************************************************************)

\* submit_code: the state changes and is not saved.
SubmitCode(s) ==
    /\ live[s] # Gone
    /\ live[s].mode = "multi_agent"
    /\ live[s].coded < MaxCoded
    /\ live' = [live EXCEPT ![s].coded = @ + 1]
    /\ UNCHANGED <<backend, requested, store, started, request, acked, dropped, raced>>

\* A day after its last save: the TTL of a Redis key, or cleanup_expired.
Expire(s) ==
    /\ store[s] # Gone
    /\ store' = [store EXCEPT ![s] = Gone]
    /\ dropped' = dropped \cup {s}
    /\ UNCHANGED <<backend, requested, live, started, request, acked, raced>>

\* Faulty variant: the state is not the stored one.
RevivedAfresh(snap) == New("multi_agent")

\* An orchestrator over a stored state: the state has no mode.
Revived(snap) ==
    [mode |-> "multi_agent", turn |-> snap.turn, count |-> 0, over |-> FALSE, coded |-> snap.coded]

\* Faulty variant: the start times of the sessions lost are kept.
TimedAll(recovered) == started \cup recovered

Timed(recovered) == recovered

\* The process dies and startup_event runs in the next one.  Listing the store
\* or loading an entry may fail: what is not recovered stays in the store.
Restart ==
    LET kept == IF backend = "memory" THEN [s \in Sessions |-> Gone] ELSE store
        ongoing == {s \in Sessions : kept[s] # Gone /\ ~kept[s].finished}
    IN  \E recovered \in SUBSET ongoing :
            /\ store' = kept
            /\ live' = [s \in Sessions |-> IF s \in recovered THEN Revived(kept[s]) ELSE Gone]
            /\ started' = Timed(recovered)
            /\ request' = [t \in Threads |-> Idle]
            /\ dropped' = IF backend = "memory" THEN Sessions ELSE dropped
            /\ UNCHANGED <<backend, requested, acked, raced>>

Next ==
    \/ \E s \in Sessions :
          \/ \E mode \in Modes : Create(s, mode)
          \/ \E t \in Threads : Enter(t, s)
          \/ SubmitCode(s)
          \/ Expire(s)
    \/ \E t \in Threads :
          \/ Reply(t) \/ Conclude(t) \/ Abandon(t)
          \/ Forget(t) \/ ReadTurn(t) \/ ReadStatus(t) \/ SerialiseFails(t) \/ Write(t)
    \/ Restart

Spec == Init /\ [][Next]_vars

----------------------------------------------------------------------------
(* Only sessions that can be asked for are being timed: the start times     *)
(* never name a session without an orchestrator (api.py).                   *)
TypeOK ==
    /\ backend \in {"redis", "memory"}
    /\ requested \in [Sessions -> Modes \cup {Gone}]
    /\ live \in [Sessions -> Orchestrator \cup {Gone}]
    /\ store \in [Sessions -> Snapshot \cup {Gone}]
    /\ started \in SUBSET Sessions
    /\ \A s \in started : live[s] # Gone
    /\ request \in [Threads -> Request]
    /\ acked \in [Sessions -> Snapshot \cup {Gone}]
    /\ dropped \in SUBSET Sessions
    /\ raced \in SUBSET Sessions

\* o is what became of the state that snap was taken of.
Past(snap, o) ==
    /\ snap.turn <= o.turn
    /\ snap.coded <= o.coded
    /\ snap.finished => Finished(o)

(* What is stored is the session's past: even with turns that overlap,      *)
(* snapshots taken while others change the state, saves that fail half-way  *)
(* and restarts, no stored field is ahead of the session a client sees.     *)
StoredIsPast ==
    \A s \in Sessions :
        store[s] # Gone /\ live[s] # Gone => Past(store[s], live[s])

(* A turn that was answered and saved is there after any later failure or   *)
(* restart, until its entry expires, the interview ends or, with no Redis,  *)
(* the process does; unless two turns of the session overlapped.            *)
AnsweredSurvives ==
    \A s \in Sessions :
        s \notin raced /\ s \notin dropped /\ acked[s] # Gone =>
            /\ store[s] # Gone
            /\ acked[s].turn <= store[s].turn
            /\ acked[s].finished => store[s].finished

(* An interview whose end was saved is not resumed by a restart: its        *)
(* session is over or not there (startup_event).                            *)
EndedIsNotResumed ==
    \A s \in Sessions :
        s \notin raced /\ acked[s] # Gone /\ live[s] # Gone =>
            (acked[s].finished => Finished(live[s]))

(* A restart brings a session back in the mode it was created with          *)
(* (api.py:708, "Recover active sessions from persistent store on startup", *)
(* and the test of the mode at api.py:718).                                 *)
ModeSurvivesRestart ==
    \A s \in Sessions : live[s] # Gone => live[s].mode = requested[s]

(***************************************************************************)
(* The service implements sessions that move forward and come back as they *)
(* were stored.  A client sees the turns, the end and the submissions of a *)
(* session; threads, start times and what a reply acknowledged are the     *)
(* service's own, and so is the mode.                                      *)
(***************************************************************************)
Durable == INSTANCE DurableSessions WITH
    opened     <- {s \in Sessions : requested[s] # Gone},
    current    <- [s \in Sessions |-> IF live[s] = Gone THEN Gone ELSE Answered(live[s])],
    checkpoint <- store,
    overlapped <- raced

(* Every step of a handler, of the store or of a restart is one of these:  *)
(* a save that takes its snapshot field by field, or fails half-way, never *)
(* stores what was not reached nor, without overlap, undoes an earlier     *)
(* save; and a restart revives what was stored (api.py, session_store.py). *)
ImplementsDurableSessions == Durable!SessionsSpec
=============================================================================
