------------------------ MODULE SessionServiceProofs ------------------------
(* Proofs about module SessionService, for every number of sessions and of   *)
(* threads.                                                                  *)
EXTENDS SessionService, TLAPS

(***************************************************************************)
(* The inductive invariant of the first two theorems.  A snapshot on its   *)
(* way to the store must already be of the past, and the turn a single     *)
(* agent will record is its own count, which is never behind.              *)
(***************************************************************************)
SingleCounts ==
    \A s \in Sessions :
        live[s] # Gone /\ live[s].mode = "single_agent" => live[s].turn <= live[s].count

Served == \A t \in Threads : request[t] # Idle => live[request[t].session] # Gone

\* A session is nowhere before it is created.
Unborn == \A s \in Sessions : requested[s] = Gone => live[s] = Gone /\ store[s] = Gone

SnapshotsArePast ==
    \A t \in Threads :
        /\ request[t].pc = "reading" => request[t].turn <= live[request[t].session].turn
        /\ request[t].pc = "writing" => Past(request[t].snap, live[request[t].session])

PInv == TypeOK /\ Unborn /\ SingleCounts /\ Served /\ SnapshotsArePast /\ StoredIsPast

(* What a request knows is decided by where it stands.                     *)
LEMMA RequestShape ==
    ASSUME TypeOK, NEW t \in Threads
    PROVE  /\ request[t] = Idle <=> request[t].pc = "idle"
           /\ request[t].pc # "idle" => request[t].session \in Sessions
           /\ request[t].pc = "asking" => request[t].late \in BOOLEAN
           /\ request[t].pc \in {"answered", "saving"} => request[t].fin \in BOOLEAN
           /\ request[t].pc = "reading" => request[t].turn \in Nat
           /\ request[t].pc = "writing" => request[t].snap \in Snapshot
           /\ request[t].pc \in {"idle", "asking", "answered", "saving", "reading", "writing"}
<1>1. request[t] \in Request
  BY DEF TypeOK
<1>2. QED
  BY <1>1 DEF Request, Idle

LEMMA Initial == Init => PInv
<1> SUFFICES ASSUME Init PROVE PInv
  OBVIOUS
<1>1. TypeOK
  BY DEF Init, TypeOK, Request, Idle
<1>2. QED
  BY <1>1 DEF Init, PInv, Unborn, SingleCounts, Served, SnapshotsArePast, StoredIsPast, Idle

(***************************************************************************)
(* What a step may do to the state an orchestrator holds.                  *)
(***************************************************************************)
Grows(o, p) ==
    /\ p \in Orchestrator
    /\ p.mode = o.mode
    /\ o.turn <= p.turn /\ o.coded <= p.coded
    /\ o.over => p.over
    /\ o.mode = "single_agent" /\ o.turn <= o.count => p.turn <= p.count

LEMMA GrownIsPast ==
    ASSUME NEW o \in Orchestrator, NEW p, Grows(o, p), NEW snap \in Snapshot, Past(snap, o)
    PROVE  Past(snap, p)
BY DEF Orchestrator, Snapshot, Past, Grows, Finished

LEMMA Reflexive ==
    ASSUME NEW o \in Orchestrator
    PROVE  Grows(o, o)
BY DEF Orchestrator, Grows

(* A step that only lets one orchestrator's state grow, and leaves the     *)
(* snapshots alone.                                                        *)
LEMMA Growth ==
    ASSUME PInv, TypeOK', NEW s \in Sessions, live[s] # Gone,
           NEW p, Grows(live[s], p), live' = [live EXCEPT ![s] = p],
           store' = store, requested' = requested,
           \A t \in Threads :
               \/ request'[t] = request[t]
               \/ request'[t].pc \notin {"reading", "writing"} /\ request'[t].session = s
    PROVE  PInv'
<1>0. TypeOK /\ Unborn /\ SingleCounts /\ Served /\ SnapshotsArePast /\ StoredIsPast
  BY DEF PInv
<1>1. \A r \in Sessions : live[r] # Gone => live'[r] # Gone /\ Grows(live[r], live'[r])
  <2> SUFFICES ASSUME NEW r \in Sessions, live[r] # Gone
               PROVE  live'[r] # Gone /\ Grows(live[r], live'[r])
    OBVIOUS
  <2>1. live[r] \in Orchestrator /\ p \in Orchestrator
    BY <1>0 DEF TypeOK, Grows
  <2>2. CASE r = s
    BY <1>0, <2>1, <2>2, GoneAssumption DEF TypeOK
  <2>3. CASE r # s
    BY <1>0, <2>1, <2>3, Reflexive DEF TypeOK
  <2>4. QED
    BY <2>2, <2>3
<1>2. \A r \in Sessions : live'[r] # Gone => live[r] # Gone
  BY <1>0 DEF TypeOK
<1>3. \A r \in Sessions : live[r] # Gone => live[r] \in Orchestrator
  BY <1>0 DEF TypeOK
<1>4. SingleCounts'
  BY <1>0, <1>1, <1>2 DEF SingleCounts, Grows
<1>5. Served'
  <2> SUFFICES ASSUME NEW t \in Threads, request'[t] # Idle
               PROVE  live'[request'[t].session] # Gone
    BY DEF Served
  <2>1. CASE request'[t] = request[t]
    BY <1>0, <1>1, <2>1, RequestShape DEF Served
  <2>2. CASE request'[t].session = s
    BY <1>1, <2>2
  <2>3. QED
    BY <2>1, <2>2
<1>6. SnapshotsArePast'
  <2> SUFFICES ASSUME NEW t \in Threads
               PROVE  /\ request'[t].pc = "reading" => request'[t].turn <= live'[request'[t].session].turn
                      /\ request'[t].pc = "writing" => Past(request'[t].snap, live'[request'[t].session])
    BY DEF SnapshotsArePast, Past, Finished
  <2>1. CASE request'[t].pc \notin {"reading", "writing"}
    BY <2>1
  <2>2. CASE request'[t] = request[t] /\ request[t].pc \in {"reading", "writing"}
    <3> DEFINE r == request[t].session
    <3>1. r \in Sessions /\ live[r] # Gone
      BY <1>0, <2>2, RequestShape DEF Served
    <3>2. live[r] \in Orchestrator /\ Grows(live[r], live'[r]) /\ live'[r] \in Orchestrator
      BY <1>1, <1>3, <3>1 DEF Grows
    <3>3. CASE request[t].pc = "reading"
      <4>1. request[t].turn \in Nat /\ request[t].turn <= live[r].turn
        BY <1>0, <3>3, RequestShape DEF SnapshotsArePast
      <4>2. live[r].turn \in Nat /\ live'[r].turn \in Nat /\ live[r].turn <= live'[r].turn
        BY <3>2 DEF Orchestrator, Grows
      <4>3. QED
        BY <2>2, <3>3, <4>1, <4>2
    <3>4. CASE request[t].pc = "writing"
      <4>1. request[t].snap \in Snapshot /\ Past(request[t].snap, live[r])
        BY <1>0, <3>4, RequestShape DEF SnapshotsArePast
      <4>2. Past(request[t].snap, live'[r])
        BY <3>2, <4>1, GrownIsPast
      <4>3. QED
        BY <2>2, <3>4, <4>2
    <3>5. QED
      BY <2>2, <3>3, <3>4
  <2>3. QED
    BY <2>1, <2>2
<1>7. StoredIsPast'
  <2> SUFFICES ASSUME NEW r \in Sessions, store'[r] # Gone, live'[r] # Gone
               PROVE  Past(store'[r], live'[r])
    BY DEF StoredIsPast, Past, Finished
  <2>1. store[r] \in Snapshot /\ Past(store[r], live[r]) /\ live[r] \in Orchestrator
    BY <1>0, <1>2, <1>3 DEF TypeOK, StoredIsPast
  <2>2. QED
    BY <1>1, <1>2, <2>1, GrownIsPast
<1>8. Unborn'
  BY <1>0, <1>2 DEF Unborn
<1>9. QED
  BY <1>4, <1>5, <1>6, <1>7, <1>8 DEF PInv

(* A step that leaves the orchestrators alone: what it stores, and the      *)
(* snapshots it takes, must be of the past.                                *)
LEMMA Storing ==
    ASSUME PInv, TypeOK', live' = live, requested' = requested,
           \A s \in Sessions :
               \/ store'[s] \in {store[s], Gone}
               \/ live[s] # Gone /\ Past(store'[s], live[s]),
           \A t \in Threads :
               \/ request'[t] = request[t]
               \/ request'[t] = Idle
               \/ /\ request[t] # Idle
                  /\ request'[t].session = request[t].session
                  /\ request'[t].pc = "reading" =>
                         request'[t].turn <= live[request'[t].session].turn
                  /\ request'[t].pc = "writing" =>
                         Past(request'[t].snap, live[request'[t].session])
    PROVE  PInv'
<1>0. TypeOK /\ Unborn /\ SingleCounts /\ Served /\ SnapshotsArePast /\ StoredIsPast
  BY DEF PInv
<1>1. SingleCounts'
  BY <1>0 DEF SingleCounts
<1>2. Served'
  BY <1>0 DEF Served
<1>3. SnapshotsArePast'
  BY <1>0 DEF SnapshotsArePast, Idle, Past, Finished
<1>4. StoredIsPast'
  BY <1>0 DEF StoredIsPast, Past, Finished
<1>5. Unborn'
  BY <1>0 DEF Unborn
<1>6. QED
  BY <1>1, <1>2, <1>3, <1>4, <1>5 DEF PInv
----------------------------------------------------------------------------
(***************************************************************************)
(* One lemma per action: its type, then the invariant by Growth or Storing.*)
(***************************************************************************)
LEMMA Creating ==
    ASSUME PInv, NEW s \in Sessions, NEW mode \in Modes, Create(s, mode)
    PROVE  PInv'
<1>0. TypeOK /\ Unborn /\ SingleCounts /\ Served /\ SnapshotsArePast /\ StoredIsPast
  BY DEF PInv
<1>1. New(mode) \in Orchestrator /\ New(mode) # Gone /\ Empty \in Snapshot /\ Empty # Gone
  <2>1. New(mode) \in Orchestrator
    BY DEF New, Orchestrator
  <2>2. Empty \in Snapshot
    BY DEF Empty, Snapshot
  <2>3. QED
    BY <2>1, <2>2, GoneAssumption
<1>2. store' \in {store, [store EXCEPT ![s] = Empty]}
  BY DEF Create, Saved, SaveFailed
<1>3. TypeOK'
  BY <1>0, <1>1, <1>2, GoneAssumption DEF Create, TypeOK
<1>4. /\ live' = [live EXCEPT ![s] = New(mode)] /\ request' = request
      /\ requested' = [requested EXCEPT ![s] = mode] /\ mode # Gone
      /\ live[s] = Gone /\ store[s] = Gone
  BY <1>0, GoneAssumption DEF Create, Unborn
<1>5. Unborn'
  BY <1>0, <1>2, <1>4 DEF Unborn, TypeOK
<1>6. SingleCounts'
  BY <1>0, <1>4 DEF SingleCounts, New, TypeOK
<1>7. \A t \in Threads : request[t] # Idle =>
          request[t].session \in Sessions /\ request[t].session # s
  BY <1>0, <1>4, RequestShape DEF Served
<1>8. Served'
  BY <1>0, <1>4, <1>7 DEF Served, TypeOK
<1>9. SnapshotsArePast'
  <2> SUFFICES ASSUME NEW t \in Threads, request[t].pc \in {"reading", "writing"}
               PROVE  live'[request[t].session] = live[request[t].session]
    BY <1>0, <1>4 DEF SnapshotsArePast, Past, Finished
  <2>1. QED
    BY <1>0, <1>4, <1>7, RequestShape DEF TypeOK
<1>10. StoredIsPast'
  <2>1. Past(Empty, New(mode))
    BY DEF Past, Empty, New
  <2>2. QED
    BY <1>0, <1>2, <1>4, <2>1 DEF StoredIsPast, TypeOK, Past, Finished
<1>11. QED
  BY <1>3, <1>5, <1>6, <1>8, <1>9, <1>10 DEF PInv

LEMMA Entering ==
    ASSUME PInv, NEW t \in Threads, NEW s \in Sessions, Enter(t, s)
    PROVE  PInv'
<1>0. TypeOK /\ Unborn /\ SingleCounts
  BY DEF PInv
<1> DEFINE p == IF live[s].mode = "multi_agent" THEN [live[s] EXCEPT !.turn = @ + 1]
                ELSE [live[s] EXCEPT !.count = @ + 1]
           r == [pc |-> "asking", session |-> s, late |-> live[s].over]
<1>1. live[s] # Gone /\ live[s] \in Orchestrator
  BY <1>0 DEF Enter, TypeOK
<1>2. live' = [live EXCEPT ![s] = p] /\ request' = [request EXCEPT ![t] = r]
  BY DEF Enter
<1>3. Grows(live[s], p)
  BY <1>1 DEF Orchestrator, Modes, Grows
<1>4. r \in Request
  BY <1>1 DEF Request, Orchestrator
<1>5. p \in Orchestrator /\ p # Gone
  BY <1>3, GoneAssumption DEF Grows
<1>6. /\ store' = store /\ requested' = requested /\ backend' = backend
      /\ started' = started /\ acked' = acked /\ dropped' = dropped
      /\ raced' \in {raced, raced \cup {s}}
  BY DEF Enter
<1> HIDE DEF p
<1>7. TypeOK'
  BY <1>0, <1>2, <1>4, <1>5, <1>6 DEF TypeOK
<1>8. \A u \in Threads :
        \/ request'[u] = request[u]
        \/ request'[u].pc \notin {"reading", "writing"} /\ request'[u].session = s
  BY <1>0, <1>2 DEF TypeOK
<1>9. QED
  BY <1>1, <1>2, <1>3, <1>6, <1>7, <1>8, Growth

(* The turn of a thread that has one, and the session it works for.        *)
LEMMA Working ==
    ASSUME PInv, NEW t \in Threads, request[t].pc # "idle"
    PROVE  /\ request[t] # Idle
           /\ request[t].session \in Sessions
           /\ live[request[t].session] # Gone
           /\ live[request[t].session] \in Orchestrator
<1>0. TypeOK /\ Served
  BY DEF PInv
<1>1. request[t] # Idle /\ request[t].session \in Sessions
  BY <1>0, RequestShape
<1>2. QED
  BY <1>0, <1>1 DEF Served, TypeOK

(* A reply and a conclusion let the state grow.                            *)
LEMMA RepliesGrow ==
    ASSUME PInv, NEW t \in Threads, Reply(t)
    PROVE  \E p : /\ Grows(live[request[t].session], p)
                  /\ live' = [live EXCEPT ![request[t].session] = p]
<1>0. TypeOK /\ SingleCounts
  BY DEF PInv
<1> DEFINE s == request[t].session
           p == IF live[s].mode = "multi_agent" THEN live[s]
                ELSE [live[s] EXCEPT !.turn = live[s].count]
<1>1. s \in Sessions /\ live[s] # Gone /\ live[s] \in Orchestrator
  BY Working DEF Reply
<1>2. live' = [live EXCEPT ![s] = p]
  BY <1>0, <1>1 DEF Reply, TypeOK
<1>3. Grows(live[s], p)
  BY <1>0, <1>1 DEF Orchestrator, Modes, Grows, SingleCounts
<1>4. QED
  BY <1>2, <1>3

LEMMA ConclusionsGrow ==
    ASSUME PInv, NEW t \in Threads, Conclude(t)
    PROVE  \E p : /\ Grows(live[request[t].session], p)
                  /\ live' = [live EXCEPT ![request[t].session] = p]
<1> DEFINE o == live[request[t].session]
           p == [o EXCEPT !.over = TRUE]
<1>1. o \in Orchestrator
  BY Working DEF Conclude
<1>2. live' = [live EXCEPT ![request[t].session] = p]
  BY DEF Conclude
<1>3. p \in Orchestrator
  BY <1>1 DEF Orchestrator
<1>4. /\ p.mode = o.mode /\ p.turn = o.turn /\ p.coded = o.coded
      /\ p.count = o.count /\ p.over = TRUE
  BY <1>1 DEF Orchestrator
<1>5. o.turn \in Nat /\ o.coded \in Nat
  BY <1>1 DEF Orchestrator
<1> HIDE DEF p
<1>6. Grows(o, p)
  BY <1>3, <1>4, <1>5 DEF Grows
<1>7. QED
  BY <1>2, <1>6

(* What Reply and Conclude have in common.                                 *)
LEMMA Answering ==
    ASSUME PInv, NEW t \in Threads, request[t].pc = "asking",
           NEW p, Grows(live[request[t].session], p),
           live' = [live EXCEPT ![request[t].session] = p],
           NEW f \in BOOLEAN,
           request' = [request EXCEPT ![t] =
               [pc |-> "answered", session |-> request[t].session, fin |-> f]],
           UNCHANGED <<backend, requested, store, started, acked, dropped, raced>>
    PROVE  PInv'
<1>0. TypeOK
  BY DEF PInv
<1> DEFINE s == request[t].session
           r == [pc |-> "answered", session |-> s, fin |-> f]
<1>1. s \in Sessions /\ live[s] # Gone /\ live[s] \in Orchestrator
  BY Working
<1>2. r \in Request /\ r.pc = "answered" /\ r.session = s
  BY <1>1 DEF Request
<1>3. p \in Orchestrator /\ p # Gone
  BY GoneAssumption DEF Grows
<1>4. live' = [live EXCEPT ![s] = p] /\ request' = [request EXCEPT ![t] = r]
  OBVIOUS
<1> HIDE DEF r, s
<1>5. TypeOK'
  BY <1>0, <1>1, <1>2, <1>3, <1>4 DEF TypeOK
<1>6. \A u \in Threads :
        \/ request'[u] = request[u]
        \/ request'[u].pc \notin {"reading", "writing"} /\ request'[u].session = s
  BY <1>0, <1>2, <1>4 DEF TypeOK
<1>7. QED
  BY <1>1, <1>4, <1>5, <1>6, Growth DEF s

LEMMA Replying ==
    ASSUME PInv, NEW t \in Threads, Reply(t)
    PROVE  PInv'
<1>1. PICK p : /\ Grows(live[request[t].session], p)
               /\ live' = [live EXCEPT ![request[t].session] = p]
  BY RepliesGrow
<1>2. QED
  BY <1>1, Answering DEF Reply

LEMMA Concluding ==
    ASSUME PInv, NEW t \in Threads, Conclude(t)
    PROVE  PInv'
<1>1. PICK p : /\ Grows(live[request[t].session], p)
               /\ live' = [live EXCEPT ![request[t].session] = p]
  BY ConclusionsGrow
<1>2. QED
  BY <1>1, Answering DEF Conclude

LEMMA Submitting ==
    ASSUME PInv, NEW s \in Sessions, SubmitCode(s)
    PROVE  PInv'
<1>0. TypeOK
  BY DEF PInv
<1> DEFINE p == [live[s] EXCEPT !.coded = @ + 1]
<1>1. live[s] # Gone /\ live[s] \in Orchestrator
  BY <1>0 DEF SubmitCode, TypeOK
<1>2. live' = [live EXCEPT ![s] = p]
  BY DEF SubmitCode
<1>3. Grows(live[s], p)
  BY <1>1 DEF Orchestrator, Grows
<1>4. p \in Orchestrator /\ p # Gone
  BY <1>3, GoneAssumption DEF Grows
<1>5. UNCHANGED <<request, store, requested, backend, started, acked, dropped, raced>>
  BY DEF SubmitCode
<1> HIDE DEF p
<1>6. TypeOK'
  BY <1>0, <1>2, <1>4, <1>5 DEF TypeOK
<1>7. QED
  BY <1>1, <1>2, <1>3, <1>5, <1>6, Growth

LEMMA Dropping ==      \* Abandon, SerialiseFails
    ASSUME PInv, NEW t \in Threads,
           request' = [request EXCEPT ![t] = Idle],
           UNCHANGED <<backend, requested, live, store, started, acked, dropped, raced>>
    PROVE  PInv'
<1>0. TypeOK
  BY DEF PInv
<1>1. TypeOK'
  BY <1>0 DEF TypeOK, Request
<1>2. \A u \in Threads : request'[u] \in {request[u], Idle}
  BY <1>0 DEF TypeOK
<1>3. QED
  BY <1>1, <1>2, Storing

LEMMA Forgetting ==
    ASSUME PInv, NEW t \in Threads, Forget(t)
    PROVE  PInv'
<1>0. TypeOK
  BY DEF PInv
<1> DEFINE s == request[t].session
           r == [pc |-> "saving", session |-> s, fin |-> request[t].fin]
<1>1. request[t].pc = "answered" /\ s \in Sessions /\ request[t] # Idle
  BY Working DEF Forget
<1>2. request' = [request EXCEPT ![t] = r] /\ r \in Request
  <2>1. request[t] \in [pc : {"answered", "saving"}, session : Sessions, fin : BOOLEAN]
    BY <1>0, <1>1 DEF TypeOK, Request, Idle
  <2>2. [request[t] EXCEPT !.pc = "saving"] = r
    BY <2>1
  <2>3. request[t].fin \in BOOLEAN
    BY <2>1
  <2>4. request' = [request EXCEPT ![t] = r]
    BY <1>1, <2>2 DEF Forget
  <2>5. r \in Request
    BY <1>1, <2>3 DEF Request
  <2>6. QED
    BY <2>4, <2>5
<1>3. store' \in {store, [store EXCEPT ![s] = Gone]} /\ started' \in {started, started \ {s}}
  BY DEF Forget
<1>4. /\ UNCHANGED <<backend, requested, live, acked, raced>>
      /\ dropped' \in {dropped, dropped \cup {s}}
  BY DEF Forget
<1>5. r.pc = "saving" /\ r.session = s
  OBVIOUS
<1> HIDE DEF r, s
<1>6. TypeOK'
  BY <1>0, <1>1, <1>2, <1>3, <1>4 DEF TypeOK
<1>7. \A q \in Sessions : store'[q] \in {store[q], Gone}
  BY <1>0, <1>3 DEF TypeOK
<1>8. \A u \in Threads :
        \/ request'[u] = request[u]
        \/ /\ request[u] # Idle
           /\ request'[u].session = request[u].session /\ request'[u].pc = "saving"
  BY <1>0, <1>1, <1>2, <1>5 DEF TypeOK, s
<1>9. QED
  BY <1>4, <1>6, <1>7, <1>8, Storing

LEMMA ReadingTurn ==
    ASSUME PInv, NEW t \in Threads, ReadTurn(t)
    PROVE  PInv'
<1>0. TypeOK
  BY DEF PInv
<1> DEFINE s == request[t].session
           r == [pc |-> "reading", session |-> s, turn |-> live[s].turn]
<1>1. s \in Sessions /\ request[t] # Idle /\ live[s] \in Orchestrator
  BY Working DEF ReadTurn
<1>2. live[s].turn \in Nat
  BY <1>1 DEF Orchestrator
<1>3. /\ request' = [request EXCEPT ![t] = r]
      /\ UNCHANGED <<backend, requested, live, store, started, acked, dropped, raced>>
  BY DEF ReadTurn
<1>4. r \in Request
  BY <1>1, <1>2 DEF Request
<1>5. r.pc = "reading" /\ r.session = s /\ r.turn = live[s].turn
  OBVIOUS
<1> HIDE DEF r
<1>6. TypeOK'
  BY <1>0, <1>3, <1>4 DEF TypeOK
<1>7. \A u \in Threads : request'[u] = request[u] \/ (u = t /\ request'[u] = r)
  BY <1>0, <1>3 DEF TypeOK
<1>8. QED
  BY <1>1, <1>2, <1>3, <1>5, <1>6, <1>7, Storing

LEMMA ReadingStatus ==
    ASSUME PInv, NEW t \in Threads, ReadStatus(t)
    PROVE  PInv'
<1>0. TypeOK /\ SnapshotsArePast
  BY DEF PInv
<1> DEFINE s == request[t].session
           snap == Serialised(live[s], request[t].turn)
           r == [pc |-> "writing", session |-> s, snap |-> snap]
<1>1. request[t].pc = "reading" /\ s \in Sessions /\ request[t] # Idle /\ live[s] \in Orchestrator
  BY Working DEF ReadStatus
<1>2. /\ request[t].turn \in Nat /\ request[t].turn <= live[s].turn
      /\ live[s].coded \in Nat /\ Finished(live[s]) \in BOOLEAN
  BY <1>0, <1>1, RequestShape DEF SnapshotsArePast, Orchestrator, Finished
<1>3. snap \in Snapshot
  BY <1>2 DEF Snapshot, Serialised
<1>4. Past(snap, live[s])
  <2>1. snap.turn = request[t].turn /\ snap.coded = live[s].coded
        /\ snap.finished = Finished(live[s])
    BY DEF Serialised
  <2>2. QED
    BY <1>2, <2>1 DEF Past
<1>5. /\ request' = [request EXCEPT ![t] = r]
      /\ UNCHANGED <<backend, requested, live, store, started, acked, dropped, raced>>
  BY DEF ReadStatus
<1> HIDE DEF snap
<1>6. r \in Request
  BY <1>1, <1>3 DEF Request
<1>7. r.pc = "writing" /\ r.session = s /\ r.snap = snap
  OBVIOUS
<1> HIDE DEF r
<1>8. TypeOK'
  BY <1>0, <1>5, <1>6 DEF TypeOK
<1>9. \A u \in Threads : request'[u] = request[u] \/ (u = t /\ request'[u] = r)
  BY <1>0, <1>5 DEF TypeOK
<1>10. QED
  BY <1>1, <1>4, <1>5, <1>7, <1>8, <1>9, Storing

LEMMA Writing ==
    ASSUME PInv, NEW t \in Threads, Write(t)
    PROVE  PInv'
<1>0. TypeOK /\ SnapshotsArePast
  BY DEF PInv
<1> DEFINE s == request[t].session
           snap == request[t].snap
<1>1. request[t].pc = "writing" /\ s \in Sessions /\ live[s] # Gone /\ live[s] \in Orchestrator
  BY Working DEF Write
<1>2. snap \in Snapshot /\ Past(snap, live[s])
  BY <1>0, <1>1, RequestShape DEF SnapshotsArePast
<1>3. Answered(live[s]) \in Snapshot
  BY <1>1 DEF Answered, Snapshot, Orchestrator, Finished
<1>4. store' \in {store, [store EXCEPT ![s] = snap]}
  BY DEF Write, Saved, SaveFailed
<1>5. /\ request' = [request EXCEPT ![t] = Idle]
      /\ UNCHANGED <<backend, requested, live, started, raced>>
      /\ acked' \in {acked, [acked EXCEPT ![s] = Answered(live[s])]}
      /\ dropped' \in {dropped, dropped \ {s}}
  BY DEF Write
<1> HIDE DEF s, snap
<1>6. TypeOK'
  BY <1>0, <1>1, <1>2, <1>3, <1>4, <1>5 DEF TypeOK, Request
<1>7. \A q \in Sessions : store'[q] = store[q] \/ (live[q] # Gone /\ Past(store'[q], live[q]))
  BY <1>0, <1>1, <1>2, <1>4 DEF TypeOK
<1>8. \A u \in Threads : request'[u] \in {request[u], Idle}
  BY <1>0, <1>5 DEF TypeOK
<1>9. QED
  BY <1>5, <1>6, <1>7, <1>8, Storing

LEMMA Expiring ==
    ASSUME PInv, NEW s \in Sessions, Expire(s)
    PROVE  PInv'
<1>0. TypeOK
  BY DEF PInv
<1>1. TypeOK'
  BY <1>0 DEF Expire, TypeOK
<1>2. \A q \in Sessions : store'[q] \in {store[q], Gone}
  BY <1>0 DEF Expire, TypeOK
<1>3. QED
  BY <1>1, <1>2, Storing DEF Expire

LEMMA Restarting ==
    ASSUME PInv, Restart
    PROVE  PInv'
<1>0. TypeOK /\ Unborn
  BY DEF PInv
<1> DEFINE kept == IF backend = "memory" THEN [s \in Sessions |-> Gone] ELSE store
           ongoing == {s \in Sessions : kept[s] # Gone /\ ~kept[s].finished}
<1>1. PICK recovered \in SUBSET ongoing :
        /\ store' = kept
        /\ live' = [s \in Sessions |-> IF s \in recovered THEN Revived(kept[s]) ELSE Gone]
        /\ started' = recovered
        /\ request' = [t \in Threads |-> Idle]
        /\ dropped' \in {Sessions, dropped}
        /\ UNCHANGED <<backend, requested, acked, raced>>
  BY DEF Restart, Timed
<1>2. kept \in [Sessions -> Snapshot \cup {Gone}] /\ \A s \in Sessions : kept[s] \in {store[s], Gone}
  BY <1>0 DEF TypeOK
<1>3. \A s \in recovered : s \in Sessions /\ kept[s] \in Snapshot /\ ~kept[s].finished
  BY <1>2
<1> HIDE DEF kept
<1>4. \A s \in recovered :
        LET o == Revived(kept[s])
        IN  /\ o \in Orchestrator /\ o # Gone /\ o.mode = "multi_agent"
            /\ o.turn = kept[s].turn /\ o.coded = kept[s].coded
  <2> SUFFICES ASSUME NEW s \in recovered
               PROVE  LET o == Revived(kept[s])
                      IN  /\ o \in Orchestrator /\ o # Gone /\ o.mode = "multi_agent"
                          /\ o.turn = kept[s].turn /\ o.coded = kept[s].coded
    OBVIOUS
  <2>1. kept[s].turn \in Nat /\ kept[s].coded \in Nat
    BY <1>3 DEF Snapshot
  <2>2. Revived(kept[s]) \in Orchestrator
    BY <2>1 DEF Revived, Orchestrator, Modes
  <2>3. QED
    BY <2>2, GoneAssumption DEF Revived
<1>5. TypeOK'
  BY <1>0, <1>1, <1>2, <1>3, <1>4 DEF TypeOK, Request
<1>6. Unborn'
  BY <1>0, <1>1, <1>2, <1>3 DEF Unborn
<1>7. SingleCounts'
  BY <1>1, <1>4 DEF SingleCounts
<1>8. Served' /\ SnapshotsArePast'
  BY <1>1 DEF Served, SnapshotsArePast, Idle
<1>9. StoredIsPast'
  <2> SUFFICES ASSUME NEW s \in recovered PROVE Past(kept[s], Revived(kept[s]))
    BY <1>1, <1>3 DEF StoredIsPast, Past, Finished
  <2>1. kept[s].turn \in Nat /\ kept[s].coded \in Nat /\ ~kept[s].finished
    BY <1>3 DEF Snapshot
  <2>2. QED
    BY <1>4, <2>1 DEF Past
<1>10. QED
  BY <1>5, <1>6, <1>7, <1>8, <1>9 DEF PInv

LEMMA Stepping == PInv /\ [Next]_vars => PInv'
<1> SUFFICES ASSUME PInv, [Next]_vars PROVE PInv'
  OBVIOUS
<1>1. ASSUME NEW s \in Sessions, NEW mode \in Modes, Create(s, mode) PROVE PInv'
  BY <1>1, Creating
<1>2. ASSUME NEW t \in Threads, NEW s \in Sessions, Enter(t, s) PROVE PInv'
  BY <1>2, Entering
<1>3. ASSUME NEW s \in Sessions, SubmitCode(s) PROVE PInv'
  BY <1>3, Submitting
<1>4. ASSUME NEW s \in Sessions, Expire(s) PROVE PInv'
  BY <1>4, Expiring
<1>5. ASSUME NEW t \in Threads, Reply(t) PROVE PInv'
  BY <1>5, Replying
<1>6. ASSUME NEW t \in Threads, Conclude(t) PROVE PInv'
  BY <1>6, Concluding
<1>7. ASSUME NEW t \in Threads, Abandon(t) \/ SerialiseFails(t) PROVE PInv'
  BY <1>7, Dropping DEF Abandon, SerialiseFails
<1>8. ASSUME NEW t \in Threads, Forget(t) PROVE PInv'
  BY <1>8, Forgetting
<1>9. ASSUME NEW t \in Threads, ReadTurn(t) PROVE PInv'
  BY <1>9, ReadingTurn
<1>10. ASSUME NEW t \in Threads, ReadStatus(t) PROVE PInv'
  BY <1>10, ReadingStatus
<1>11. ASSUME NEW t \in Threads, Write(t) PROVE PInv'
  BY <1>11, Writing
<1>12. CASE Restart
  BY <1>12, Restarting
<1>13. CASE UNCHANGED vars
  BY <1>13 DEF vars, PInv, TypeOK, Unborn, SingleCounts, Served, SnapshotsArePast,
               StoredIsPast, Past, Finished
<1>14. QED
  BY <1>1, <1>2, <1>3, <1>4, <1>5, <1>6, <1>7, <1>8, <1>9, <1>10, <1>11, <1>12, <1>13 DEF Next

LEMMA PastInvariant == Spec => []PInv
<1>1. PInv /\ [Next]_vars => PInv'
  BY Stepping
<1>2. QED
  BY Initial, <1>1, PTL DEF Spec

----------------------------------------------------------------------------
(* The maps of api.py hold what they are declared to hold, and a start time *)
(* is only kept for a session that has an orchestrator.                    *)
THEOREM ServiceTypeCorrect == Spec => []TypeOK
<1>1. PInv => TypeOK
  BY DEF PInv
<1>2. QED
  BY PastInvariant, <1>1, PTL

(* However turns overlap, saves fail and the process restarts, the store   *)
(* never holds anything the session has not reached.                       *)
THEOREM StoreIsThePast == Spec => []StoredIsPast
<1>1. PInv => StoredIsPast
  BY DEF PInv
<1>2. QED
  BY PastInvariant, <1>1, PTL

----------------------------------------------------------------------------
(***************************************************************************)
(* Sessions whose turns never overlapped.  Their one request takes an       *)
(* up-to-date snapshot, so what was answered stays below both the live and *)
(* the stored state.                                                       *)
(***************************************************************************)
OneAtATime ==
    \A t, u \in Threads :
        /\ request[t] # Idle /\ request[u] # Idle
        /\ request[t].session = request[u].session
        /\ request[t].session \notin raced
        => t = u

Current(r) ==
    /\ r.pc = "reading" => r.turn = live[r.session].turn
    /\ r.pc = "writing" => /\ r.snap.turn = live[r.session].turn
                          /\ r.snap.finished = Finished(live[r.session])

SnapshotsCurrent ==
    \A t \in Threads :
        request[t] # Idle /\ request[t].session \notin raced => Current(request[t])

\* snap, or the live state o, holds all that was answered.
Holds(snap, a)    == a.turn <= snap.turn /\ (a.finished => snap.finished)
Continues(o, a)   == a.turn <= o.turn /\ (a.finished => Finished(o))

AckedAt(s) ==
    /\ live[s] # Gone => Continues(live[s], acked[s])
    /\ store[s] # Gone => Holds(store[s], acked[s])
    /\ s \notin dropped => store[s] # Gone

AckedHeld == \A s \in Sessions : s \notin raced /\ acked[s] # Gone => AckedAt(s)

UnbornUnanswered == \A s \in Sessions : requested[s] = Gone => acked[s] = Gone

UInv == OneAtATime /\ SnapshotsCurrent /\ AckedHeld /\ UnbornUnanswered

LEMMA InitialUnraced == Init => UInv
BY DEF Init, UInv, OneAtATime, SnapshotsCurrent, AckedHeld, UnbornUnanswered, Idle

(* A request that goes on for its session, or ends, overlaps with nothing  *)
(* new.                                                                    *)
LEMMA StillOne ==
    ASSUME OneAtATime, raced' = raced,
           \A t \in Threads :
               \/ request'[t] = Idle
               \/ request[t] # Idle /\ request'[t].session = request[t].session
    PROVE  OneAtATime'
BY DEF OneAtATime, Idle

\* When the state of session s becomes p, no request of a session without
\* overlap holds a snapshot that p leaves behind.
SnapshotsKept(s, p) ==
    \A t \in Threads :
        request'[t].pc \in {"reading", "writing"} =>
            /\ request'[t] = request[t]
            /\ \/ request[t].session \in raced'
               \/ request[t].session # s
               \/ p.turn = live[s].turn /\ p.over = live[s].over

(* A step in which one live state grows.                                   *)
LEMMA Growing ==
    ASSUME PInv, UInv, NEW s \in Sessions, live[s] # Gone,
           NEW p, Grows(live[s], p), live' = [live EXCEPT ![s] = p],
           UNCHANGED <<store, requested, acked, dropped>>,
           raced \subseteq raced',
           OneAtATime',
           SnapshotsKept(s, p)
    PROVE  UInv'
<1>0. TypeOK /\ OneAtATime /\ SnapshotsCurrent /\ AckedHeld /\ UnbornUnanswered
  BY DEF PInv, UInv
<1>1. live[s] \in Orchestrator /\ p \in Orchestrator /\ p.mode = live[s].mode
  BY <1>0 DEF TypeOK, Grows
<1>2. \A r \in Sessions : live'[r] = IF r = s THEN p ELSE live[r]
  BY <1>0 DEF TypeOK
<1>3. SnapshotsCurrent'
  <2> SUFFICES ASSUME NEW t \in Threads, request'[t] # Idle, request'[t].session \notin raced'
               PROVE  Current(request[t])' 
    BY DEF SnapshotsCurrent
  <2>1. CASE request'[t].pc \notin {"reading", "writing"}
    BY <2>1 DEF Current
  <2>2. CASE request'[t].pc \in {"reading", "writing"}
    <3>1. /\ request'[t] = request[t] /\ request[t] # Idle
          /\ request[t].session \in Sessions /\ request[t].session \notin raced
      BY <1>0, <2>2, RequestShape DEF SnapshotsKept
    <3>2. Current(request[t])
      BY <1>0, <3>1 DEF SnapshotsCurrent
    <3>3. CASE request[t].session # s
      BY <1>2, <3>1, <3>2, <3>3 DEF Current, Finished
    <3>4. CASE p.turn = live[s].turn /\ p.over = live[s].over /\ request[t].session = s
      BY <1>1, <1>2, <3>1, <3>2, <3>4 DEF Current, Finished
    <3>5. QED
      BY <2>2, <3>1, <3>3, <3>4 DEF SnapshotsKept
  <2>3. QED
    BY <2>1, <2>2
<1>4. AckedHeld'
  <2> SUFFICES ASSUME NEW r \in Sessions, r \notin raced, acked[r] # Gone
               PROVE  live'[r] # Gone => Continues(live'[r], acked[r])
    BY <1>0 DEF AckedHeld, AckedAt, Continues, Finished, Holds
  <2>1. AckedAt(r) /\ acked[r] \in Snapshot
    BY <1>0 DEF AckedHeld, TypeOK
  <2>2. CASE r # s
    BY <1>2, <2>1, <2>2 DEF AckedAt
  <2>3. CASE r = s
    <3>1. Continues(live[s], acked[s])
      BY <2>1, <2>3 DEF AckedAt
    <3>2. /\ acked[s].turn \in Nat /\ live[s].turn \in Nat /\ p.turn \in Nat
          /\ live[s].turn <= p.turn /\ (live[s].over => p.over)
      BY <1>1, <2>1, <2>3 DEF Snapshot, Orchestrator, Grows
    <3>3. Continues(p, acked[s])
      BY <1>1, <3>1, <3>2 DEF Continues, Finished
    <3>4. QED
      BY <1>2, <2>3, <3>3
  <2>4. QED
    BY <2>2, <2>3
<1>5. QED
  BY <1>0, <1>3, <1>4 DEF UInv, UnbornUnanswered

LEMMA EnteringUnraced ==
    ASSUME PInv, UInv, NEW t \in Threads, NEW s \in Sessions, Enter(t, s)
    PROVE  UInv'
<1>0. TypeOK /\ OneAtATime
  BY DEF PInv, UInv
<1> DEFINE p == IF live[s].mode = "multi_agent" THEN [live[s] EXCEPT !.turn = @ + 1]
                ELSE [live[s] EXCEPT !.count = @ + 1]
           r == [pc |-> "asking", session |-> s, late |-> live[s].over]
<1>1. live[s] # Gone /\ live[s] \in Orchestrator
  BY <1>0 DEF Enter, TypeOK
<1>2. live' = [live EXCEPT ![s] = p] /\ request' = [request EXCEPT ![t] = r]
  BY DEF Enter
<1>3. Grows(live[s], p)
  BY <1>1 DEF Orchestrator, Modes, Grows
<1>4. /\ UNCHANGED <<store, requested, acked, dropped>>
      /\ raced \subseteq raced' /\ request[t] = Idle
  BY DEF Enter
<1>5. \A u \in Threads : request[u] # Idle /\ request[u].session = s => s \in raced'
  BY DEF Enter, Busy
<1>6. request'[t] = r /\ r.pc = "asking" /\ r.session = s
  BY <1>0, <1>2 DEF TypeOK
<1>7. \A u \in Threads : u # t => request'[u] = request[u]
  BY <1>0, <1>2 DEF TypeOK
<1> HIDE DEF p, r
<1>8. OneAtATime'
  BY <1>0, <1>4, <1>5, <1>6, <1>7 DEF OneAtATime
<1>9. SnapshotsKept(s, p)
  BY <1>0, <1>5, <1>6, <1>7, RequestShape DEF SnapshotsKept
<1>10. QED
  BY <1>1, <1>2, <1>3, <1>4, <1>8, <1>9, Growing

(* Reply and Conclude: the request that was being answered.                *)
LEMMA AnsweringUnraced ==
    ASSUME PInv, UInv, NEW t \in Threads, request[t].pc = "asking",
           NEW p, Grows(live[request[t].session], p),
           live' = [live EXCEPT ![request[t].session] = p],
           UNCHANGED <<store, requested, acked, dropped, raced>>,
           NEW r, r.pc = "answered", r.session = request[t].session,
           request' = [request EXCEPT ![t] = r]
    PROVE  UInv'
<1>0. TypeOK /\ OneAtATime
  BY DEF PInv, UInv
<1>1. request[t] # Idle /\ request[t].session \in Sessions /\ live[request[t].session] # Gone
  BY Working
<1>2. request'[t] = r /\ \A u \in Threads : u # t => request'[u] = request[u]
  BY <1>0 DEF TypeOK
<1>3. OneAtATime'
  BY <1>0, <1>1, <1>2, StillOne
<1>4. \A u \in Threads :
        request'[u].pc \in {"reading", "writing"} =>
            /\ request'[u] = request[u]
            /\ request[u].session \in raced \/ request[u].session # request[t].session
  <2> SUFFICES ASSUME NEW u \in Threads, request'[u].pc \in {"reading", "writing"}
               PROVE  /\ request'[u] = request[u]
                      /\ request[u].session \in raced \/ request[u].session # request[t].session
    OBVIOUS
  <2>1. u # t /\ request'[u] = request[u] /\ request[u] # Idle
    BY <1>0, <1>2, RequestShape
  <2>2. QED
    BY <1>0, <1>1, <2>1 DEF OneAtATime
<1> DEFINE s == request[t].session
<1>5. SnapshotsKept(s, p)
  BY <1>4 DEF SnapshotsKept
<1>6. s \in Sessions /\ live[s] # Gone /\ Grows(live[s], p) /\ live' = [live EXCEPT ![s] = p]
  BY <1>1
<1>7. raced \subseteq raced' /\ UNCHANGED <<store, requested, acked, dropped>>
  OBVIOUS
<1>8. QED
  BY <1>3, <1>5, <1>6, <1>7, Growing


LEMMA SubmittingUnraced ==
    ASSUME PInv, UInv, NEW s \in Sessions, SubmitCode(s)
    PROVE  UInv'
<1>0. TypeOK /\ OneAtATime
  BY DEF PInv, UInv
<1> DEFINE p == [live[s] EXCEPT !.coded = @ + 1]
<1>1. live[s] # Gone /\ live[s] \in Orchestrator
  BY <1>0 DEF SubmitCode, TypeOK
<1>2. live' = [live EXCEPT ![s] = p] /\ request' = request /\ raced' = raced
  BY DEF SubmitCode
<1>3. Grows(live[s], p) /\ p.turn = live[s].turn /\ p.over = live[s].over
  BY <1>1 DEF Orchestrator, Grows
<1>4. UNCHANGED <<store, requested, acked, dropped>> /\ raced \subseteq raced'
  BY DEF SubmitCode
<1>5. OneAtATime'
  BY <1>0, <1>2 DEF OneAtATime
<1> HIDE DEF p
<1>6. SnapshotsKept(s, p)
  BY <1>2, <1>3 DEF SnapshotsKept
<1>7. QED
  BY <1>1, <1>2, <1>3, <1>4, <1>5, <1>6, Growing

(* A step that leaves the orchestrators alone.                             *)
LEMMA Continuing ==
    ASSUME PInv, UInv, UNCHANGED <<live, requested, raced>>,
           AckedHeld', UnbornUnanswered',
           \A t \in Threads :
               \/ request'[t] \in {request[t], Idle}
               \/ /\ request[t] # Idle
                  /\ request'[t].session = request[t].session
                  /\ request[t].session \notin raced => Current(request'[t])
    PROVE  UInv'
<1>0. TypeOK /\ OneAtATime /\ SnapshotsCurrent
  BY DEF PInv, UInv
<1>1. OneAtATime'
  BY <1>0, StillOne
<1>2. SnapshotsCurrent'
  BY <1>0 DEF SnapshotsCurrent, Current, Finished
<1>3. QED
  BY <1>1, <1>2 DEF UInv

LEMMA CreatingUnraced ==
    ASSUME PInv, UInv, NEW s \in Sessions, NEW mode \in Modes, Create(s, mode)
    PROVE  UInv'
<1>0. /\ TypeOK /\ Unborn /\ Served
      /\ OneAtATime /\ SnapshotsCurrent /\ AckedHeld /\ UnbornUnanswered
  BY DEF PInv, UInv
<1>1. /\ live' = [live EXCEPT ![s] = New(mode)] /\ UNCHANGED <<request, raced, dropped>>
      /\ requested' = [requested EXCEPT ![s] = mode] /\ mode # Gone
      /\ live[s] = Gone /\ acked[s] = Gone
  BY <1>0, GoneAssumption DEF Create, Unborn, UnbornUnanswered
<1>2. \/ acked' = [acked EXCEPT ![s] = Empty] /\ store' = [store EXCEPT ![s] = Empty]
      \/ acked' = acked /\ store' \in {store, [store EXCEPT ![s] = Empty]}
  BY DEF Create, Saved, SaveFailed
<1>3. OneAtATime'
  BY <1>0, <1>1 DEF OneAtATime
<1>4. SnapshotsCurrent'
  <2> SUFFICES ASSUME NEW t \in Threads, request[t] # Idle, request[t].session \notin raced
               PROVE  Current(request[t])'
    BY <1>1 DEF SnapshotsCurrent
  <2>1. request[t].session \in Sessions /\ request[t].session # s /\ Current(request[t])
    BY <1>0, <1>1, RequestShape DEF Served, SnapshotsCurrent
  <2>2. live'[request[t].session] = live[request[t].session] /\ request'[t] = request[t]
    BY <1>0, <1>1, <2>1 DEF TypeOK
  <2>3. QED
    BY <2>1, <2>2 DEF Current, Finished
<1>5. AckedHeld'
  <2> SUFFICES ASSUME NEW r \in Sessions, r \notin raced, acked'[r] # Gone
               PROVE  AckedAt(r)'
    BY <1>1 DEF AckedHeld
  <2>1. CASE r # s
    <3>1. /\ acked'[r] = acked[r] /\ store'[r] = store[r] /\ live'[r] = live[r]
          /\ AckedAt(r)
      BY <1>0, <1>1, <1>2, <2>1 DEF TypeOK, AckedHeld
    <3>2. QED
      BY <1>1, <3>1 DEF AckedAt, Continues, Holds, Finished
  <2>2. CASE r = s
    <3>1. acked'[s] = Empty /\ store'[s] = Empty /\ live'[s] = New(mode)
      BY <1>0, <1>1, <1>2, <2>2 DEF TypeOK
    <3>2. Continues(New(mode), Empty) /\ Holds(Empty, Empty) /\ Empty \in Snapshot
      BY DEF Continues, Holds, Empty, New, Snapshot
    <3>3. QED
      BY <2>2, <3>1, <3>2, GoneAssumption DEF AckedAt, Continues, Holds, Finished
  <2>3. QED
    BY <2>1, <2>2
<1>6. UnbornUnanswered'
  BY <1>0, <1>1, <1>2 DEF UnbornUnanswered, TypeOK
<1>7. QED
  BY <1>3, <1>4, <1>5, <1>6 DEF UInv

(* Abandon, SerialiseFails, ReadTurn and ReadStatus touch one request only. *)
LEMMA OneRequest ==
    ASSUME PInv, UInv, NEW t \in Threads,
           UNCHANGED <<live, requested, raced, store, acked, dropped>>,
           NEW r, request' = [request EXCEPT ![t] = r],
           \/ r = Idle
           \/ /\ request[t] # Idle /\ r.session = request[t].session
              /\ request[t].session \notin raced => Current(r)
    PROVE  UInv'
<1>0. TypeOK /\ AckedHeld /\ UnbornUnanswered
  BY DEF PInv, UInv
<1>1. AckedHeld' /\ UnbornUnanswered'
  BY <1>0 DEF AckedHeld, AckedAt, Continues, Holds, Finished, UnbornUnanswered
<1>2. \A u \in Threads : request'[u] = IF u = t THEN r ELSE request[u]
  BY <1>0 DEF TypeOK
<1>3. QED
  BY <1>1, <1>2, Continuing

LEMMA ForgettingUnraced ==
    ASSUME PInv, UInv, NEW t \in Threads, Forget(t)
    PROVE  UInv'
<1>0. TypeOK /\ AckedHeld /\ UnbornUnanswered
  BY DEF PInv, UInv
<1> DEFINE s == request[t].session
<1>1. request[t].pc = "answered" /\ s \in Sessions /\ request[t] # Idle
  BY Working DEF Forget
<1>2. UNCHANGED <<live, requested, acked, raced>>
  BY DEF Forget
<1>3. /\ store' \in {store, [store EXCEPT ![s] = Gone]}
      /\ dropped \subseteq dropped'
      /\ store' = store \/ s \in dropped'
  BY DEF Forget, Forgets
<1>4. AckedHeld'
  <2> SUFFICES ASSUME NEW r \in Sessions, r \notin raced, acked[r] # Gone
               PROVE  AckedAt(r)'
    BY <1>2 DEF AckedHeld
  <2>1. AckedAt(r)
    BY <1>0 DEF AckedHeld
  <2>2. store'[r] = store[r] \/ (store'[r] = Gone /\ r \in dropped')
    BY <1>0, <1>1, <1>3 DEF TypeOK
  <2>3. QED
    BY <1>2, <1>3, <2>1, <2>2 DEF AckedAt, Continues, Holds, Finished
<1>5. UnbornUnanswered'
  BY <1>0, <1>2 DEF UnbornUnanswered
<1>6. \A u \in Threads :
        \/ request'[u] = request[u]
        \/ /\ request[u] # Idle
           /\ request'[u].session = request[u].session /\ request'[u].pc = "saving"
  <2>1. request[t] \in [pc : {"answered", "saving"}, session : Sessions, fin : BOOLEAN]
    BY <1>0, <1>1 DEF TypeOK, Request, Idle
  <2>2. request' = [request EXCEPT ![t] = [request[t] EXCEPT !.pc = "saving"]]
    BY DEF Forget
  <2>3. QED
    BY <1>0, <1>1, <2>1, <2>2 DEF TypeOK
<1>7. QED
  BY <1>2, <1>4, <1>5, <1>6, Continuing DEF Current

LEMMA ReadingTurnUnraced ==
    ASSUME PInv, UInv, NEW t \in Threads, ReadTurn(t)
    PROVE  UInv'
<1> DEFINE s == request[t].session
           r == [pc |-> "reading", session |-> s, turn |-> live[s].turn]
<1>1. request[t] # Idle
  BY Working DEF ReadTurn
<1>2. /\ request' = [request EXCEPT ![t] = r]
      /\ UNCHANGED <<live, requested, raced, store, acked, dropped>>
  BY DEF ReadTurn
<1>3. r.session = s /\ Current(r)
  BY DEF Current
<1> HIDE DEF r
<1>4. QED
  BY <1>1, <1>2, <1>3, OneRequest

LEMMA ReadingStatusUnraced ==
    ASSUME PInv, UInv, NEW t \in Threads, ReadStatus(t)
    PROVE  UInv'
<1>0. SnapshotsCurrent
  BY DEF UInv
<1> DEFINE s == request[t].session
           snap == Serialised(live[s], request[t].turn)
           r == [pc |-> "writing", session |-> s, snap |-> snap]
<1>1. request[t] # Idle /\ request[t].pc = "reading"
  BY Working DEF ReadStatus
<1>2. /\ request' = [request EXCEPT ![t] = r]
      /\ UNCHANGED <<live, requested, raced, store, acked, dropped>>
  BY DEF ReadStatus
<1>3. s \notin raced => request[t].turn = live[s].turn
  BY <1>0, <1>1 DEF SnapshotsCurrent, Current
<1>4. s \notin raced => Current(r)
  BY <1>3 DEF Current, Serialised
<1>5. r.session = s
  OBVIOUS
<1> HIDE DEF r
<1>6. QED
  BY <1>1, <1>2, <1>4, <1>5, OneRequest

LEMMA WritingUnraced ==
    ASSUME PInv, UInv, NEW t \in Threads, Write(t)
    PROVE  UInv'
<1>0. TypeOK /\ Unborn /\ SnapshotsCurrent /\ AckedHeld /\ UnbornUnanswered
  BY DEF PInv, UInv
<1> DEFINE s == request[t].session
           snap == request[t].snap
<1>1. /\ request[t].pc = "writing" /\ request[t] # Idle
      /\ s \in Sessions /\ live[s] # Gone /\ live[s] \in Orchestrator
  BY Working DEF Write
<1>2. snap \in Snapshot /\ snap # Gone
  BY <1>0, <1>1, RequestShape, GoneAssumption
<1>3. s \notin raced => snap.turn = live[s].turn /\ snap.finished = Finished(live[s])
  BY <1>0, <1>1 DEF SnapshotsCurrent, Current
<1>4. UNCHANGED <<live, requested, raced>> /\ request' = [request EXCEPT ![t] = Idle]
  BY DEF Write
<1>5. \/ /\ store' = [store EXCEPT ![s] = snap]
         /\ acked' = [acked EXCEPT ![s] = Answered(live[s])]
         /\ dropped' = dropped \ {s}
      \/ /\ store' \in {store, [store EXCEPT ![s] = snap]}
         /\ UNCHANGED <<acked, dropped>>
  BY DEF Write, Saved, SaveFailed
<1> HIDE DEF s, snap
<1>6. AckedHeld'
  <2> SUFFICES ASSUME NEW r \in Sessions, r \notin raced, acked'[r] # Gone
               PROVE  AckedAt(r)'
    BY <1>4 DEF AckedHeld
  <2>1. CASE r # s
    <3>1. /\ acked'[r] = acked[r] /\ store'[r] = store[r] /\ live'[r] = live[r]
          /\ r \in dropped' <=> r \in dropped
      BY <1>0, <1>4, <1>5, <2>1 DEF TypeOK
    <3>2. AckedAt(r)
      BY <1>0, <3>1 DEF AckedHeld
    <3>3. QED
      BY <3>1, <3>2 DEF AckedAt, Continues, Holds, Finished
  <2>2. CASE r = s /\ acked'[s] = Answered(live[s]) /\ store'[s] = snap
    <3>1. live[s].turn \in Nat
      BY <1>1 DEF Orchestrator
    <3>2. Continues(live[s], Answered(live[s])) /\ Holds(snap, Answered(live[s]))
      BY <1>3, <2>2, <3>1 DEF Continues, Holds, Answered
    <3>3. QED
      BY <1>2, <1>4, <2>2, <3>2 DEF AckedAt, Continues, Holds, Finished
  <2>3. CASE r = s /\ store'[s] \in {store[s], snap} /\ UNCHANGED <<acked, dropped>>
    <3>1. AckedAt(s)
      BY <1>0, <1>1, <2>3 DEF AckedHeld
    <3>2. Continues(live[s], acked[s])
      BY <1>1, <3>1 DEF AckedAt
    <3>3. Holds(snap, acked[s])
      BY <1>3, <2>3, <3>2 DEF Continues, Holds
    <3>4. QED
      BY <1>2, <1>4, <2>3, <3>1, <3>3 DEF AckedAt, Continues, Holds, Finished
  <2>4. QED
    BY <1>0, <1>1, <1>5, <2>1, <2>2, <2>3 DEF TypeOK
<1>7. UnbornUnanswered'
  BY <1>0, <1>1, <1>4, <1>5 DEF UnbornUnanswered, Unborn, TypeOK
<1>8. \A u \in Threads : request'[u] \in {request[u], Idle}
  BY <1>0, <1>4 DEF TypeOK
<1>9. QED
  BY <1>4, <1>6, <1>7, <1>8, Continuing

LEMMA ExpiringUnraced ==
    ASSUME PInv, UInv, NEW s \in Sessions, Expire(s)
    PROVE  UInv'
<1>0. TypeOK /\ AckedHeld /\ UnbornUnanswered
  BY DEF PInv, UInv
<1>1. AckedHeld'
  <2> SUFFICES ASSUME NEW r \in Sessions, r \notin raced, acked[r] # Gone
               PROVE  AckedAt(r)'
    BY DEF Expire, AckedHeld
  <2>1. AckedAt(r)
    BY <1>0 DEF AckedHeld
  <2>2. live' = live /\ acked' = acked /\ dropped \subseteq dropped'
        /\ (store'[r] = store[r] \/ (store'[r] = Gone /\ r \in dropped'))
    BY <1>0 DEF TypeOK, Expire
  <2>3. QED
    BY <2>1, <2>2 DEF AckedAt, Continues, Holds, Finished
<1>2. UnbornUnanswered'
  BY <1>0 DEF UnbornUnanswered, Expire
<1>3. UNCHANGED <<live, requested, raced>> /\ request' = request
  BY DEF Expire
<1>4. QED
  BY <1>1, <1>2, <1>3, Continuing

LEMMA RestartingUnraced ==
    ASSUME PInv, UInv, Restart
    PROVE  UInv'
<1>0. TypeOK /\ AckedHeld /\ UnbornUnanswered
  BY DEF PInv, UInv
<1> DEFINE kept == IF backend = "memory" THEN [s \in Sessions |-> Gone] ELSE store
           ongoing == {s \in Sessions : kept[s] # Gone /\ ~kept[s].finished}
<1>1. PICK recovered \in SUBSET ongoing :
        /\ store' = kept
        /\ live' = [s \in Sessions |-> IF s \in recovered THEN Revived(kept[s]) ELSE Gone]
        /\ request' = [t \in Threads |-> Idle]
        /\ dropped' = IF backend = "memory" THEN Sessions ELSE dropped
        /\ UNCHANGED <<requested, acked, raced>>
  BY DEF Restart
<1>2. \A s \in Sessions : kept[s] = store[s] \/ (kept[s] = Gone /\ s \in dropped')
  BY <1>1
<1>3. dropped \subseteq dropped'
  BY <1>0, <1>1 DEF TypeOK
<1>4. \A s \in recovered : s \in Sessions /\ kept[s] # Gone /\ ~kept[s].finished
  OBVIOUS
<1> HIDE DEF kept
<1>5. OneAtATime' /\ SnapshotsCurrent'
  BY <1>1 DEF OneAtATime, SnapshotsCurrent
<1>6. AckedHeld'
  <2> SUFFICES ASSUME NEW s \in Sessions, s \notin raced, acked[s] # Gone
               PROVE  AckedAt(s)'
    BY <1>1 DEF AckedHeld
  <2>1. AckedAt(s)
    BY <1>0 DEF AckedHeld
  <2>2. store'[s] # Gone => Holds(store'[s], acked'[s])
    BY <1>1, <1>2, <2>1 DEF AckedAt
  <2>3. s \notin dropped' => store'[s] # Gone
    BY <1>1, <1>2, <1>3, <2>1 DEF AckedAt
  <2>4. live'[s] # Gone => Continues(live'[s], acked'[s])
    <3> SUFFICES ASSUME s \in recovered
                 PROVE  Continues(Revived(kept[s]), acked[s])
      BY <1>1 DEF Continues, Finished
    <3>1. Holds(kept[s], acked[s]) /\ ~kept[s].finished
      BY <1>2, <1>4, <2>1 DEF AckedAt
    <3>2. Revived(kept[s]).turn = kept[s].turn
      BY DEF Revived
    <3>3. QED
      BY <3>1, <3>2 DEF Holds, Continues
  <2>5. QED
    BY <2>2, <2>3, <2>4 DEF AckedAt, Continues, Holds, Finished
<1>7. UnbornUnanswered'
  BY <1>0, <1>1 DEF UnbornUnanswered
<1>8. QED
  BY <1>5, <1>6, <1>7 DEF UInv

LEMMA SteppingUnraced == PInv /\ UInv /\ [Next]_vars => UInv'
<1> SUFFICES ASSUME PInv, UInv, [Next]_vars PROVE UInv'
  OBVIOUS
<1>1. ASSUME NEW s \in Sessions, NEW mode \in Modes, Create(s, mode) PROVE UInv'
  BY <1>1, CreatingUnraced
<1>2. ASSUME NEW t \in Threads, NEW s \in Sessions, Enter(t, s) PROVE UInv'
  BY <1>2, EnteringUnraced
<1>3. ASSUME NEW s \in Sessions, SubmitCode(s) PROVE UInv'
  BY <1>3, SubmittingUnraced
<1>4. ASSUME NEW s \in Sessions, Expire(s) PROVE UInv'
  BY <1>4, ExpiringUnraced
<1>5. ASSUME NEW t \in Threads, Reply(t) PROVE UInv'
  <2>1. PICK p : /\ Grows(live[request[t].session], p)
                 /\ live' = [live EXCEPT ![request[t].session] = p]
    BY <1>5, RepliesGrow
  <2> DEFINE r == [pc |-> "answered", session |-> request[t].session, fin |-> FALSE]
  <2>2. /\ request[t].pc = "asking" /\ request' = [request EXCEPT ![t] = r]
        /\ UNCHANGED <<store, requested, acked, dropped, raced>>
    BY <1>5 DEF Reply
  <2>3. r.pc = "answered" /\ r.session = request[t].session
    OBVIOUS
  <2> HIDE DEF r
  <2>4. QED
    BY <2>1, <2>2, <2>3, AnsweringUnraced
<1>6. ASSUME NEW t \in Threads, Conclude(t) PROVE UInv'
  <2>1. PICK p : /\ Grows(live[request[t].session], p)
                 /\ live' = [live EXCEPT ![request[t].session] = p]
    BY <1>6, ConclusionsGrow
  <2> DEFINE r == [pc |-> "answered", session |-> request[t].session, fin |-> TRUE]
  <2>2. /\ request[t].pc = "asking" /\ request' = [request EXCEPT ![t] = r]
        /\ UNCHANGED <<store, requested, acked, dropped, raced>>
    BY <1>6 DEF Conclude
  <2>3. r.pc = "answered" /\ r.session = request[t].session
    OBVIOUS
  <2> HIDE DEF r
  <2>4. QED
    BY <2>1, <2>2, <2>3, AnsweringUnraced
<1>7. ASSUME NEW t \in Threads, Abandon(t) \/ SerialiseFails(t) PROVE UInv'
  BY <1>7, OneRequest DEF Abandon, SerialiseFails
<1>8. ASSUME NEW t \in Threads, Forget(t) PROVE UInv'
  BY <1>8, ForgettingUnraced
<1>9. ASSUME NEW t \in Threads, ReadTurn(t) PROVE UInv'
  BY <1>9, ReadingTurnUnraced
<1>10. ASSUME NEW t \in Threads, ReadStatus(t) PROVE UInv'
  BY <1>10, ReadingStatusUnraced
<1>11. ASSUME NEW t \in Threads, Write(t) PROVE UInv'
  BY <1>11, WritingUnraced
<1>12. CASE Restart
  BY <1>12, RestartingUnraced
<1>13. CASE UNCHANGED vars
  BY <1>13 DEF vars, UInv, OneAtATime, SnapshotsCurrent, Current, Finished, AckedHeld,
               AckedAt, Continues, Holds, UnbornUnanswered
<1>14. QED
  BY <1>1, <1>2, <1>3, <1>4, <1>5, <1>6, <1>7, <1>8, <1>9, <1>10, <1>11, <1>12, <1>13 DEF Next

LEMMA UnracedInvariant == Spec => []UInv
<1>1. PInv /\ UInv /\ [Next]_vars => UInv'
  BY SteppingUnraced
<1>2. QED
  BY InitialUnraced, PastInvariant, <1>1, PTL DEF Spec

----------------------------------------------------------------------------
(* What was answered and saved stays stored, through failed saves and       *)
(* restarts, while the session's turns do not overlap.                     *)
THEOREM AnswersSurvive == Spec => []AnsweredSurvives
<1>1. UInv => AnsweredSurvives
  BY DEF UInv, AckedHeld, AckedAt, Holds, AnsweredSurvives
<1>2. QED
  BY UnracedInvariant, <1>1, PTL

(* A restart does not resume an interview whose end was saved.             *)
THEOREM EndedStaysEnded == Spec => []EndedIsNotResumed
<1>1. UInv => EndedIsNotResumed
  BY DEF UInv, AckedHeld, AckedAt, Continues, EndedIsNotResumed
<1>2. QED
  BY UnracedInvariant, <1>1, PTL

----------------------------------------------------------------------------
(***************************************************************************)
(* The abstract specification.  One more fact is needed, of sessions whose *)
(* turns never overlapped: a submission counted since the snapshot being   *)
(* written was taken is not yet stored, so writing it undoes none.         *)
(***************************************************************************)
CodedKept ==
    \A t \in Threads :
        LET s == request[t].session
        IN  request[t].pc = "writing" /\ s \notin raced /\ store[s] # Gone =>
                store[s].coded <= request[t].snap.coded

LEMMA InitialCoded == Init => CodedKept
BY DEF Init, CodedKept, Idle

(* A step that writes nothing to the store but deletions, and starts no     *)
(* write.                                                                   *)
LEMMA CodedStays ==
    ASSUME TypeOK, CodedKept, raced \subseteq raced',
           \A s \in Sessions : store'[s] \in {store[s], Gone},
           \A t \in Threads : request'[t].pc = "writing" => request'[t] = request[t]
    PROVE  CodedKept'
BY RequestShape DEF CodedKept

LEMMA CreatingCoded ==
    ASSUME PInv, CodedKept, NEW s \in Sessions, NEW mode \in Modes, Create(s, mode)
    PROVE  CodedKept'
<1>0. TypeOK /\ Served /\ Unborn
  BY DEF PInv
<1>1. /\ request' = request /\ raced' = raced /\ live[s] = Gone
      /\ \A r \in Sessions \ {s} : store'[r] = store[r]
  BY <1>0 DEF Create, Saved, SaveFailed, Unborn, TypeOK
<1>2. \A t \in Threads : request[t].pc = "writing" =>
          request[t].session \in Sessions /\ request[t].session # s
  BY <1>0, <1>1, RequestShape DEF Served
<1>3. QED
  BY <1>1, <1>2 DEF CodedKept

LEMMA ReadingStatusCoded ==
    ASSUME PInv, CodedKept, NEW t \in Threads, ReadStatus(t)
    PROVE  CodedKept'
<1>0. TypeOK /\ StoredIsPast
  BY DEF PInv
<1> DEFINE s == request[t].session
           snap == Serialised(live[s], request[t].turn)
           r == [pc |-> "writing", session |-> s, snap |-> snap]
<1>1. s \in Sessions /\ live[s] # Gone
  BY Working DEF ReadStatus
<1>2. request' = [request EXCEPT ![t] = r] /\ UNCHANGED <<store, raced>>
  BY DEF ReadStatus
<1>3. r.session = s /\ r.snap.coded = live[s].coded
  BY DEF Serialised
<1>4. store[s] # Gone => store[s].coded <= live[s].coded
  BY <1>0, <1>1 DEF StoredIsPast, Past
<1> HIDE DEF r
<1>5. request'[t] = r /\ \A u \in Threads \ {t} : request'[u] = request[u]
  BY <1>0, <1>2 DEF TypeOK
<1>6. QED
  BY <1>2, <1>3, <1>4, <1>5 DEF CodedKept

LEMMA WritingCoded ==
    ASSUME PInv, UInv, CodedKept, NEW t \in Threads, Write(t)
    PROVE  CodedKept'
<1>0. TypeOK /\ OneAtATime
  BY DEF PInv, UInv
<1> DEFINE s == request[t].session
<1>1. request[t] # Idle /\ s \in Sessions /\ raced' = raced
  BY Working DEF Write
<1>2. \A r \in Sessions \ {s} : store'[r] = store[r]
  BY <1>0, <1>1 DEF Write, Saved, SaveFailed, TypeOK
<1>3. request' = [request EXCEPT ![t] = Idle]
  BY DEF Write
<1>4. request'[t].pc = "idle" /\ \A u \in Threads \ {t} : request'[u] = request[u]
  BY <1>0, <1>3 DEF TypeOK, Idle
<1> HIDE DEF s
<1>5. \A u \in Threads \ {t} : request[u].pc = "writing" /\ request[u].session \notin raced =>
          request[u].session \in Sessions \ {s}
  BY <1>0, <1>1, RequestShape DEF OneAtATime, s
<1>6. QED
  BY <1>1, <1>2, <1>4, <1>5 DEF CodedKept

LEMMA RestartingCoded == Restart => CodedKept'
BY DEF Restart, CodedKept, Idle

LEMMA SteppingCoded == PInv /\ UInv /\ CodedKept /\ [Next]_vars => CodedKept'
<1> SUFFICES ASSUME PInv, UInv, CodedKept, [Next]_vars PROVE CodedKept'
  OBVIOUS
<1>0. TypeOK
  BY DEF PInv
<1>1. ASSUME NEW t \in Threads, NEW s \in Sessions, Enter(t, s) PROVE CodedKept'
  BY <1>0, <1>1, CodedStays DEF Enter, TypeOK
<1>2. ASSUME NEW s \in Sessions, SubmitCode(s) \/ Expire(s) PROVE CodedKept'
  <2>1. /\ request' = request /\ raced' = raced
        /\ \A r \in Sessions : store'[r] \in {store[r], Gone}
    BY <1>0, <1>2 DEF SubmitCode, Expire, TypeOK
  <2>2. QED
    BY <1>0, <2>1, CodedStays
<1>3. ASSUME NEW t \in Threads,
             Reply(t) \/ Conclude(t) \/ Abandon(t) \/ ReadTurn(t) \/ SerialiseFails(t)
      PROVE  CodedKept'
  <2>1. /\ store' = store /\ raced' = raced
        /\ \E r : r.pc # "writing" /\ request' = [request EXCEPT ![t] = r]
    BY <1>3 DEF Reply, Conclude, Abandon, ReadTurn, SerialiseFails, Idle
  <2>2. \A u \in Threads : request'[u].pc = "writing" => request'[u] = request[u]
    BY <1>0, <2>1 DEF TypeOK
  <2>3. QED
    BY <1>0, <2>1, <2>2, CodedStays
<1>4. ASSUME NEW t \in Threads, Forget(t) PROVE CodedKept'
  <2> DEFINE s == request[t].session
  <2>1. s \in Sessions /\ raced' = raced
    BY <1>4, Working DEF Forget
  <2>2. \A r \in Sessions : store'[r] \in {store[r], Gone}
    BY <1>0, <1>4, <2>1 DEF Forget, TypeOK
  <2>3. request[t] \in [pc : {"answered", "saving"}, session : Sessions, fin : BOOLEAN]
    BY <1>0, <1>4 DEF Forget, TypeOK, Request, Idle
  <2>4. request' = [request EXCEPT ![t] = [request[t] EXCEPT !.pc = "saving"]]
    BY <1>4 DEF Forget
  <2>5. \A u \in Threads : request'[u].pc = "writing" => request'[u] = request[u]
    BY <1>0, <2>3, <2>4 DEF TypeOK
  <2>6. QED
    BY <1>0, <2>1, <2>2, <2>5, CodedStays
<1>5. CASE UNCHANGED vars
  BY <1>5 DEF vars, CodedKept
<1>6. QED
  BY <1>1, <1>2, <1>3, <1>4, <1>5, CreatingCoded, ReadingStatusCoded, WritingCoded,
     RestartingCoded DEF Next

LEMMA CodedInvariant == Spec => []CodedKept
<1>1. PInv /\ UInv /\ CodedKept /\ [Next]_vars => CodedKept'
  BY SteppingCoded
<1>2. QED
  BY InitialCoded, PastInvariant, UnracedInvariant, <1>1, PTL DEF Spec

----------------------------------------------------------------------------
(* What a client sees of a session.                                        *)
Seen == [s \in Sessions |-> IF live[s] = Gone THEN Gone ELSE Answered(live[s])]

Created == {s \in Sessions : requested[s] # Gone}

LEMMA SeenFacts ==
    ASSUME TypeOK, NEW s \in Sessions
    PROVE  /\ Seen[s] = Gone <=> live[s] = Gone
           /\ live[s] # Gone => /\ Seen[s].turn = live[s].turn
                                /\ Seen[s].coded = live[s].coded
                                /\ Seen[s].finished = Finished(live[s])
<1>1. ASSUME live[s] # Gone
      PROVE  Answered(live[s]) # Gone
  <2>1. live[s] \in Orchestrator
    BY <1>1 DEF TypeOK
  <2>2. Answered(live[s]) \in Snapshot
    BY <2>1 DEF Answered, Snapshot, Orchestrator, Finished
  <2>3. QED
    BY <2>2, GoneAssumption
<1>2. QED
  BY <1>1 DEF Seen, Answered

LEMMA InitSessions == Init => Durable!SessionsInit
<1> SUFFICES ASSUME Init PROVE Durable!SessionsInit
  OBVIOUS
<1>1. Created = {}
  BY DEF Init, Created
<1>2. Seen = [s \in Sessions |-> Gone]
  BY DEF Init, Seen
<1>3. QED
  BY <1>1, <1>2 DEF Init, Durable!SessionsInit, Durable!Nowhere, Seen, Created

LEMMA CreatingOpens ==
    ASSUME PInv, PInv', NEW s \in Sessions, NEW mode \in Modes, Create(s, mode)
    PROVE  Durable!Open(s)
<1>0. TypeOK /\ TypeOK' /\ Unborn
  BY DEF PInv
<1>1. /\ live' = [live EXCEPT ![s] = New(mode)]
      /\ requested' = [requested EXCEPT ![s] = mode] /\ mode # Gone
      /\ requested[s] = Gone /\ live[s] = Gone /\ store[s] = Gone /\ raced' = raced
  BY <1>0, GoneAssumption DEF Create, Unborn
<1>2. store' \in {store, [store EXCEPT ![s] = Empty]}
  BY DEF Create, Saved, SaveFailed
<1>3. Created' = Created \cup {s} /\ s \notin Created
  BY <1>0, <1>1 DEF Created, TypeOK
<1>4. Seen[s] = Gone /\ Seen'[s] = Empty
  <2>1. live'[s] = New(mode) /\ New(mode) # Gone
    <3>1. New(mode) \in Orchestrator
      BY DEF New, Orchestrator
    <3>2. QED
      BY <1>0, <1>1, <3>1, GoneAssumption DEF TypeOK
  <2>2. Answered(New(mode)) = Empty
    BY DEF Answered, New, Empty, Finished
  <2>3. QED
    BY <1>1, <2>1, <2>2 DEF Seen
<1>5. \A r \in Sessions \ {s} : Seen'[r] = Seen[r] /\ store'[r] = store[r]
  BY <1>0, <1>1, <1>2 DEF Seen, TypeOK, Answered, Finished
<1>6. store'[s] \in {Gone, Empty}
  BY <1>0, <1>1, <1>2 DEF TypeOK
<1>7. QED
  BY <1>1, <1>3, <1>4, <1>5, <1>6
     DEF Durable!Open, Durable!Fresh, Durable!Only, Empty, Seen, Created

(* A state that grows is a session that moves forward.                     *)
LEMMA GrowthAdvances ==
    ASSUME PInv, PInv', NEW s \in Sessions, live[s] # Gone,
           NEW p, Grows(live[s], p), live' = [live EXCEPT ![s] = p],
           UNCHANGED <<store, requested>>, raced' \in {raced, raced \cup {s}}
    PROVE  Durable!Advance(s)
<1>0. TypeOK /\ TypeOK'
  BY DEF PInv
<1>1. p \in Orchestrator /\ live[s] \in Orchestrator
  BY <1>0 DEF TypeOK, Grows
<1>2. live'[s] = p /\ p # Gone /\ \A r \in Sessions \ {s} : live'[r] = live[r]
  BY <1>0, <1>1, GoneAssumption DEF TypeOK
<1>3. /\ live[s].turn <= p.turn /\ live[s].coded <= p.coded
      /\ Finished(live[s]) => Finished(p)
  BY DEF Grows, Finished
<1>4. /\ Seen[s] # Gone /\ Seen'[s] # Gone
      /\ Seen[s].turn <= Seen'[s].turn /\ Seen[s].coded <= Seen'[s].coded
      /\ Seen[s].finished => Seen'[s].finished
  <2>1. /\ Seen'[s] # Gone /\ Seen'[s].turn = p.turn /\ Seen'[s].coded = p.coded
        /\ Seen'[s].finished = Finished(p)
    <3>1. Seen'[s] = Answered(p)
      BY <1>2 DEF Seen, Answered, Finished
    <3>2. Answered(p) \in Snapshot
      BY <1>1 DEF Answered, Snapshot, Orchestrator, Finished
    <3>3. QED
      BY <3>1, <3>2, GoneAssumption DEF Answered
  <2>2. QED
    BY <1>0, <1>3, <2>1, SeenFacts
<1>5. \A r \in Sessions \ {s} : Seen'[r] = Seen[r]
  BY <1>2 DEF Seen, Answered, Finished
<1>6. Created' = Created
  BY DEF Created
<1>7. QED
  BY <1>4, <1>5, <1>6 DEF Durable!Advance, Durable!Behind, Durable!Only, Seen, Created

LEMMA EnteringAdvances ==
    ASSUME PInv, PInv', NEW t \in Threads, NEW s \in Sessions, Enter(t, s)
    PROVE  Durable!Advance(s)
<1>0. TypeOK
  BY DEF PInv
<1> DEFINE p == IF live[s].mode = "multi_agent" THEN [live[s] EXCEPT !.turn = @ + 1]
                ELSE [live[s] EXCEPT !.count = @ + 1]
<1>1. live[s] # Gone /\ live[s] \in Orchestrator
  BY <1>0 DEF Enter, TypeOK
<1>2. live' = [live EXCEPT ![s] = p]
  BY DEF Enter
<1>3. Grows(live[s], p)
  BY <1>1 DEF Orchestrator, Modes, Grows
<1>4. UNCHANGED <<store, requested>> /\ raced' \in {raced, raced \cup {s}}
  BY DEF Enter
<1> HIDE DEF p
<1>5. QED
  BY <1>1, <1>2, <1>3, <1>4, GrowthAdvances

LEMMA AnsweringAdvances ==
    ASSUME PInv, PInv', NEW t \in Threads, Reply(t) \/ Conclude(t)
    PROVE  \E s \in Sessions : Durable!Advance(s)
<1> DEFINE s == request[t].session
<1>1. s \in Sessions /\ live[s] # Gone
  BY Working DEF Reply, Conclude
<1>2. PICK p : Grows(live[s], p) /\ live' = [live EXCEPT ![s] = p]
  BY RepliesGrow, ConclusionsGrow
<1>3. UNCHANGED <<store, requested, raced>>
  BY DEF Reply, Conclude
<1> HIDE DEF s
<1>4. QED
  BY <1>1, <1>2, <1>3, GrowthAdvances

LEMMA SubmittingAdvances ==
    ASSUME PInv, PInv', NEW s \in Sessions, SubmitCode(s)
    PROVE  Durable!Advance(s)
<1>0. TypeOK
  BY DEF PInv
<1> DEFINE p == [live[s] EXCEPT !.coded = @ + 1]
<1>1. live[s] # Gone /\ live[s] \in Orchestrator
  BY <1>0 DEF SubmitCode, TypeOK
<1>2. live' = [live EXCEPT ![s] = p] /\ UNCHANGED <<store, requested, raced>>
  BY DEF SubmitCode
<1>3. Grows(live[s], p)
  BY <1>1 DEF Orchestrator, Grows
<1> HIDE DEF p
<1>4. QED
  BY <1>1, <1>2, <1>3, GrowthAdvances

(* A step that leaves the orchestrators alone and deletes at most an entry. *)
LEMMA DeletingDiscards ==
    ASSUME PInv, UNCHANGED <<live, requested, raced>>, NEW s \in Sessions,
           store' \in {store, [store EXCEPT ![s] = Gone]}
    PROVE  Durable!Discard(s) \/ UNCHANGED Durable!sessionVars
<1>0. TypeOK
  BY DEF PInv
<1>1. Seen' = Seen /\ Created' = Created
  BY DEF Seen, Created, Answered, Finished
<1>2. CASE store' = store
  BY <1>1, <1>2 DEF Durable!sessionVars, Seen, Created
<1>3. CASE store' = [store EXCEPT ![s] = Gone]
  <2>1. store'[s] = Gone /\ \A r \in Sessions \ {s} : store'[r] = store[r]
    BY <1>0, <1>3 DEF TypeOK
  <2>2. QED
    BY <1>1, <2>1 DEF Durable!Discard, Durable!Only, Seen, Created
<1>4. QED
  BY <1>2, <1>3

LEMMA WritingCheckpoints ==
    ASSUME PInv, UInv, CodedKept, NEW t \in Threads, Write(t)
    PROVE  (\E s \in Sessions : Durable!Checkpoint(s)) \/ UNCHANGED Durable!sessionVars
<1>0. TypeOK /\ SnapshotsArePast /\ SnapshotsCurrent /\ StoredIsPast
  BY DEF PInv, UInv
<1> DEFINE s == request[t].session
           snap == request[t].snap
<1>1. /\ request[t].pc = "writing" /\ request[t] # Idle
      /\ s \in Sessions /\ live[s] # Gone /\ live[s] \in Orchestrator
  BY Working DEF Write
<1>2. snap \in Snapshot /\ snap # Gone /\ Past(snap, live[s])
  BY <1>0, <1>1, RequestShape, GoneAssumption DEF SnapshotsArePast
<1>3. UNCHANGED <<live, requested, raced>> /\ store' \in {store, [store EXCEPT ![s] = snap]}
  BY DEF Write, Saved, SaveFailed
<1>4. Seen' = Seen /\ Created' = Created
  BY <1>3 DEF Seen, Created, Answered, Finished
<1>5. ASSUME s \notin raced, store[s] # Gone
      PROVE  /\ store[s].turn <= snap.turn /\ store[s].coded <= snap.coded
             /\ store[s].finished => snap.finished
  <2>1. snap.turn = live[s].turn /\ snap.finished = Finished(live[s])
    BY <1>0, <1>1, <1>5 DEF SnapshotsCurrent, Current
  <2>2. Past(store[s], live[s])
    BY <1>0, <1>1, <1>5 DEF StoredIsPast
  <2>3. store[s].coded <= snap.coded
    BY <1>1, <1>5 DEF CodedKept
  <2>4. QED
    BY <2>1, <2>2, <2>3 DEF Past
<1> HIDE DEF s, snap
<1>6. CASE store' = store
  BY <1>3, <1>4, <1>6 DEF Durable!sessionVars, Seen, Created
<1>7. CASE store' = [store EXCEPT ![s] = snap]
  <2>1. store'[s] = snap /\ \A r \in Sessions \ {s} : store'[r] = store[r]
    BY <1>0, <1>1, <1>7 DEF TypeOK
  <2>2. /\ Seen[s] # Gone /\ snap.turn <= Seen[s].turn /\ snap.coded <= Seen[s].coded
        /\ snap.finished => Seen[s].finished
    BY <1>0, <1>1, <1>2, SeenFacts DEF Past
  <2>3. Durable!Checkpoint(s)
    BY <1>2, <1>3, <1>4, <1>5, <2>1, <2>2
       DEF Durable!Checkpoint, Durable!Behind, Durable!Only, Seen, Created
  <2>4. QED
    BY <1>1, <2>3
<1>8. QED
  BY <1>3, <1>6, <1>7

LEMMA RestartingCrashes ==
    ASSUME PInv, Restart
    PROVE  Durable!Crash
<1>0. TypeOK
  BY DEF PInv
<1> DEFINE kept == IF backend = "memory" THEN [s \in Sessions |-> Gone] ELSE store
           ongoing == {s \in Sessions : kept[s] # Gone /\ ~kept[s].finished}
<1>1. PICK recovered \in SUBSET ongoing :
        /\ store' = kept
        /\ live' = [s \in Sessions |-> IF s \in recovered THEN Revived(kept[s]) ELSE Gone]
        /\ UNCHANGED <<requested, raced>>
  BY DEF Restart
<1>2. kept \in [Sessions -> Snapshot \cup {Gone}] /\ kept \in {store, [s \in Sessions |-> Gone]}
  BY <1>0 DEF TypeOK
<1>3. \A s \in recovered : s \in Sessions /\ kept[s] \in Snapshot /\ ~kept[s].finished
  BY <1>2
<1>4. Created' = Created
  BY <1>1 DEF Created
<1> HIDE DEF kept
<1>5. ASSUME NEW s \in Sessions
      PROVE  Seen'[s] = Gone \/ (Seen'[s] = store'[s] /\ ~store'[s].finished)
  <2>1. CASE s \notin recovered
    <3>1. live'[s] = Gone
      BY <1>1, <2>1
    <3>2. QED
      BY <3>1 DEF Seen
  <2>2. CASE s \in recovered
    <3>1. live'[s] = Revived(kept[s]) /\ store'[s] = kept[s]
      BY <1>1, <2>2
    <3>2. kept[s] = [turn |-> kept[s].turn, finished |-> FALSE, coded |-> kept[s].coded]
      BY <1>3, <2>2 DEF Snapshot
    <3>3. Answered(Revived(kept[s])) = kept[s]
      BY <3>2 DEF Answered, Revived, Finished
    <3>4. Seen'[s] = IF live'[s] = Gone THEN Gone ELSE Answered(live'[s])
      BY DEF Seen, Answered, Finished
    <3>5. QED
      BY <1>3, <2>2, <3>1, <3>3, <3>4
  <2>3. QED
    BY <2>1, <2>2
<1>6. QED
  BY <1>1, <1>2, <1>4, <1>5 DEF Durable!Crash, Durable!Nowhere, Seen, Created

LEMMA StepDurable ==
    ASSUME PInv, PInv', UInv, CodedKept, [Next]_vars
    PROVE  [Durable!SessionsNext]_(Durable!sessionVars)
<1>0. TypeOK
  BY DEF PInv
<1>1. ASSUME NEW s \in Sessions, NEW mode \in Modes, Create(s, mode)
      PROVE  Durable!SessionsNext
  BY <1>1, CreatingOpens DEF Durable!SessionsNext
<1>2. ASSUME NEW t \in Threads, NEW s \in Sessions, Enter(t, s)
      PROVE  Durable!SessionsNext
  BY <1>2, EnteringAdvances DEF Durable!SessionsNext
<1>3. ASSUME NEW t \in Threads, Reply(t) \/ Conclude(t)
      PROVE  Durable!SessionsNext
  BY <1>3, AnsweringAdvances DEF Durable!SessionsNext
<1>4. ASSUME NEW s \in Sessions, SubmitCode(s)
      PROVE  Durable!SessionsNext
  BY <1>4, SubmittingAdvances DEF Durable!SessionsNext
<1>5. ASSUME NEW s \in Sessions, Expire(s)
      PROVE  [Durable!SessionsNext]_(Durable!sessionVars)
  BY <1>5, DeletingDiscards DEF Expire, Durable!SessionsNext
<1>6. ASSUME NEW t \in Threads, Forget(t)
      PROVE  [Durable!SessionsNext]_(Durable!sessionVars)
  <2>1. request[t].session \in Sessions
    BY <1>6, Working DEF Forget
  <2>2. /\ UNCHANGED <<live, requested, raced>>
        /\ store' \in {store, [store EXCEPT ![request[t].session] = Gone]}
    BY <1>6 DEF Forget
  <2>3. QED
    BY <2>1, <2>2, DeletingDiscards DEF Durable!SessionsNext
<1>7. ASSUME UNCHANGED <<live, requested, raced, store>>
      PROVE  UNCHANGED Durable!sessionVars
  BY <1>7 DEF Durable!sessionVars, Answered, Finished
<1>8. ASSUME NEW t \in Threads, Abandon(t) \/ ReadTurn(t) \/ ReadStatus(t) \/ SerialiseFails(t)
      PROVE  UNCHANGED Durable!sessionVars
  BY <1>7, <1>8 DEF Abandon, ReadTurn, ReadStatus, SerialiseFails
<1>9. ASSUME NEW t \in Threads, Write(t)
      PROVE  [Durable!SessionsNext]_(Durable!sessionVars)
  BY <1>9, WritingCheckpoints DEF Durable!SessionsNext
<1>10. CASE Restart
  BY <1>10, RestartingCrashes DEF Durable!SessionsNext
<1>11. CASE UNCHANGED vars
  BY <1>7, <1>11 DEF vars
<1>12. QED
  BY <1>1, <1>2, <1>3, <1>4, <1>5, <1>6, <1>8, <1>9, <1>10, <1>11 DEF Next

(* A session a client sees only moves forward between restarts, what is     *)
(* stored is always of its past, and a restart brings back exactly that;   *)
(* without overlap no save undoes another.  Whatever threads do, and       *)
(* whichever saves fail.                                                   *)
THEOREM ServiceImplementsSessions == Spec => ImplementsDurableSessions
<1>1. PInv /\ PInv' /\ UInv /\ CodedKept /\ [Next]_vars =>
          [Durable!SessionsNext]_(Durable!sessionVars)
  BY StepDurable
<1>2. QED
  BY <1>1, InitSessions, PastInvariant, UnracedInvariant, CodedInvariant, PTL
     DEF Spec, ImplementsDurableSessions, Durable!SessionsSpec

----------------------------------------------------------------------------
(***************************************************************************)
(* What is left of ModeSurvivesRestart, which a restart breaks: a session   *)
(* may come back as the crew's, and only as that.                           *)
(***************************************************************************)
RequestedOrCrew ==
    \A s \in Sessions : live[s] # Gone => live[s].mode \in {requested[s], "multi_agent"}

LEMMA GrowthKeepsMode ==
    ASSUME PInv, RequestedOrCrew, NEW s \in Sessions, live[s] # Gone,
           NEW p, Grows(live[s], p), live' = [live EXCEPT ![s] = p],
           requested' = requested
    PROVE  RequestedOrCrew'
<1>1. live \in [Sessions -> Orchestrator \cup {Gone}]
  BY DEF PInv, TypeOK
<1>2. \A r \in Sessions : live'[r] = IF r = s THEN p ELSE live[r]
  BY <1>1
<1>3. QED
  BY <1>2 DEF RequestedOrCrew, Grows

LEMMA StepKeepsMode ==
    ASSUME PInv, RequestedOrCrew, [Next]_vars
    PROVE  RequestedOrCrew'
<1>0. /\ live \in [Sessions -> Orchestrator \cup {Gone}]
      /\ requested \in [Sessions -> Modes \cup {Gone}]
  BY DEF PInv, TypeOK
<1>1. ASSUME NEW s \in Sessions, NEW mode \in Modes, Create(s, mode)
      PROVE  RequestedOrCrew'
  <2>1. /\ \A r \in Sessions : live'[r] = IF r = s THEN New(mode) ELSE live[r]
        /\ \A r \in Sessions : requested'[r] = IF r = s THEN mode ELSE requested[r]
    BY <1>0, <1>1 DEF Create
  <2>2. New(mode).mode = mode
    BY DEF New
  <2>3. QED
    BY <2>1, <2>2 DEF RequestedOrCrew
<1>2. ASSUME NEW t \in Threads, NEW s \in Sessions, Enter(t, s)
      PROVE  RequestedOrCrew'
  <2> DEFINE p == IF live[s].mode = "multi_agent" THEN [live[s] EXCEPT !.turn = @ + 1]
                  ELSE [live[s] EXCEPT !.count = @ + 1]
  <2>1. live[s] # Gone /\ live[s] \in Orchestrator
    BY <1>0, <1>2 DEF Enter
  <2>2. live' = [live EXCEPT ![s] = p] /\ requested' = requested
    BY <1>2 DEF Enter
  <2>3. Grows(live[s], p)
    BY <2>1 DEF Orchestrator, Modes, Grows
  <2> HIDE DEF p
  <2>4. QED
    BY <2>1, <2>2, <2>3, GrowthKeepsMode
<1>3. ASSUME NEW t \in Threads, Reply(t) \/ Conclude(t)
      PROVE  RequestedOrCrew'
  <2> DEFINE s == request[t].session
  <2>1. s \in Sessions /\ live[s] # Gone
    BY <1>3, Working DEF Reply, Conclude
  <2>2. PICK p : Grows(live[s], p) /\ live' = [live EXCEPT ![s] = p]
    BY <1>3, RepliesGrow, ConclusionsGrow
  <2>3. requested' = requested
    BY <1>3 DEF Reply, Conclude
  <2> HIDE DEF s
  <2>4. QED
    BY <2>1, <2>2, <2>3, GrowthKeepsMode
<1>4. ASSUME NEW s \in Sessions, SubmitCode(s)
      PROVE  RequestedOrCrew'
  <2> DEFINE p == [live[s] EXCEPT !.coded = @ + 1]
  <2>1. live[s] # Gone /\ live[s] \in Orchestrator
    BY <1>0, <1>4 DEF SubmitCode
  <2>2. live' = [live EXCEPT ![s] = p] /\ requested' = requested
    BY <1>4 DEF SubmitCode
  <2>3. Grows(live[s], p)
    BY <2>1 DEF Orchestrator, Grows
  <2> HIDE DEF p
  <2>4. QED
    BY <2>1, <2>2, <2>3, GrowthKeepsMode
<1>5. CASE Restart
  <2>1. \A s \in Sessions : live'[s] = Gone \/ \E snap : live'[s] = Revived(snap)
    BY <1>5 DEF Restart
  <2>2. \A snap : Revived(snap).mode = "multi_agent"
    BY DEF Revived
  <2>3. QED
    BY <2>1, <2>2 DEF RequestedOrCrew
<1>6. CASE UNCHANGED <<live, requested>>
  BY <1>6 DEF RequestedOrCrew
<1>7. CASE \/ \E s \in Sessions : Expire(s)
           \/ \E t \in Threads : \/ Abandon(t) \/ Forget(t) \/ ReadTurn(t)
                                \/ ReadStatus(t) \/ SerialiseFails(t) \/ Write(t)
           \/ UNCHANGED vars
  BY <1>6, <1>7
     DEF Expire, Abandon, Forget, ReadTurn, ReadStatus, SerialiseFails, Write, vars
<1>8. QED
  BY <1>1, <1>2, <1>3, <1>4, <1>5, <1>7 DEF Next

(* A session is served in the mode it was created with or as the crew's,    *)
(* through any restart: no recovery makes a crew session a single agent's,  *)
(* whose own counter no store keeps (startup_event).                        *)
THEOREM CrewStaysCrew == Spec => []RequestedOrCrew
<1>1. Init => RequestedOrCrew
  BY DEF Init, RequestedOrCrew
<1>2. PInv /\ RequestedOrCrew /\ [Next]_vars => RequestedOrCrew'
  BY StepKeepsMode
<1>3. QED
  BY <1>1, <1>2, PastInvariant, PTL DEF Spec
=============================================================================
