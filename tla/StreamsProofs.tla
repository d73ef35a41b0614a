---------------------------- MODULE StreamsProofs ----------------------------
(* Proofs about module Streams, for any number of streams and submissions.   *)
EXTENDS Streams, InterviewProofs

(***************************************************************************)
(* The inductive invariant.                                                *)
(***************************************************************************)

\* a holds the floor or held it before: an enabled round at or before the
\* current one.
Heard(a) ==
    /\ agent # NoAgent
    /\ \E k \in 1 .. Len(config.rounds) :
          config.rounds[k] = a /\ k <= IndexIn(config.rounds, agent)

\* Whoever has put a question, or is about to, was given the floor.
AskersHeard ==
    /\ \A i \in 1 .. Len(packages) : Heard(packages[i].from)
    /\ \A r \in Open : Heard(calls[r].agent)

SInv ==
    /\ Grounds
    /\ CallsTyped
    /\ AskersHeard
    /\ OverlapWithinTotal
    /\ OverlapMetered

\* The same of what is stored, with which no stream is in hand.
AskersAt(c, s) ==
    \A i \in 1 .. Len(s.packages) :
        \E k \in 1 .. Len(c.rounds) :
            c.rounds[k] = s.packages[i].from /\ k <= IndexIn(c.rounds, s.agent)

KeptAt(c, s) ==
    /\ GroundsAt(c, s)
    /\ AskersAt(c, s)
    /\ Len(s.packages) + NonNeg(c.total - s.turn) <= c.total
    /\ PaidAt(c, s)

CInv == SInv /\ KeptAt(config, saved) /\ Behind

----------------------------------------------------------------------------
(* The streams in hand, and their number.                                   *)
LEMMA OpenFinite ==
    /\ IsFiniteSet(Open) /\ Cardinality(Open) \in Nat
    /\ \A a : /\ IsFiniteSet(OpenFor(a)) /\ Cardinality(OpenFor(a)) \in Nat
<1>1. IsFiniteSet(Open)
  BY RequestsAssumption, FS_Subset DEF Open
<1>2. ASSUME NEW a PROVE IsFiniteSet(OpenFor(a))
  BY <1>1, FS_Subset DEF OpenFor
<1>3. QED
  BY <1>1, <1>2, FS_CardinalityType

(* A stream that is taken up: one more in hand, for the one who asks.       *)
LEMMA OpenAdds ==
    ASSUME CallsTyped, NEW r \in Readers, calls[r] = Idle,
           NEW c \in Pending, calls' = [calls EXCEPT ![r] = c]
    PROVE  /\ Open' = Open \cup {r}
           /\ Cardinality(Open') = Cardinality(Open) + 1
           /\ \A s \in Open : calls'[s] = calls[s]
           /\ calls'[r] = c
           /\ \A a : Cardinality(OpenFor(a)')
                       = Cardinality(OpenFor(a)) + IF c.agent = a THEN 1 ELSE 0
<1>1. c # Idle
  BY DEF Pending, Idle
<1>2. /\ \A s \in Readers : calls'[s] = IF s = r THEN c ELSE calls[s]
  BY DEF CallsTyped
<1>3. Open' = Open \cup {r} /\ r \notin Open
  BY <1>1, <1>2 DEF Open
<1>4. Cardinality(Open') = Cardinality(Open) + 1
  BY <1>3, OpenFinite, FS_AddElement
<1>5. ASSUME NEW a
      PROVE  Cardinality(OpenFor(a)') = Cardinality(OpenFor(a)) + IF c.agent = a THEN 1 ELSE 0
  <2>1. CASE c.agent = a
    <3>1. OpenFor(a)' = OpenFor(a) \cup {r} /\ r \notin OpenFor(a)
      BY <1>2, <1>3, <2>1 DEF OpenFor, Open
    <3>2. QED
      BY <3>1, <2>1, OpenFinite, FS_AddElement
  <2>2. CASE c.agent # a
    <3>1. OpenFor(a)' = OpenFor(a)
      BY <1>2, <1>3, <2>2 DEF OpenFor, Open
    <3>2. QED
      BY <3>1, <2>2, OpenFinite
  <2>3. QED
    BY <2>1, <2>2
<1>6. \A s \in Open : calls'[s] = calls[s]
  BY <1>2, <1>3 DEF Open
<1>7. QED
  BY <1>2, <1>3, <1>4, <1>5, <1>6

(* A stream that ends: one fewer in hand, for the one who was to ask.       *)
LEMMA OpenDrops ==
    ASSUME CallsTyped, NEW r \in Open, Hung(r)
    PROVE  /\ Open' = Open \ {r}
           /\ Cardinality(Open') = Cardinality(Open) - 1
           /\ \A s \in Open' : calls'[s] = calls[s]
           /\ calls[r].agent \in Agents
           /\ \A a : Cardinality(OpenFor(a)')
                       = Cardinality(OpenFor(a)) - IF calls[r].agent = a THEN 1 ELSE 0
<1>1. r \in Readers /\ calls[r] \in Pending
  BY DEF Open, CallsTyped
<1>2. \A s \in Readers : calls'[s] = IF s = r THEN Idle ELSE calls[s]
  BY <1>1 DEF CallsTyped, Hung
<1>3. Open' = Open \ {r}
  BY <1>2 DEF Open
<1>4. Cardinality(Open') = Cardinality(Open) - 1
  BY <1>3, OpenFinite, FS_RemoveElement
<1>5. ASSUME NEW a
      PROVE  Cardinality(OpenFor(a)')
               = Cardinality(OpenFor(a)) - IF calls[r].agent = a THEN 1 ELSE 0
  <2>1. CASE calls[r].agent = a
    <3>1. OpenFor(a)' = OpenFor(a) \ {r} /\ r \in OpenFor(a)
      BY <1>1, <1>2, <1>3, <2>1 DEF OpenFor, Open
    <3>2. QED
      BY <3>1, <2>1, OpenFinite, FS_RemoveElement
  <2>2. CASE calls[r].agent # a
    <3>1. OpenFor(a)' = OpenFor(a)
      BY <1>2, <1>3, <2>2 DEF OpenFor, Open
    <3>2. QED
      BY <3>1, <2>2, OpenFinite
  <2>3. QED
    BY <2>1, <2>2
<1>6. \A s \in Open' : calls'[s] = calls[s]
  BY <1>2, <1>3 DEF Open
<1>7. calls[r].agent \in Agents
  BY <1>1 DEF Pending
<1>8. QED
  BY <1>3, <1>4, <1>5, <1>6, <1>7

----------------------------------------------------------------------------
(* A stream that is taken up, whichever way it asks: the interview is       *)
(* running with turns left, and the one to ask is the current interviewer,  *)
(* who pays, or the next one when the current one has nothing left.         *)
Starting(r) == StreamQuestion(r) \/ BlockOnSwitch(r) \/ BlockOnAdvance(r) \/ BlockOnRound(r)

Begins(r, a) ==
    /\ agent' = a /\ status' = status /\ packages' = packages
    /\ stages' \in [Tech -> Progress] /\ task' \in Tech \cup {NoTask}
    /\ UNCHANGED <<reply, saved, saving>>
    /\ \E c \in Pending : c.agent = a /\ calls' = [calls EXCEPT ![r] = c]

LEMMA BeginBegins ==
    ASSUME FieldsOK, NEW r, NEW a \in Agents, NEW st \in [Tech -> Progress],
           NEW pc \in {"streaming", "blocking"}, Begin(r, pc, a, st)
    PROVE  Begins(r, a)
<1>1. a \in Tech => st[a].stage \in Stages
  BY DEF Progress
<1>2. StageIn(st, a) \in Stages \cup {NoStage}
  BY <1>1 DEF StageIn
<1>3. [pc |-> pc, agent |-> a, stage |-> StageIn(st, a)] \in Pending
  BY <1>2 DEF Pending
<1>4. task \in Tech \cup {NoTask} /\ (a \in Tech => Prepared(a, st[a]) \in Tech \cup {NoTask})
  BY DEF FieldsOK, Prepared
<1>5. task' \in Tech \cup {NoTask}
  BY <1>4 DEF Begin
<1>6. QED
  BY <1>3, <1>5 DEF Begin, Begins

LEMMA StartShape ==
    ASSUME Grounds, NEW r \in Readers, Starting(r)
    PROVE  /\ Metered /\ calls[r] = Idle
           /\ status = "ongoing" /\ quota.global > 0
           /\ \/ agent' = Current /\ quota.agent[Current] > 0
              \/ /\ Position(Current) < Len(Rounds)
                 /\ agent' = Successor
                 /\ quota'.agent[Current] = 0
           /\ Begins(r, agent')
<1>1. Metered /\ calls[r] = Idle
  BY DEF Starting, StreamQuestion, BlockOnSwitch, BlockOnAdvance, BlockOnRound, Enter
<1>2. /\ Current \in Agents
      /\ Position(Current) \in 1 .. Len(Rounds)
      /\ agent # NoAgent => Current = agent
      /\ CurrentStage \in Stages \cup {NoStage}
      /\ Rounds # << >>
  BY <1>1, CurrentPlaced DEF Metered
<1>3. /\ FieldsOK /\ quota.global \in Nat /\ quota.agent[Current] \in Nat
      /\ config.rounds \in Seq(Agents) /\ Len(Rounds) \in Nat
  BY <1>2, Types DEF Grounds, Rounds
<1>4. /\ quota' = Spent /\ quota' \in QuotaType
      /\ quota'.agent[Current] = NonNeg(quota.agent[Current] - 1)
  <2>1. quota.agent \in [Agents -> Nat]
    BY <1>3 DEF FieldsOK, QuotaType
  <2>2. QED
    BY <1>1, <1>2, <2>1, TurnMetered DEF Metered
<1>5. quota.global > 0
  BY <1>3 DEF Starting, StreamQuestion, BlockOnSwitch, BlockOnAdvance, BlockOnRound,
              Leaves, AgentSpent, RoundComplete, Normal, StageExpired, Verdict, Check
<1>6. \/ BlockOnSwitch(r)
      \/ (BlockOnAdvance(r) \/ BlockOnRound(r) \/ StreamQuestion(r)) /\ quota.agent[Current] > 0
  BY <1>3 DEF Starting, StreamQuestion, BlockOnAdvance, BlockOnRound,
              RoundComplete, Normal, StageExpired, Verdict, Check
<1>7. BlockOnSwitch(r) => Position(Current) < Len(Rounds) /\ quota'.agent[Current] = 0
  <2>1. SUFFICES ASSUME BlockOnSwitch(r)
                 PROVE  Position(Current) < Len(Rounds) /\ quota'.agent[Current] = 0
    OBVIOUS
  <2>2. Position(Current) < Len(Rounds)
    BY <2>1, <1>2, <1>3 DEF BlockOnSwitch, LastRound
  <2>3. Spent.agent[Current] <= 0 \/ quota.agent[Current] <= 0
    BY <2>1 DEF BlockOnSwitch, Leaves, AgentSpent, Verdict, Check
  <2>4. quota'.agent[Current] \in Nat
    BY <1>2, <1>4 DEF QuotaType
  <2>5. QED
    BY <2>2, <2>3, <2>4, <1>3, <1>4 DEF NonNeg
<1>8. status = "ongoing"
  <2>1. SUFFICES ASSUME Over PROVE FALSE
    BY <1>3 DEF Grounds, Floor, FieldsOK
  <2>2. agent # NoAgent /\ Position(Current) = Len(Rounds) /\ quota.agent[Current] = 0
    BY <2>1, <1>2, <1>5 DEF Over, Position, Rounds
  <2>3. QED
    BY <2>2, <1>2, <1>3, <1>6, <1>7
<1>9. stages \in [Tech -> Progress] /\ StagesNow \in [Tech -> Progress] /\ Fresh \in Progress
  <2>1. \A p \in Progress : Advanced(p) \in Progress
    BY DEF Advanced, Progress, Stages, NextStage
  <2>2. QED
    BY <1>3, <2>1 DEF StagesNow, FieldsOK, Fresh, Progress, Stages
<1>10. CASE BlockOnSwitch(r)
  <2>1. Successor \in Agents
    BY <1>2, <1>3, <1>7, <1>10 DEF Successor, Position, Rounds
  <2> DEFINE st == IF Successor \in Tech THEN [StagesNow EXCEPT ![Successor] = Fresh]
                                         ELSE StagesNow
  <2>2. Begin(r, "blocking", Successor, st)
    BY <1>10 DEF BlockOnSwitch, Successor, Position, Rounds
  <2>3. st \in [Tech -> Progress]
    BY <1>9
  <2> HIDE DEF st
  <2>4. Begins(r, Successor) /\ agent' = Successor
    BY <2>1, <2>2, <2>3, <1>3, BeginBegins DEF Begin
  <2>5. QED
    BY <2>4, <1>1, <1>5, <1>7, <1>8, <1>10
<1>11. CASE (BlockOnAdvance(r) \/ BlockOnRound(r) \/ StreamQuestion(r)) /\ quota.agent[Current] > 0
  <2>1. [stages EXCEPT ![Current] = Fresh] \in [Tech -> Progress]
    BY <1>9
  <2>2. \E pc \in {"streaming", "blocking"}, st \in [Tech -> Progress] :
            Begin(r, pc, Current, st)
    BY <2>1, <1>9, <1>11 DEF BlockOnAdvance, BlockOnRound, StreamQuestion
  <2>3. Begins(r, Current) /\ agent' = Current
    BY <2>2, <1>2, <1>3, BeginBegins DEF Begin
  <2>4. QED
    BY <2>3, <1>1, <1>5, <1>8, <1>11
<1>12. QED
  BY <1>6, <1>10, <1>11

(* Everyone heard so far stands at or before the current interviewer, and   *)
(* the one to ask stands there or is the next.                              *)
LEMMA StartPlace ==
    ASSUME SInv, NEW r \in Readers, Starting(r)
    PROVE  /\ config' = config /\ agent' \in Agents /\ agent' # NoAgent
           /\ \A a : Heard(a) => Heard(a)'
           /\ Heard(agent)'
           /\ \/ agent' = Current /\ quota.agent[Current] > 0
              \/ /\ agent' = Successor
                 /\ ~ Heard(agent')
                 /\ config.rounds # << >> /\ agent' # config.rounds[1]
                 /\ Position(agent') = Position(Current) + 1
<1> DEFINE P == IndexIn(config.rounds, Current)
<1>1. Grounds
  BY DEF SInv
<1>2. /\ Metered /\ Rounds # << >> /\ config' = config
      /\ \/ agent' = Current /\ quota.agent[Current] > 0
         \/ P < Len(config.rounds) /\ agent' = config.rounds[P + 1]
  BY <1>1, StartShape DEF Metered, Position, Rounds, Successor
<1>3. /\ Current \in Agents /\ P \in 1 .. Len(config.rounds)
      /\ config.rounds[P] = Current
      /\ agent # NoAgent => Current = agent
  BY <1>1, <1>2, CurrentPlaced DEF Position, Rounds
<1>4. /\ config.rounds \in Seq(Agents) /\ Len(config.rounds) \in Nat
      /\ NoRepeats(config.rounds)
  BY <1>1, Types DEF Grounds
<1>5. CASE agent' = Current /\ quota.agent[Current] > 0
  <2>1. agent' # NoAgent
    BY <1>3, <1>5, DistinctAssumption
  <2>2. \A a : Heard(a) => Heard(a)'
    BY <2>1, <1>2, <1>3, <1>5 DEF Heard
  <2>3. Heard(agent)'
    BY <2>1, <1>2, <1>3, <1>5 DEF Heard
  <2>4. QED
    BY <2>1, <2>2, <2>3, <1>2, <1>3, <1>5
<1>6. CASE P < Len(config.rounds) /\ agent' = config.rounds[P + 1]
  <2>1. P + 1 \in 1 .. Len(config.rounds)
    BY <1>3, <1>4, <1>6
  <2>2. IndexIn(config.rounds, agent') = P + 1 /\ agent' \in Agents /\ agent' # NoAgent
    BY <2>1, <1>4, <1>6, IndexUnique, DistinctAssumption
  <2>3. \A a : Heard(a) => Heard(a)'
    <3>1. ASSUME NEW a, Heard(a) PROVE Heard(a)'
      <4>1. PICK k \in 1 .. Len(config.rounds) : config.rounds[k] = a /\ k <= P
        BY <3>1, <1>3 DEF Heard
      <4>2. k <= P + 1
        BY <4>1, <1>3
      <4>3. QED
        BY <4>1, <4>2, <2>2, <1>2 DEF Heard
    <3>2. QED
      BY <3>1
  <2>4. Heard(agent)'
    BY <2>1, <2>2, <1>2, <1>6 DEF Heard
  <2>5. ~ Heard(agent')
    <3>1. SUFFICES ASSUME Heard(agent') PROVE FALSE
      OBVIOUS
    <3>2. PICK k \in 1 .. Len(config.rounds) : config.rounds[k] = agent' /\ k <= P
      BY <3>1, <1>3 DEF Heard
    <3>3. k = P + 1
      BY <3>2, <2>1, <1>4, <1>6 DEF NoRepeats
    <3>4. QED
      BY <3>2, <3>3, <1>3
  <2>6. config.rounds # << >> /\ agent' # config.rounds[1]
    BY <2>1, <2>2, <1>3, <1>4, IndexUnique
  <2>7. QED
    BY <2>2, <2>3, <2>4, <2>5, <2>6, <1>2, <1>6 DEF Successor, Position, Rounds
<1>7. QED
  BY <1>2, <1>5, <1>6

(* What an interviewer may put beyond what was paid.                        *)
Free(a) == IF config.rounds # << >> /\ a # config.rounds[1] THEN 1 ELSE 0

LEMMA MeteredUsed ==
    ASSUME Grounds, Metered, NEW a \in Agents
    PROVE  /\ used.agent[a] \in Nat /\ used'.agent[a] \in Nat
           /\ used'.agent[a] >= used.agent[a]
           /\ a = Current /\ quota.agent[a] > 0 => used'.agent[a] = used.agent[a] + 1
           /\ Free(a)' = Free(a) /\ Free(a) \in Nat
           /\ a # config.rounds[1] => Free(a) = 1
<1>1. /\ config' = config /\ Metering' /\ quota' \in QuotaType /\ used' \in UsedType
      /\ quota'.agent = [quota.agent EXCEPT ![Current] = NonNeg(quota.agent[Current] - 1)]
  BY TurnMetered
<1>2. /\ used.agent[a] = AgentLimit(config, a) - quota.agent[a]
      /\ used'.agent[a] = AgentLimit(config, a) - quota'.agent[a]
  <2>1. used' = Persist(config, quota')
    BY <1>1 DEF Metering
  <2>2. QED
    BY <2>1, UsedIsSpent DEF Grounds, Persist
<1>3. /\ quota.agent \in [Agents -> Nat] /\ quota.agent[a] \in Nat
      /\ AgentLimit(config, a) \in Nat
      /\ used.agent[a] \in Nat /\ used'.agent[a] \in Nat
  BY <1>1, Types DEF Grounds, FieldsOK, QuotaType, UsedType
<1>4. quota'.agent[a] <= quota.agent[a] /\ quota'.agent[a] \in Nat
  BY <1>1, <1>3 DEF NonNeg
<1>5. a = Current /\ quota.agent[a] > 0 => quota'.agent[a] = quota.agent[a] - 1
  BY <1>1, <1>3 DEF NonNeg
<1>6. config.rounds # << >>
  BY DEF Metered, Rounds
<1>7. QED
  BY <1>1, <1>2, <1>3, <1>4, <1>5, <1>6 DEF Free

LEMMA StartSInv ==
    ASSUME SInv, NEW r \in Readers, Starting(r)
    PROVE  SInv'
<1>1. /\ Grounds /\ CallsTyped /\ AskersHeard /\ OverlapWithinTotal /\ OverlapMetered
  BY DEF SInv
<1>2. /\ Metered /\ calls[r] = Idle
      /\ status = "ongoing" /\ quota.global > 0
      /\ Begins(r, agent')
  BY <1>1, StartShape
<1>3. PICK c \in Pending : c.agent = agent' /\ calls' = [calls EXCEPT ![r] = c]
  BY <1>2 DEF Begins
<1>4. /\ turn' = turn + 1 /\ config' = config /\ Rounds # << >>
      /\ quota' \in QuotaType /\ used' \in UsedType
      /\ roundTurns' \in [Agents -> Nat]
      /\ Metering'
      /\ quota'.global = NonNeg(quota.global - 1)
  BY <1>1, <1>2, TurnMetered
<1>5. /\ config \in Configs /\ turn \in Nat /\ quota.global \in Nat /\ config.total \in Nat
      /\ packages \in Seq(Package) /\ Len(packages) \in Nat
      /\ quota.global = NonNeg(config.total - turn)
  BY <1>1, Types DEF Grounds, FieldsOK, Metering
<1>6. /\ agent' \in Agents /\ agent' # NoAgent
      /\ \A a : Heard(a) => Heard(a)'
      /\ Heard(agent)'
      /\ \/ agent' = Current /\ quota.agent[Current] > 0
         \/ ~ Heard(agent') /\ agent' # config.rounds[1]
  BY StartPlace
<1>7. FieldsOK'
  BY <1>1, <1>2, <1>4, <1>5, <1>6 DEF Begins, Grounds, FieldsOK
<1>8. Floor'
  <2>1. turn' <= config.total
    BY <1>2, <1>4, <1>5 DEF NonNeg
  <2>2. \E i \in 1 .. Len(config'.rounds) : config'.rounds[i] = agent'
    BY <1>6 DEF Heard
  <2>3. status' = "ongoing"
    BY <1>2 DEF Begins
  <2>4. QED
    BY <2>1, <2>2, <2>3, <1>4, <1>6 DEF Floor
<1>9. CallsTyped'
  <2>1. r \notin Submitters /\ saving' = saving
    BY <1>2, RequestsAssumption DEF Begins
  <2>2. calls \in [Readers \cup Submitters -> {Idle} \cup Pending \cup Judging]
    BY <1>1 DEF CallsTyped
  <2>3. calls' \in [Readers \cup Submitters -> {Idle} \cup Pending \cup Judging]
    BY <1>3, <2>2
  <2>4. \A s \in Readers \cup Submitters : calls'[s] = IF s = r THEN c ELSE calls[s]
    BY <1>3, <2>2
  <2>5. QED
    BY <1>1, <2>1, <2>3, <2>4 DEF CallsTyped
<1>10. /\ Open' = Open \cup {r}
       /\ Cardinality(Open') = Cardinality(Open) + 1
       /\ \A s \in Open : calls'[s] = calls[s]
       /\ calls'[r].agent = agent'
       /\ \A a : Cardinality(OpenFor(a)')
                   = Cardinality(OpenFor(a)) + IF agent' = a THEN 1 ELSE 0
  <2>1. c.agent = agent' /\ calls' = [calls EXCEPT ![r] = c] /\ calls[r] = Idle /\ CallsTyped
    BY <1>1, <1>2, <1>3
  <2>2. /\ Open' = Open \cup {r}
        /\ Cardinality(Open') = Cardinality(Open) + 1
        /\ \A s \in Open : calls'[s] = calls[s]
        /\ calls'[r] = c
        /\ \A a : Cardinality(OpenFor(a)')
                    = Cardinality(OpenFor(a)) + IF c.agent = a THEN 1 ELSE 0
    BY <2>1, OpenAdds
  <2>3. QED
    BY <2>1, <2>2
<1>11. packages' = packages
  BY <1>2 DEF Begins
<1>12. AskersHeard'
  <2>1. ASSUME NEW i \in 1 .. Len(packages) PROVE Heard(packages[i].from)'
    <3>1. Heard(packages[i].from)
      BY <1>1 DEF AskersHeard
    <3>2. QED
      BY <3>1, <1>6, <1>11 DEF Heard
  <2>2. ASSUME NEW s \in Open' PROVE Heard(calls[s].agent)'
    <3>1. CASE s = r
      BY <3>1, <1>6, <1>10 DEF Heard
    <3>2. CASE s # r
      <4>1. Heard(calls[s].agent) /\ calls'[s] = calls[s]
        BY <3>2, <1>1, <1>10 DEF AskersHeard
      <4>2. QED
        BY <4>1, <1>6 DEF Heard
    <3>3. QED
      BY <3>1, <3>2
  <2>3. QED
    BY <2>1, <2>2, <1>11 DEF AskersHeard
<1>13. OverlapWithinTotal'
  <2>1. Cardinality(Open) \in Nat
    BY OpenFinite
  <2>2. quota'.global = quota.global - 1
    BY <1>2, <1>4, <1>5 DEF NonNeg
  <2>3. Len(packages) + Cardinality(Open) + quota.global <= config.total
    BY <1>1 DEF OverlapWithinTotal
  <2>4. QED
    BY <2>1, <2>2, <2>3, <1>4, <1>5, <1>10, <1>11 DEF OverlapWithinTotal
<1>14. ASSUME NEW a \in Agents
       PROVE  AskedBy(packages', a) + Cardinality(OpenFor(a)') <= used'.agent[a] + Free(a)'
  <2>1. AskedBy(packages, a) + Cardinality(OpenFor(a)) <= used.agent[a] + Free(a)
    BY <1>1 DEF OverlapMetered, QuestionsOf, Free, Rounds
  <2>2. AskedBy(packages, a) \in Nat /\ Cardinality(OpenFor(a)) \in Nat
    BY <1>5, AskedByNat, OpenFinite
  <2>3. /\ used.agent[a] \in Nat /\ used'.agent[a] \in Nat
        /\ used'.agent[a] >= used.agent[a]
        /\ a = Current /\ quota.agent[a] > 0 => used'.agent[a] = used.agent[a] + 1
        /\ Free(a)' = Free(a) /\ Free(a) \in Nat
        /\ a # config.rounds[1] => Free(a) = 1
    BY <1>1, <1>2, MeteredUsed
  <2>4. /\ AskedBy(packages', a) = AskedBy(packages, a)
        /\ Cardinality(OpenFor(a)')
             = Cardinality(OpenFor(a)) + IF agent' = a THEN 1 ELSE 0
    BY <1>10, <1>11
  <2>5. CASE agent' # a
    BY <2>1, <2>2, <2>3, <2>4, <2>5
  <2>6. CASE agent' = a /\ agent' = Current /\ quota.agent[Current] > 0
    BY <2>1, <2>2, <2>3, <2>4, <2>6
  <2>7. CASE agent' = a /\ ~ Heard(agent') /\ agent' # config.rounds[1]
    <3>1. AskedBy(packages, a) = 0
      <4>1. {i \in 1 .. Len(packages) : packages[i].from = a} = {}
        BY <1>1, <2>7 DEF AskersHeard
      <4>2. QED
        BY <4>1, FS_EmptySet DEF AskedBy
    <3>2. Cardinality(OpenFor(a)) = 0
      <4>1. OpenFor(a) = {}
        BY <1>1, <2>7 DEF AskersHeard, OpenFor
      <4>2. QED
        BY <4>1, FS_EmptySet
    <3>3. QED
      BY <3>1, <3>2, <2>3, <2>4, <2>7
  <2>8. QED
    BY <2>5, <2>6, <2>7, <1>6
<1>15. OverlapMetered'
  BY <1>14 DEF OverlapMetered, QuestionsOf, Free, Rounds
<1>16. QED
  BY <1>4, <1>7, <1>8, <1>9, <1>12, <1>13, <1>15 DEF SInv, Grounds

----------------------------------------------------------------------------
(* Metering and the end of an interview leave what is in hand alone.        *)
LEMMA ReportSInv ==
    ASSUME SInv, NEW r \in Readers, StreamReport(r)
    PROVE  SInv'
<1>1. Grounds /\ CallsTyped /\ AskersHeard /\ OverlapWithinTotal /\ OverlapMetered
  BY DEF SInv
<1>2. Finishing /\ calls' = calls
  BY DEF StreamReport, Finishing
<1>3. /\ status' = "finished" /\ reply' \in Replies
      /\ UNCHANGED <<config, packages, task>>
      /\ stages' \in [Tech -> Progress]
      /\ \/ Rounds = << >> /\ UNCHANGED <<agent, turn, quota, used, roundTurns>>
         \/ /\ Metered /\ agent' = Current
            /\ \/ quota'.global = 0
               \/ Position(Current) = Len(Rounds) /\ quota'.agent[Current] = 0
  BY <1>1, <1>2, FinishConcludes
<1>4. CallsTyped' /\ Open' = Open /\ \A a : OpenFor(a)' = OpenFor(a)
  <2>1. saving' \subseteq Readers
    BY <1>1 DEF StreamReport, ThenSaves, CallsTyped
  <2>2. QED
    BY <1>1, <1>2, <2>1 DEF CallsTyped, Open, OpenFor
<1>5. CASE Rounds = << >> /\ UNCHANGED <<agent, turn, quota, used, roundTurns>>
  <2>1. FieldsOK' /\ Metering' /\ Floor'
    BY <1>1, <1>3, <1>5 DEF Grounds, FieldsOK, Metering, Floor, Over, Rounds, Position
  <2>2. AskersHeard'
    BY <1>1, <1>2, <1>3, <1>4, <1>5 DEF AskersHeard, Heard
  <2>3. OverlapWithinTotal' /\ OverlapMetered'
    BY <1>1, <1>3, <1>4, <1>5 DEF OverlapWithinTotal, OverlapMetered, QuestionsOf, Rounds
  <2>4. QED
    BY <1>4, <2>1, <2>2, <2>3 DEF SInv, Grounds
<1>6. CASE /\ Metered /\ agent' = Current
           /\ \/ quota'.global = 0
              \/ Position(Current) = Len(Rounds) /\ quota'.agent[Current] = 0
  <2>1. /\ turn' = turn + 1 /\ Rounds # << >>
        /\ quota' \in QuotaType /\ used' \in UsedType
        /\ roundTurns' \in [Agents -> Nat]
        /\ Metering'
        /\ quota'.global = NonNeg(quota.global - 1)
    BY <1>1, <1>6, TurnMetered
  <2>2. /\ Current \in Agents /\ Current # NoAgent
        /\ Position(Current) \in 1 .. Len(Rounds)
        /\ Rounds[Position(Current)] = Current
        /\ agent # NoAgent => Current = agent
    BY <1>1, <2>1, CurrentPlaced, DistinctAssumption
  <2>3. FieldsOK'
    BY <1>1, <1>3, <1>6, <2>1, <2>2 DEF Grounds, FieldsOK
  <2>4. Floor'
    BY <1>3, <1>6, <2>2 DEF Floor, Over, Position, Rounds
  <2>5. \A a : Heard(a) => Heard(a)'
    BY <1>3, <1>6, <2>2 DEF Heard
  <2>6. AskersHeard'
    BY <1>1, <1>2, <1>3, <1>4, <2>5 DEF AskersHeard, Heard
  <2>7. OverlapWithinTotal'
    <3>1. quota.global \in Nat /\ Cardinality(Open) \in Nat /\ Len(packages) \in Nat
          /\ config.total \in Nat
      BY <1>1, OpenFinite, Types DEF Grounds, FieldsOK
    <3>2. Len(packages) + Cardinality(Open) + quota.global <= config.total
      BY <1>1 DEF OverlapWithinTotal
    <3>3. quota'.global <= quota.global /\ quota'.global \in Nat
      BY <2>1, <3>1 DEF NonNeg
    <3>4. QED
      BY <3>1, <3>2, <3>3, <1>3, <1>4 DEF OverlapWithinTotal
  <2>8. ASSUME NEW a \in Agents
        PROVE  AskedBy(packages', a) + Cardinality(OpenFor(a)') <= used'.agent[a] + Free(a)'
    <3>1. AskedBy(packages, a) + Cardinality(OpenFor(a)) <= used.agent[a] + Free(a)
      BY <1>1 DEF OverlapMetered, QuestionsOf, Free, Rounds
    <3>2. AskedBy(packages, a) \in Nat /\ Cardinality(OpenFor(a)) \in Nat
      BY <1>1, AskedByNat, OpenFinite DEF Grounds, FieldsOK
    <3>3. /\ used.agent[a] \in Nat /\ used'.agent[a] \in Nat
          /\ used'.agent[a] >= used.agent[a]
          /\ Free(a)' = Free(a) /\ Free(a) \in Nat
      BY <1>1, <1>6, MeteredUsed
    <3>4. /\ AskedBy(packages', a) = AskedBy(packages, a)
          /\ Cardinality(OpenFor(a)') = Cardinality(OpenFor(a))
      BY <1>3, <1>4
    <3>5. QED
      BY <3>1, <3>2, <3>3, <3>4
  <2>9. OverlapMetered'
    BY <2>8 DEF OverlapMetered, QuestionsOf, Free, Rounds
  <2>10. QED
    BY <1>4, <2>1, <2>3, <2>4, <2>6, <2>7, <2>9 DEF SInv, Grounds
<1>7. QED
  BY <1>3, <1>5, <1>6

----------------------------------------------------------------------------
(* The answer to a stream: recorded for the one who asked, or lost.         *)
Recorded(r) == [from |-> calls[r].agent, to |-> Peek(quota, calls[r].agent), round |-> turn]

LEMMA AnswerShape ==
    ASSUME SInv, NEW r \in Readers, Answer(r)
    PROVE  /\ r \in Open /\ Hung(r)
           /\ UNCHANGED <<config, turn, status, agent, used, roundTurns, quota, saved>>
           /\ packages' = packages \/ packages' = Append(packages, Recorded(r))
           /\ Recorded(r) \in Package
           /\ FieldsOK'
<1>1. Grounds /\ CallsTyped /\ AskersHeard /\ FieldsOK
  BY DEF SInv, Grounds
<1>2. /\ r \in Open /\ Hung(r)
      /\ UNCHANGED <<config, turn, status, agent, used, roundTurns, quota, saved>>
      /\ packages' = packages \/ packages' = Append(packages, Recorded(r))
  BY DEF Answer, Record, Lose, Asker, Recorded
<1>3. /\ calls[r] \in Pending /\ calls[r].agent \in Agents
      /\ calls[r].stage \in Stages \cup {NoStage}
  BY <1>1, <1>2 DEF Open, CallsTyped, Pending
<1>4. Recorded(r) \in Package
  <2> DEFINE a == calls[r].agent
  <2>1. PICK k \in 1 .. Len(config.rounds) : config.rounds[k] = a
    BY <1>1, <1>2 DEF AskersHeard, Heard
  <2>2. /\ config.rounds \in Seq(Agents) /\ Len(config.rounds) \in Nat
        /\ NoRepeats(config.rounds) /\ turn \in Nat
    BY <1>1, Types DEF FieldsOK
  <2>3. Position(a) = k
    BY <2>1, <2>2, IndexUnique DEF Position, Rounds
  <2>4. Peek(quota, a) \in Agents \cup {Scribe}
    BY <1>3, <2>2, <2>3 DEF Peek, Rounds
  <2> HIDE DEF a
  <2>5. QED
    BY <1>3, <2>2, <2>4 DEF Recorded, Package, a
<1>5. reply' \in Replies /\ task' \in Tech \cup {NoTask}
  BY <1>1 DEF Answer, Record, Lose, FieldsOK, Replies
<1>6. stages' \in [Tech -> Progress]
  <2>1. ASSUME NEW p \in Progress, NEW a, NEW s PROVE Counted(a, s, p) \in Progress
    <3>1. [p EXCEPT !.turns = @ + 1] \in Progress
      BY DEF Progress
    <3>2. QED
      BY <3>1, AdvancedType DEF Counted
  <2>2. stages \in [Tech -> Progress]
    BY <1>1 DEF FieldsOK
  <2>3. CASE Record(r)
    <3> DEFINE a == calls[r].agent
               p == Counted(a, calls[r].stage, stages[a])
    <3>1. a \in Tech => stages' = [stages EXCEPT ![a] = p] /\ p \in Progress
      BY <2>1, <2>2, <2>3 DEF Record
    <3>2. a \notin Tech => stages' = stages
      BY <2>3 DEF Record
    <3> HIDE DEF a, p
    <3>3. QED
      BY <3>1, <3>2, <2>2
  <2>4. CASE Lose(r)
    BY <2>2, <2>4 DEF Lose
  <2>5. QED
    BY <2>3, <2>4 DEF Answer
<1>7. packages' \in Seq(Package)
  BY <1>1, <1>2, <1>4 DEF FieldsOK
<1>8. FieldsOK'
  BY <1>1, <1>2, <1>5, <1>6, <1>7 DEF FieldsOK
<1>9. QED
  BY <1>2, <1>4, <1>8

LEMMA AnswerSInv ==
    ASSUME SInv, NEW r \in Readers, Answer(r)
    PROVE  SInv'
<1> DEFINE b == calls[r].agent
<1>1. /\ Grounds /\ CallsTyped /\ AskersHeard /\ OverlapWithinTotal /\ OverlapMetered
      /\ packages \in Seq(Package) /\ Len(packages) \in Nat
  BY DEF SInv, Grounds, FieldsOK
<1>2. /\ r \in Open /\ Hung(r)
      /\ UNCHANGED <<config, turn, status, agent, used, roundTurns, quota>>
      /\ packages' = packages \/ packages' = Append(packages, Recorded(r))
      /\ Recorded(r) \in Package /\ Recorded(r).from = b
      /\ FieldsOK'
  BY AnswerShape DEF Recorded
<1>3. /\ Open' = Open \ {r}
      /\ Cardinality(Open') = Cardinality(Open) - 1
      /\ \A s \in Open' : calls'[s] = calls[s]
      /\ \A a : Cardinality(OpenFor(a)')
                  = Cardinality(OpenFor(a)) - IF b = a THEN 1 ELSE 0
  BY <1>1, <1>2, OpenDrops
<1>4. Heard(b) /\ agent # NoAgent
  BY <1>1, <1>2 DEF AskersHeard, Heard
<1> HIDE DEF b
<1>5. Metering' /\ Floor'
  BY <1>1, <1>2, <1>4 DEF Grounds, Metering, Floor, Over, Rounds, Position
<1>6. CallsTyped'
  <2>1. r \in Readers
    OBVIOUS
  <2>2. \A s \in Readers \cup Submitters : calls'[s] = IF s = r THEN Idle ELSE calls[s]
    BY <1>1, <1>2 DEF CallsTyped, Hung
  <2>3. calls' \in [Readers \cup Submitters -> {Idle} \cup Pending \cup Judging]
    BY <1>1, <1>2 DEF CallsTyped, Hung
  <2>4. saving' \subseteq Readers
    BY <1>1 DEF Answer, Record, Lose, ThenSaves, CallsTyped
  <2>5. QED
    BY <1>1, <2>2, <2>3, <2>4 DEF CallsTyped
<1>7. AskersHeard'
  <2>1. ASSUME NEW i \in 1 .. Len(packages') PROVE Heard(packages[i].from)'
    <3>1. \/ i \in 1 .. Len(packages) /\ packages'[i] = packages[i]
          \/ packages'[i].from = b
      BY <1>1, <1>2
    <3>2. Heard(packages'[i].from)
      BY <3>1, <1>1, <1>4 DEF AskersHeard
    <3>3. QED
      BY <3>2, <1>2 DEF Heard
  <2>2. ASSUME NEW s \in Open' PROVE Heard(calls[s].agent)'
    <3>1. Heard(calls[s].agent) /\ calls'[s] = calls[s]
      BY <1>1, <1>3 DEF AskersHeard
    <3>2. QED
      BY <3>1, <1>2 DEF Heard
  <2>3. QED
    BY <2>1, <2>2 DEF AskersHeard
<1>8. OverlapWithinTotal'
  <2>1. /\ quota.global \in Nat /\ Cardinality(Open) \in Nat /\ config.total \in Nat
    BY <1>1, OpenFinite, Types DEF Grounds, FieldsOK
  <2>2. Len(packages) + Cardinality(Open) + quota.global <= config.total
    BY <1>1 DEF OverlapWithinTotal
  <2>3. Len(packages') <= Len(packages) + 1 /\ Len(packages') \in Nat
    BY <1>1, <1>2
  <2>4. QED
    BY <2>1, <2>2, <2>3, <1>1, <1>2, <1>3 DEF OverlapWithinTotal
<1>9. ASSUME NEW a \in Agents
      PROVE  AskedBy(packages', a) + Cardinality(OpenFor(a)') <= used'.agent[a] + Free(a)'
  <2>1. AskedBy(packages, a) + Cardinality(OpenFor(a)) <= used.agent[a] + Free(a)
    BY <1>1 DEF OverlapMetered, QuestionsOf, Free, Rounds
  <2>2. AskedBy(packages, a) \in Nat /\ Cardinality(OpenFor(a)) \in Nat
    BY <1>1, AskedByNat, OpenFinite
  <2>3. used'.agent[a] = used.agent[a] /\ used.agent[a] \in Nat
    BY <1>1, <1>2 DEF Grounds, FieldsOK, UsedType
  <2>4. Free(a)' = Free(a) /\ Free(a) \in Nat
    BY <1>2 DEF Free
  <2>5. AskedBy(packages', a) <= AskedBy(packages, a) + (IF b = a THEN 1 ELSE 0)
        /\ AskedBy(packages', a) \in Nat
    <3>1. CASE packages' = packages
      BY <3>1, <2>2
    <3>2. CASE packages' = Append(packages, Recorded(r))
      BY <3>2, <2>2, <1>1, <1>2, AskedByAppend
    <3>3. QED
      BY <3>1, <3>2, <1>2
  <2>6. Cardinality(OpenFor(a)') = Cardinality(OpenFor(a)) - IF b = a THEN 1 ELSE 0
    BY <1>3
  <2>7. QED
    BY <2>1, <2>2, <2>3, <2>4, <2>5, <2>6
<1>10. OverlapMetered'
  BY <1>9 DEF OverlapMetered, QuestionsOf, Free, Rounds
<1>11. QED
  BY <1>2, <1>5, <1>6, <1>7, <1>8, <1>10 DEF SInv, Grounds

----------------------------------------------------------------------------
(* Submissions and saves neither ask nor meter.                             *)
Quiet ==
    \/ \E s \in Submitters : Submission(s)
    \/ \E r \in Readers : Save(r)
    \/ UNCHANGED streamVars

LEMMA QuietShape ==
    ASSUME SInv, Quiet
    PROVE  /\ UNCHANGED <<config, turn, status, agent, task, packages,
                         used, roundTurns, quota>>
           /\ stages' \in [Tech -> Progress] /\ reply' \in Replies
           /\ saved' = saved \/ saved' = Snapshot
           /\ CallsTyped'
           /\ Open' = Open /\ \A r \in Open' : calls'[r] = calls[r]
<1>1. FieldsOK /\ CallsTyped /\ Metering /\ stages \in [Tech -> Progress] /\ reply \in Replies
  BY DEF SInv, Grounds, FieldsOK
<1>2. CASE UNCHANGED streamVars
  BY <1>1, <1>2 DEF streamVars, vars, CallsTyped, Open
<1>3. CASE \E r \in Readers : Save(r)
  BY <1>1, <1>3 DEF Save, CallsTyped, Open
<1>4. ASSUME NEW s \in Submitters, Submission(s)
      PROVE  /\ UNCHANGED <<config, turn, status, agent, task, packages,
                           used, roundTurns, quota>>
             /\ stages' \in [Tech -> Progress] /\ reply' \in Replies
             /\ UNCHANGED <<saved, saving>>
             /\ \E c \in {Idle} \cup Judging : calls' = [calls EXCEPT ![s] = c]
  <2>1. CASE Submit(s)
    <3>1. [pc |-> "running"] \in Judging
      BY DEF Judging
    <3>2. QED
      BY <2>1, <3>1, <1>1 DEF Submit, vars
  <2>2. CASE Judge(s)
    <3>1. agent \in Tech /\ Advanced(stages[agent]) \in Progress
      BY <2>2, <1>1, AdvancedType DEF Judge
    <3>2. [pc |-> "reflecting", agent |-> agent] \in Judging
      BY <3>1 DEF Judging
    <3>3. QED
      BY <2>2, <3>1, <3>2, <1>1 DEF Judge, Hung, Replies
  <2>3. CASE Reflect(s)
    <3> DEFINE b == calls[s].agent
    <3>1. /\ UNCHANGED <<config, turn, status, agent, task, packages,
                        used, roundTurns, quota>>
          /\ reply' = "followup" /\ Hung(s)
          /\ UNCHANGED <<saved, saving>>
          /\ stages' = [stages EXCEPT ![b].turns = @ + 1]
      BY <2>3 DEF Reflect
    <3> HIDE DEF b
    <3>2. stages' \in [Tech -> Progress]
      <4> DEFINE p == [stages[b] EXCEPT !.turns = @ + 1]
      <4>1. stages' = [stages EXCEPT ![b] = p]
        BY <3>1
      <4>2. b \in Tech => p \in Progress
        <5>1. b \in Tech => stages[b] \in Progress
          BY <1>1
        <5>2. QED
          BY <5>1 DEF Progress
      <4> HIDE DEF p
      <4>3. QED
        BY <4>1, <4>2, <1>1
    <3>3. QED
      BY <3>1, <3>2 DEF Hung, Replies
  <2>4. CASE Refuse(s)
    BY <2>4, <1>1 DEF Refuse, Hung, vars
  <2>5. QED
    BY <1>4, <2>1, <2>2, <2>3, <2>4 DEF Submission
<1>5. CASE \E s \in Submitters : Submission(s)
  <2>1. PICK s \in Submitters, c \in {Idle} \cup Judging :
              saving' = saving /\ calls' = [calls EXCEPT ![s] = c]
    BY <1>4, <1>5
  <2>2. s \notin Readers
    BY RequestsAssumption
  <2>3. calls \in [Readers \cup Submitters -> {Idle} \cup Pending \cup Judging]
    BY <1>1 DEF CallsTyped
  <2>4. /\ calls' \in [Readers \cup Submitters -> {Idle} \cup Pending \cup Judging]
        /\ \A t \in Readers \cup Submitters : calls'[t] = IF t = s THEN c ELSE calls[t]
    BY <2>1, <2>3
  <2>5. CallsTyped' /\ Open' = Open /\ \A r \in Open : calls'[r] = calls[r]
    BY <1>1, <2>1, <2>2, <2>4 DEF CallsTyped, Open
  <2>6. QED
    BY <1>4, <1>5, <2>5
<1>6. QED
  BY <1>2, <1>3, <1>5 DEF Quiet

LEMMA QuietSInv ==
    ASSUME SInv, Quiet
    PROVE  SInv'
<1>1. Grounds /\ CallsTyped /\ AskersHeard /\ OverlapWithinTotal /\ OverlapMetered
  BY DEF SInv
<1>2. /\ UNCHANGED <<config, turn, status, agent, task, packages,
                    used, roundTurns, quota>>
      /\ stages' \in [Tech -> Progress] /\ reply' \in Replies
      /\ CallsTyped'
      /\ Open' = Open /\ \A r \in Open' : calls'[r] = calls[r]
  BY QuietShape
<1>3. Grounds'
  BY <1>1, <1>2 DEF Grounds, FieldsOK, Metering, Floor, Over, Rounds, Position
<1>4. AskersHeard'
  BY <1>1, <1>2 DEF AskersHeard, Heard
<1>5. Cardinality(Open') <= Cardinality(Open) /\ Cardinality(Open') \in Nat
  BY <1>2, OpenFinite, FS_Subset, FS_CardinalityType
<1>6. OverlapWithinTotal'
  <2>1. /\ quota.global \in Nat /\ Cardinality(Open) \in Nat /\ config.total \in Nat
        /\ Len(packages) \in Nat
    BY <1>1, OpenFinite, Types DEF Grounds, FieldsOK
  <2>2. QED
    BY <2>1, <1>1, <1>2, <1>5 DEF OverlapWithinTotal
<1>7. ASSUME NEW a \in Agents
      PROVE  AskedBy(packages', a) + Cardinality(OpenFor(a)') <= used'.agent[a] + Free(a)'
  <2>1. AskedBy(packages, a) + Cardinality(OpenFor(a)) <= used.agent[a] + Free(a)
    BY <1>1 DEF OverlapMetered, QuestionsOf, Free, Rounds
  <2>2. AskedBy(packages, a) \in Nat /\ Cardinality(OpenFor(a)) \in Nat
    BY <1>1, AskedByNat, OpenFinite DEF Grounds, FieldsOK
  <2>3. OpenFor(a)' \subseteq OpenFor(a)
    BY <1>2 DEF OpenFor
  <2>4. Cardinality(OpenFor(a)') <= Cardinality(OpenFor(a)) /\ Cardinality(OpenFor(a)') \in Nat
    BY <2>3, OpenFinite, FS_Subset, FS_CardinalityType
  <2>5. used.agent[a] \in Nat /\ Free(a) \in Nat /\ used' = used /\ Free(a)' = Free(a)
    BY <1>1, <1>2 DEF Grounds, FieldsOK, UsedType, Free
  <2>6. AskedBy(packages', a) = AskedBy(packages, a)
    BY <1>2
  <2>7. QED
    BY <2>1, <2>2, <2>4, <2>5, <2>6
<1>8. OverlapMetered'
  BY <1>7 DEF OverlapMetered, QuestionsOf, Free, Rounds
<1>9. QED
  BY <1>2, <1>3, <1>4, <1>6, <1>8 DEF SInv

----------------------------------------------------------------------------
LEMMA StreamsInitSInv == StreamsInit => SInv
<1> SUFFICES ASSUME StreamsInit PROVE SInv
  OBVIOUS
<1>1. IInv /\ Init /\ calls = [r \in Readers \cup Submitters |-> Idle] /\ saving = {}
  BY InitIInv DEF StreamsInit
<1>2. CallsTyped /\ Open = {} /\ \A a : OpenFor(a) = {}
  BY <1>1 DEF CallsTyped, Open, OpenFor
<1>3. packages = << >> /\ quota.global = config.total
  BY <1>1 DEF Init, FullQuota
<1>4. Cardinality(Open) = 0 /\ \A a : Cardinality(OpenFor(a)) = 0
  BY <1>2, FS_EmptySet
<1>5. AskersHeard
  BY <1>2, <1>3 DEF AskersHeard
<1>6. OverlapWithinTotal
  <2>1. config.total \in Nat /\ Len(packages) = 0
    BY <1>1, <1>3, Types DEF IInv
  <2>2. QED
    BY <2>1, <1>3, <1>4 DEF OverlapWithinTotal
<1>7. OverlapMetered
  <2>1. ASSUME NEW a \in Agents
        PROVE  AskedBy(packages, a) + Cardinality(OpenFor(a)) = AskedBy(packages, a)
    <3>1. AskedBy(packages, a) \in Nat
      BY <1>1, AskedByNat DEF IInv, FieldsOK
    <3>2. QED
      BY <3>1, <1>4
  <2>2. QED
    BY <2>1, <1>1 DEF OverlapMetered, IInv, QuestionsMetered, QuestionsOf
<1>8. QED
  BY <1>1, <1>2, <1>5, <1>6, <1>7 DEF SInv, IInv, Grounds

Moving(r) == Starting(r) \/ StreamReport(r) \/ Answer(r)

LEMMA StreamsSplit ==
    ASSUME [StreamsNext]_streamVars
    PROVE  (\E r \in Readers : Moving(r)) \/ Quiet \/ Crash
BY DEF StreamsNext, Stream, Starting, Moving, Quiet

(* Short of a crash the turns and the status go forward only, and what is   *)
(* stored is what it was or what is held.                                   *)
LEMMA StreamForward ==
    ASSUME SInv, (\E r \in Readers : Moving(r)) \/ Quiet
    PROVE  /\ SInv' /\ config' = config
           /\ turn' \in Nat /\ turn <= turn'
           /\ status = "finished" => status' = "finished"
           /\ \/ saved' = saved
              \/ saved' = Snapshot /\ turn' = turn /\ status' = status
<1>1. Grounds /\ turn \in Nat
  BY DEF SInv, Grounds, FieldsOK
<1>2. ASSUME NEW r \in Readers, Starting(r)
      PROVE  /\ SInv' /\ config' = config /\ turn' = turn + 1
             /\ status = "ongoing" /\ saved' = saved
  BY <1>1, <1>2, StartSInv, StartShape DEF Metered, Begins
<1>3. ASSUME NEW r \in Readers, StreamReport(r)
      PROVE  /\ SInv' /\ config' = config /\ turn' \in {turn, turn + 1}
             /\ status' = "finished" /\ saved' = saved
  <2>1. Finishing /\ saved' = saved
    BY <1>3 DEF StreamReport, Finishing
  <2>2. QED
    BY <1>1, <1>3, <2>1, ReportSInv, FinishConcludes DEF Metered
<1>4. ASSUME NEW r \in Readers, Answer(r)
      PROVE  SInv' /\ UNCHANGED <<config, turn, status, saved>>
  BY <1>4, AnswerSInv, AnswerShape
<1>5. CASE Quiet
  BY <1>1, <1>5, QuietSInv, QuietShape
<1>6. CASE \E r \in Readers : Moving(r)
  <2>1. PICK r \in Readers : Moving(r)
    BY <1>6
  <2>2. SInv' /\ config' = config /\ saved' = saved /\ turn' \in {turn, turn + 1}
    BY <2>1, <1>2, <1>3, <1>4 DEF Moving
  <2>3. status = "finished" => status' = "finished"
    BY <2>1, <1>2, <1>3, <1>4 DEF Moving
  <2>4. QED
    BY <1>1, <2>2, <2>3
<1>7. QED
  BY <1>5, <1>6

(* What is held may be stored, whatever streams are in hand.                *)
LEMMA HeldIsKept == SInv => KeptAt(config, Snapshot)
<1> SUFFICES ASSUME SInv PROVE KeptAt(config, Snapshot)
  OBVIOUS
<1>1. Grounds /\ Metering /\ AskersHeard /\ OverlapWithinTotal /\ OverlapMetered
  BY DEF SInv, Grounds
<1>2. GroundsAt(config, Snapshot)
  BY <1>1, GroundsStored
<1>3. AskersAt(config, Snapshot)
  BY <1>1 DEF AskersAt, AskersHeard, Heard, Snapshot
<1>4. Len(packages) + NonNeg(config.total - turn) <= config.total
  <2>1. /\ Len(packages) \in Nat /\ Cardinality(Open) \in Nat /\ quota.global \in Nat
        /\ config.total \in Nat
    BY <1>1, OpenFinite, Types DEF Grounds, FieldsOK
  <2>2. QED
    BY <1>1, <2>1 DEF OverlapWithinTotal, Metering
<1>5. PaidAt(config, Snapshot)
  <2>1. ASSUME NEW a \in Agents PROVE AskedBy(packages, a) <= used.agent[a] + Free(a)
    <3>1. AskedBy(packages, a) + Cardinality(OpenFor(a)) <= used.agent[a] + Free(a)
      BY <1>1 DEF OverlapMetered, QuestionsOf, Free, Rounds
    <3>2. AskedBy(packages, a) \in Nat /\ Cardinality(OpenFor(a)) \in Nat
      BY <1>1, AskedByNat, OpenFinite DEF Grounds, FieldsOK
    <3>3. used.agent[a] \in Nat /\ Free(a) \in Nat
      BY <1>1 DEF Grounds, FieldsOK, UsedType, Free
    <3>4. QED
      BY <3>1, <3>2, <3>3
  <2>2. QED
    BY <2>1 DEF PaidAt, Free, Snapshot
<1>6. QED
  BY <1>2, <1>3, <1>4, <1>5 DEF KeptAt, Snapshot

(* A crash goes back to what was stored, and no stream is in hand.          *)
LEMMA CrashSInv ==
    ASSUME FieldsOK, KeptAt(config, saved), Crash
    PROVE  /\ SInv'
           /\ Open' = {} /\ Cardinality(Open') = 0
           /\ \A a : Cardinality(OpenFor(a)') = 0
<1>1. Recover /\ calls' = [r \in Readers \cup Submitters |-> Idle] /\ saving' = {}
  BY DEF Crash
<1>2. Grounds'
  BY <1>1, RecoverGrounds DEF KeptAt
<1>3. CallsTyped' /\ Open' = {} /\ \A a : OpenFor(a)' = {}
  BY <1>1 DEF CallsTyped, Open, OpenFor
<1>4. Cardinality(Open') = 0 /\ \A a : Cardinality(OpenFor(a)') = 0
  BY <1>3, FS_EmptySet
<1>5. /\ config' = config /\ agent' = saved.agent /\ packages' = saved.packages
      /\ used' = saved.used /\ quota'.global = NonNeg(config.total - saved.turn)
      /\ saved.packages \in Seq(Package)
  BY <1>1, Reloads DEF KeptAt, GroundsAt, MeteringAt, Snapshots
<1>6. AskersHeard'
  <2>1. packages' # << >> => agent' # NoAgent
    BY <1>5 DEF KeptAt, GroundsAt, FloorAt
  <2>2. ASSUME NEW i \in 1 .. Len(packages') PROVE Heard(packages[i].from)'
    <3>1. agent' # NoAgent
      BY <1>5, <2>1
    <3>2. QED
      BY <1>5, <3>1 DEF KeptAt, AskersAt, Heard
  <2>3. QED
    BY <1>3, <2>2 DEF AskersHeard
<1>7. OverlapWithinTotal'
  <2>1. Len(packages') \in Nat /\ quota'.global \in Nat /\ config.total \in Nat
    BY <1>2, <1>5, Types DEF Grounds, FieldsOK, QuotaType
  <2>2. QED
    BY <1>4, <1>5, <2>1 DEF KeptAt, OverlapWithinTotal
<1>8. ASSUME NEW a \in Agents
      PROVE  AskedBy(packages', a) + Cardinality(OpenFor(a)') <= used'.agent[a] + Free(a)'
  <2>1. AskedBy(saved.packages, a) <= saved.used.agent[a] + Free(a)
    BY DEF KeptAt, PaidAt, Free
  <2>2. AskedBy(saved.packages, a) \in Nat
    BY <1>5, AskedByNat
  <2>3. Free(a)' = Free(a)
    BY <1>5 DEF Free
  <2>4. QED
    BY <2>1, <2>2, <2>3, <1>4, <1>5
<1>9. OverlapMetered'
  BY <1>8 DEF OverlapMetered, QuestionsOf, Free, Rounds
<1>10. QED
  BY <1>2, <1>3, <1>4, <1>6, <1>7, <1>9 DEF SInv

LEMMA StepCInv == CInv /\ [StreamsNext]_streamVars => CInv'
<1> SUFFICES ASSUME CInv, [StreamsNext]_streamVars PROVE CInv'
  OBVIOUS
<1>1. SInv /\ KeptAt(config, saved) /\ Behind
  BY DEF CInv
<1>2. CASE (\E r \in Readers : Moving(r)) \/ Quiet
  <2>1. /\ SInv' /\ config' = config /\ turn <= turn'
        /\ status = "finished" => status' = "finished"
        /\ \/ saved' = saved
           \/ saved' = Snapshot /\ turn' = turn /\ status' = status
    BY <1>1, <1>2, StreamForward
  <2>2. KeptAt(config', saved')
    BY <1>1, <2>1, HeldIsKept
  <2>3. turn \in Nat /\ turn' \in Nat /\ saved.turn \in Nat
    BY <1>1, <2>1 DEF SInv, Grounds, FieldsOK, KeptAt, GroundsAt, Snapshots
  <2>4. Behind'
    BY <1>1, <2>1, <2>3 DEF Behind, Snapshot
  <2>5. QED
    BY <2>1, <2>2, <2>4 DEF CInv
<1>3. CASE Crash
  <2>1. SInv'
    BY <1>1, <1>3, CrashSInv DEF SInv, Grounds
  <2>2. KeptAt(config', saved')
    BY <1>1, <1>3, Reloads DEF Crash
  <2>3. Behind'
    BY <1>1, <1>3, Reloads DEF Crash, KeptAt, GroundsAt, Snapshots, Behind
  <2>4. QED
    BY <2>1, <2>2, <2>3 DEF CInv
<1>4. QED
  BY <1>2, <1>3, StreamsSplit

LEMMA SpecCInv == StreamsSpec => []CInv
<1>1. StreamsInit => CInv
  <2> SUFFICES ASSUME StreamsInit PROVE CInv
    OBVIOUS
  <2>1. SInv /\ saved = Snapshot
    BY StreamsInitSInv DEF StreamsInit, Init
  <2>2. turn \in Nat
    BY <2>1 DEF SInv, Grounds, FieldsOK
  <2>3. QED
    BY <2>1, <2>2, HeldIsKept DEF CInv, Behind, Snapshot
<1>2. QED
  BY <1>1, StepCInv, PTL DEF StreamsSpec

LEMMA SpecSInv == StreamsSpec => []SInv
<1>1. CInv => SInv
  BY DEF CInv
<1>2. QED
  BY <1>1, SpecCInv, PTL

----------------------------------------------------------------------------
(* The theorems.                                                           *)

(* The state and what each request has in hand keep their types.            *)
THEOREM StreamsTypeCorrect == StreamsSpec => []StreamsTypeOK
<1>1. CInv => StreamsTypeOK
  BY DEF CInv, SInv, Grounds, KeptAt, GroundsAt, TypeOK, StreamsTypeOK
<1>2. QED
  BY <1>1, SpecCInv, PTL

(* Any number of overlapping streams together stay within total_max_turns.  *)
THEOREM OverlapStaysWithinTotal == StreamsSpec => []OverlapWithinTotal
BY SpecSInv, PTL DEF SInv

(* Overlapping questions are paid by the interviewer who puts them.         *)
THEOREM OverlapIsPaid == StreamsSpec => []OverlapMetered
BY SpecSInv, PTL DEF SInv

(* Whatever streams are in hand when the process dies, the manager it comes *)
(* back with is the one of the state it comes back with.                    *)
THEOREM CrashIsInvisible == StreamsSpec => []RestartInvisible
<1>1. SInv => RestartInvisible
  BY MeteringRestores DEF SInv, Grounds
<1>2. QED
  BY <1>1, SpecSInv, PTL

(* The end of an interview is final for every stream of it.                 *)
EndStands ==
    status = "finished" =>
        /\ status' = "finished"
        /\ Open' \subseteq Open
        /\ Len(packages') + Cardinality(Open') <= Len(packages) + Cardinality(Open)

LEMMA StreamsEndStands ==
    ASSUME SInv, (\E r \in Readers : Moving(r)) \/ Quiet
    PROVE  EndStands
  <2>1. SUFFICES ASSUME status = "finished"
                 PROVE  /\ status' = "finished"
                        /\ Open' \subseteq Open
                        /\ Len(packages') + Cardinality(Open')
                              <= Len(packages) + Cardinality(Open)
    BY DEF EndStands
  <2>2. /\ Grounds /\ CallsTyped /\ packages \in Seq(Package) /\ Len(packages) \in Nat
        /\ Cardinality(Open) \in Nat /\ IsFiniteSet(Open)
    BY <2>1, OpenFinite DEF SInv, Grounds, FieldsOK
  <2>3. ASSUME NEW r \in Readers PROVE ~ Starting(r)
    BY <2>1, <2>2, StartShape
  <2>4. ASSUME NEW r \in Readers, StreamReport(r)
        PROVE  status' = "finished" /\ Open' = Open /\ packages' = packages
    <3>1. Finishing /\ calls' = calls
      BY <2>4 DEF StreamReport, Finishing
    <3>2. QED
      BY <3>1, <2>2, FinishConcludes DEF Open
  <2>5. ASSUME NEW r \in Readers, Answer(r)
        PROVE  /\ status' = "finished" /\ Open' \subseteq Open
               /\ Cardinality(Open') = Cardinality(Open) - 1
               /\ Len(packages') <= Len(packages) + 1 /\ Len(packages') \in Nat
    BY <2>1, <2>2, <2>5, AnswerShape, OpenDrops
  <2>6. CASE Quiet
    BY <2>1, <2>2, <2>6, QuietShape
  <2>7. CASE \E r \in Readers : Moving(r)
    BY <2>2, <2>3, <2>4, <2>5, <2>7 DEF Moving
  <2>8. QED
    BY <2>6, <2>7

THEOREM NoStreamAfterEnd == StreamsSpec => EndIsFinal
<1>1. CInv /\ [StreamsNext]_streamVars =>
        [ /\ status = "finished" /\ ~Crash =>
                /\ status' = "finished"
                /\ Open' \subseteq Open
                /\ Len(packages') + Cardinality(Open') <= Len(packages) + Cardinality(Open)
          /\ saved.status = "finished" => status' = "finished" ]_streamVars
  <2>1. SUFFICES ASSUME CInv, [StreamsNext]_streamVars
                 PROVE  /\ ~Crash => EndStands
                        /\ saved.status = "finished" => status' = "finished"
    BY DEF EndStands
  <2>2. CASE ~Crash
    <3>1. EndStands
      BY <2>1, <2>2, StreamsSplit, StreamsEndStands DEF CInv
    <3>2. QED
      BY <2>1, <2>2, <3>1 DEF EndStands, CInv, Behind
  <2>3. CASE Crash
    <3>1. saved.status = "ongoing"
      BY <2>3, Reloads DEF Crash
    <3>2. QED
      BY <2>3, <3>1
  <2>4. QED
    BY <2>2, <2>3
<1>2. QED
  BY <1>1, SpecCInv, PTL DEF StreamsSpec, EndIsFinal

(* The floor passes on only when it is spent, however requests overlap.     *)
THEOREM OverlapLeavesWhenSpent == StreamsSpec => LeavesOnlyWhenSpent
<1>1. SInv /\ [StreamsNext]_streamVars =>
        [agent' # NoAgent /\ agent' # Current /\ ~Recover =>
            /\ quota'.agent[Current] = 0
            /\ Position(agent') = Position(Current) + 1]_vars
  <2>1. SUFFICES ASSUME SInv, [StreamsNext]_streamVars,
                        agent' # NoAgent, agent' # Current, ~Recover
                 PROVE  /\ quota'.agent[Current] = 0
                        /\ Position(agent') = Position(Current) + 1
    OBVIOUS
  <2>2. ASSUME NEW r \in Readers, Starting(r)
        PROVE  /\ quota'.agent[Current] = 0
               /\ Position(agent') = Position(Current) + 1
    BY <2>1, <2>2, StartShape, StartPlace DEF SInv
  <2>3. agent' = agent => FALSE
    BY <2>1 DEF Current
  <2>4. ASSUME NEW r \in Readers, StreamReport(r) PROVE FALSE
    <3>1. Finishing
      BY <2>4 DEF StreamReport, Finishing
    <3>2. agent' = agent \/ agent' = Current
      BY <3>1, <2>1, FinishConcludes DEF SInv
    <3>3. QED
      BY <3>2, <2>1, <2>3
  <2>5. ASSUME NEW r \in Readers, Answer(r) PROVE FALSE
    BY <2>1, <2>3, <2>5, AnswerShape
  <2>6. CASE Quiet
    BY <2>1, <2>3, <2>6, QuietShape
  <2>7. QED
    BY <2>1, <2>2, <2>4, <2>5, <2>6, StreamsSplit DEF Moving, Crash
<1>2. QED
  BY <1>1, SpecSInv, PTL DEF StreamsSpec, LeavesOnlyWhenSpent

----------------------------------------------------------------------------
(* Overlapping requests implement their contract.                          *)
EarnedNow == [k \in 1 .. Len(Rounds) |-> Cardinality(OpenFor(Rounds[k]))]
PutNow    == [k \in 1 .. Len(Rounds) |-> QuestionsOf(Rounds[k])]

PlaceNow == [ round |-> RoundHeld, left |-> quota.global,
              put |-> PutNow, open |-> status = "ongoing" ]

KeptNow == [ round |-> RoundOfAgent(saved.agent),
             left  |-> NonNeg(config.total - saved.turn),
             put   |-> [k \in 1 .. Len(Rounds) |-> AskedBy(saved.packages, Rounds[k])],
             open  |-> saved.status = "ongoing" ]

(* What a snapshot keeps of an interview is the place it is at.             *)
LEMMA SnapshotPlace ==
    ASSUME saved = Snapshot, quota.global = NonNeg(config.total - turn)
    PROVE  KeptNow = PlaceNow
BY DEF Snapshot, KeptNow, PlaceNow, PutNow, QuestionsOf, RoundHeld

LEMMA InitShared == StreamsInit => Shared!SharedInit
<1> SUFFICES ASSUME StreamsInit PROVE Shared!SharedInit
  OBVIOUS
<1>1. Contract!ContractInit
  BY InitContract DEF StreamsInit
<1>2. Open = {} /\ packages = << >>
  BY DEF StreamsInit, Init, Open
<1>3. \A a : Cardinality(OpenFor(a)) = 0 /\ AskedBy(packages, a) = 0
  <2>1. ASSUME NEW a
        PROVE  OpenFor(a) = {} /\ {i \in 1 .. Len(packages) : packages[i].from = a} = {}
    BY <1>2 DEF OpenFor
  <2>2. QED
    BY <2>1, FS_EmptySet DEF AskedBy
<1>4. /\ EarnedNow = [k \in 1 .. Len(Rounds) |-> 0]
      /\ PutNow = [k \in 1 .. Len(Rounds) |-> 0]
  BY <1>3 DEF EarnedNow, PutNow, QuestionsOf
<1>5. (status = "ongoing") = TRUE /\ saved = Snapshot
  BY DEF StreamsInit, Init
<1>6. KeptNow = Shared!Place
  <2>1. quota.global = NonNeg(config.total - turn)
    BY InitIInv DEF StreamsInit, IInv, Metering
  <2>2. KeptNow = PlaceNow
    BY <1>5, <2>1, SnapshotPlace
  <2>3. QED
    BY <2>2 DEF PlaceNow, PutNow, Shared!Place, RoundHeld
<1>7. QED
  BY <1>1, <1>4, <1>5, <1>6 DEF Shared!SharedInit, Shared!None, Contract!ContractInit,
                                EarnedNow, PutNow, KeptNow

(* The enabled round an interviewer holds is the only one it is in.         *)
LEMMA RoundOf ==
    ASSUME SInv, NEW a, \E k \in 1 .. Len(Rounds) : Rounds[k] = a
    PROVE  /\ Position(a) \in 1 .. Len(Rounds)
           /\ \A k \in 1 .. Len(Rounds) : Rounds[k] = a <=> k = Position(a)
<1>1. NoRepeats(Rounds) /\ Len(Rounds) \in Nat
  BY Types DEF SInv, Grounds, Rounds
<1>2. PICK k \in 1 .. Len(Rounds) : Rounds[k] = a
  OBVIOUS
<1>3. Position(a) = k
  BY <1>1, <1>2, IndexUnique DEF Position
<1>4. QED
  BY <1>1, <1>2, <1>3 DEF NoRepeats

(* What round k, held by a, is still to be asked, before and after a step.  *)
LEMMA EarnedAt ==
    ASSUME Rounds' = Rounds, NEW k \in 1 .. Len(Rounds), NEW a, a = Rounds[k]
    PROVE  /\ EarnedNow[k] = Cardinality(OpenFor(a))
           /\ EarnedNow'[k] = Cardinality(OpenFor(a)')
<1>1. EarnedNow[k] = Cardinality(OpenFor(a))
  BY DEF EarnedNow
<1>2. EarnedNow' = [j \in 1 .. Len(Rounds) |-> Cardinality({r \in Open' : calls'[r].agent = Rounds[j]})]
  BY DEF EarnedNow, OpenFor
<1>3. OpenFor(a)' = {r \in Open' : calls'[r].agent = a}
  BY DEF OpenFor
<1>4. QED
  BY <1>1, <1>2, <1>3

LEMMA EarnedFunction ==
    ASSUME Rounds' = Rounds
    PROVE  /\ EarnedNow = [k \in 1 .. Len(Rounds) |-> EarnedNow[k]]
           /\ EarnedNow' = [k \in 1 .. Len(Rounds) |-> EarnedNow'[k]]
           /\ \A k \in 1 .. Len(Rounds) : EarnedNow[k] \in Nat
<1>1. \A k \in 1 .. Len(Rounds) : EarnedNow[k] \in Nat
  BY OpenFinite DEF EarnedNow
<1>2. EarnedNow' = [k \in 1 .. Len(Rounds) |-> EarnedNow'[k]]
  BY DEF EarnedNow
<1>3. QED
  BY <1>1, <1>2 DEF EarnedNow

(* A stream that is taken up earns a question for the one who will ask.     *)
LEMMA StartEarns ==
    ASSUME SInv, NEW r \in Readers, Starting(r)
    PROVE  \E k \in 1 .. Len(Rounds) : Shared!Earn(k)
<1>1. Grounds /\ CallsTyped
  BY DEF SInv
<1>2. /\ Metered /\ calls[r] = Idle /\ status = "ongoing" /\ quota.global > 0
      /\ Begins(r, agent')
  BY <1>1, StartShape
<1>3. /\ config' = config /\ Rounds # << >>
      /\ quota'.global = NonNeg(quota.global - 1) /\ quota.global \in Nat
  BY <1>1, <1>2, TurnMetered, Types DEF Grounds
<1>4. quota'.global = quota.global - 1 /\ Rounds' = Rounds
  BY <1>2, <1>3 DEF NonNeg, Rounds
<1>5. /\ agent' # NoAgent /\ \E k \in 1 .. Len(Rounds) : Rounds[k] = agent'
      /\ agent' = Current \/ Position(agent') = Position(Current) + 1
  <2>1. /\ agent' # NoAgent /\ Heard(agent)'
        /\ agent' = Current \/ Position(agent') = Position(Current) + 1
    BY StartPlace
  <2>2. QED
    BY <2>1, <1>3 DEF Heard, Rounds
<1>6. /\ Position(agent') \in 1 .. Len(Rounds)
      /\ \A k \in 1 .. Len(Rounds) : Rounds[k] = agent' <=> k = Position(agent')
  BY <1>5, RoundOf
<1>7. PICK c \in Pending : c.agent = agent' /\ calls' = [calls EXCEPT ![r] = c]
  BY <1>2 DEF Begins
<1>8. \A a : Cardinality(OpenFor(a)') = Cardinality(OpenFor(a)) + IF c.agent = a THEN 1 ELSE 0
  BY <1>1, <1>2, <1>7, OpenAdds
<1>9. EarnedNow' = [EarnedNow EXCEPT ![Position(agent')] = @ + 1]
  <2>1. ASSUME NEW k \in 1 .. Len(Rounds)
        PROVE  EarnedNow'[k] = EarnedNow[k] + IF k = Position(agent') THEN 1 ELSE 0
    <3>1. PICK a : a = Rounds[k]
      OBVIOUS
    <3>2. EarnedNow[k] = Cardinality(OpenFor(a)) /\ EarnedNow'[k] = Cardinality(OpenFor(a)')
      BY <3>1, <1>4, EarnedAt
    <3>3. Cardinality(OpenFor(a)') = Cardinality(OpenFor(a)) + IF c.agent = a THEN 1 ELSE 0
      BY <1>8
    <3>4. c.agent = a <=> k = Position(agent')
      BY <3>1, <1>6, <1>7
    <3>5. QED
      BY <3>2, <3>3, <3>4
  <2>2. QED
    BY <2>1, <1>4, <1>6, EarnedFunction
<1>10. PutNow' = PutNow
  BY <1>2, <1>4 DEF PutNow, QuestionsOf, Begins
<1>11. RoundHeld = Position(Current) /\ RoundHeld' = Position(agent')
  <2>1. RoundHeld' = Position(agent')
    BY <1>3, <1>4, <1>5 DEF RoundHeld, RoundOfAgent, Position
  <2>2. QED
    BY <2>1, <1>3, RoundIsHeld
<1>12. Shared!Earn(Position(agent'))
  BY <1>2, <1>4, <1>5, <1>6, <1>9, <1>10, <1>11
     DEF Shared!Earn, EarnedNow, PutNow, RoundHeld, Begins
<1>13. QED
  BY <1>6, <1>12

(* An answered stream settles what the one who asks had earned.             *)
LEMMA AnswerSettles ==
    ASSUME SInv, NEW r \in Readers, Answer(r)
    PROVE  \E k \in 1 .. Len(Rounds) : Shared!Settle(k)
<1> DEFINE b == calls[r].agent
           n == Position(b)
<1>1. /\ CallsTyped /\ AskersHeard /\ packages \in Seq(Package)
  BY DEF SInv, Grounds, FieldsOK
<1>2. /\ r \in Open /\ Hung(r)
      /\ UNCHANGED <<config, turn, status, agent, used, roundTurns, quota>>
      /\ packages' = packages \/ packages' = Append(packages, Recorded(r))
      /\ Recorded(r) \in Package /\ Recorded(r).from = b
  BY AnswerShape DEF Recorded
<1>3. /\ n \in 1 .. Len(Rounds)
      /\ \A k \in 1 .. Len(Rounds) : Rounds[k] = b <=> k = n
  <2>1. Heard(b)
    BY <1>1, <1>2 DEF AskersHeard
  <2>2. QED
    BY <2>1, RoundOf DEF Heard, Rounds
<1>4. \A a : Cardinality(OpenFor(a)')
               = Cardinality(OpenFor(a)) - IF b = a THEN 1 ELSE 0
  BY <1>1, <1>2, OpenDrops
<1>5. Rounds' = Rounds /\ RoundHeld' = RoundHeld
  BY <1>2 DEF Rounds, RoundHeld, RoundOfAgent, Position
<1>6. b \in Agents
  BY <1>1, <1>2, OpenDrops
<1>7. Cardinality(OpenFor(b)) > 0
  <2>1. OpenFor(b) # {}
    BY <1>2 DEF OpenFor
  <2>2. IsFiniteSet(OpenFor(b)) /\ Cardinality(OpenFor(b)) \in Nat
    BY OpenFinite
  <2>3. Cardinality(OpenFor(b)) # 0
    BY <2>1, <2>2, FS_EmptySet
  <2>4. QED
    BY <2>2, <2>3
<1> HIDE DEF b, n
<1>8. EarnedNow' = [EarnedNow EXCEPT ![n] = @ - 1] /\ EarnedNow[n] > 0
  <2>1. ASSUME NEW k \in 1 .. Len(Rounds)
        PROVE  /\ EarnedNow'[k] = EarnedNow[k] - IF k = n THEN 1 ELSE 0
               /\ k = n => EarnedNow[k] > 0
    <3>1. PICK a : a = Rounds[k]
      OBVIOUS
    <3>2. EarnedNow[k] = Cardinality(OpenFor(a)) /\ EarnedNow'[k] = Cardinality(OpenFor(a)')
      BY <3>1, <1>5, EarnedAt
    <3>3. Cardinality(OpenFor(a)') = Cardinality(OpenFor(a)) - IF b = a THEN 1 ELSE 0
      BY <1>4
    <3>4. b = a <=> k = n
      BY <3>1, <1>3
    <3>5. QED
      BY <3>2, <3>3, <3>4, <1>7
  <2>2. EarnedNow' = [EarnedNow EXCEPT ![n] = @ - 1]
    BY <2>1, <1>3, <1>5, EarnedFunction
  <2>3. QED
    BY <2>1, <2>2, <1>3
<1>9. PutNow' \in {PutNow, [PutNow EXCEPT ![n] = @ + 1]}
  <2>1. PutNow' = [k \in 1 .. Len(Rounds) |-> AskedBy(packages', Rounds[k])]
    BY <1>5 DEF PutNow, QuestionsOf
  <2>2. CASE packages' = packages
    BY <2>1, <2>2 DEF PutNow, QuestionsOf
  <2>3. CASE packages' = Append(packages, Recorded(r))
    <3>1. ASSUME NEW k \in 1 .. Len(Rounds)
          PROVE  AskedBy(packages', Rounds[k])
                   = AskedBy(packages, Rounds[k]) + IF k = n THEN 1 ELSE 0
      <4>1. b = Rounds[k] <=> k = n
        BY <1>3
      <4>2. /\ AskedBy(packages, Rounds[k]) \in Nat
            /\ AskedBy(packages', Rounds[k])
                 = AskedBy(packages, Rounds[k]) + IF b = Rounds[k] THEN 1 ELSE 0
        BY <1>1, <1>2, <2>3, AskedByAppend
      <4>3. QED
        BY <4>1, <4>2
    <3>2. \A k \in 1 .. Len(Rounds) : AskedBy(packages, Rounds[k]) \in Nat
      BY <1>1, AskedByNat
    <3>3. \A k \in 1 .. Len(Rounds) :
              PutNow[k] \in Nat /\ PutNow'[k] = PutNow[k] + IF k = n THEN 1 ELSE 0
      BY <2>1, <3>1, <3>2 DEF PutNow, QuestionsOf
    <3>4. /\ PutNow = [k \in 1 .. Len(Rounds) |-> PutNow[k]]
          /\ PutNow' = [k \in 1 .. Len(Rounds) |-> PutNow'[k]]
      BY <2>1 DEF PutNow
    <3>5. PutNow' = [PutNow EXCEPT ![n] = @ + 1]
      BY <3>3, <3>4, <1>3
    <3>6. QED
      BY <3>5
  <2>4. QED
    BY <1>2, <2>2, <2>3
<1>10. Shared!Settle(n)
  BY <1>2, <1>5, <1>8, <1>9 DEF Shared!Settle, EarnedNow, PutNow, RoundHeld
<1>11. QED
  BY <1>3, <1>10

(* A report ends the interview, or answers a request that came too late.    *)
LEMMA ReportEnds ==
    ASSUME SInv, NEW r \in Readers, StreamReport(r)
    PROVE  Shared!End \/ Shared!Late \/ UNCHANGED Shared!standing
<1>1. /\ Grounds /\ quota.global \in Nat /\ status \in {"ongoing", "finished"}
  BY Types DEF SInv, Grounds, FieldsOK
<1>2. Finishing /\ calls' = calls
  BY DEF StreamReport, Finishing
<1>3. /\ status' = "finished" /\ packages' = packages /\ Rounds' = Rounds
      /\ \/ Rounds = << >> /\ agent' = agent /\ quota' = quota
         \/ Metered /\ agent' = Current
  BY <1>1, <1>2, FinishConcludes DEF Rounds
<1>4. EarnedNow' = EarnedNow /\ PutNow' = PutNow
  BY <1>2, <1>3 DEF EarnedNow, PutNow, QuestionsOf, OpenFor, Open
<1>5. RoundHeld' = RoundHeld
  <2>1. CASE Rounds = << >>
    BY <2>1, <1>3 DEF RoundHeld, RoundOfAgent
  <2>2. CASE Rounds # << >>
    <3>1. agent' = Current /\ Current # NoAgent
      BY <1>1, <1>3, <2>2, CurrentPlaced, DistinctAssumption
    <3>2. RoundHeld' = Position(Current)
      BY <3>1, <2>2, <1>3 DEF RoundHeld, RoundOfAgent, Position
    <3>3. QED
      BY <3>2, <2>2, RoundIsHeld
  <2>3. QED
    BY <2>1, <2>2
<1>6. quota'.global \in {quota.global, quota.global - 1} \cap Nat
  BY <1>1, <1>3, TurnMetered DEF NonNeg
<1>7. CASE status = "ongoing"
  <2>1. Shared!End
    BY <1>3, <1>4, <1>5, <1>6, <1>7 DEF Shared!End, EarnedNow, PutNow, RoundHeld
  <2>2. QED
    BY <2>1
<1>8. CASE status = "finished" /\ quota'.global = quota.global
  BY <1>3, <1>4, <1>5, <1>8 DEF Shared!standing, EarnedNow, PutNow, RoundHeld
<1>9. CASE status = "finished" /\ quota'.global = quota.global - 1
  <2>1. quota.global > 0
    BY <1>1, <1>6, <1>9
  <2>2. Shared!Late
    BY <1>3, <1>4, <1>5, <1>9, <2>1 DEF Shared!Late, EarnedNow, PutNow, RoundHeld
  <2>3. QED
    BY <2>2
<1>10. QED
  BY <1>1, <1>6, <1>7, <1>8, <1>9

\* What is stored stays, and with it the place kept.
LEMMA StoredStays ==
    ASSUME saved' = saved, config' = config
    PROVE  Shared!Keeps
<1>1. KeptNow' = KeptNow
  BY DEF KeptNow, RoundOfAgent, Position, Rounds
<1>2. QED
  BY <1>1 DEF KeptNow, Shared!Keeps

LEMMA MovingKeeps ==
    ASSUME SInv, NEW r \in Readers, Moving(r)
    PROVE  Shared!Keeps
<1>1. ASSUME Starting(r) PROVE saved' = saved
  BY <1>1, StartShape DEF SInv, Begins
<1>2. ASSUME StreamReport(r) PROVE saved' = saved
  BY <1>2 DEF StreamReport
<1>3. ASSUME Answer(r) PROVE saved' = saved
  BY <1>3 DEF Answer, Record, Lose
<1>4. config' = config
  BY StreamForward
<1>5. QED
  BY <1>1, <1>2, <1>3, <1>4, StoredStays DEF Moving

(* A submission is none of the contract's; a save keeps the place the       *)
(* interview is at.                                                         *)
LEMMA QuietShared ==
    ASSUME SInv, Quiet
    PROVE  UNCHANGED Shared!standing /\ Shared!Keeps
<1>1. /\ UNCHANGED <<config, turn, status, agent, packages, quota>>
      /\ saved' = saved \/ saved' = Snapshot
      /\ Open' = Open /\ \A r \in Open' : calls'[r] = calls[r]
  BY QuietShape
<1>2. Rounds' = Rounds /\ RoundHeld' = RoundHeld /\ PutNow' = PutNow
  BY <1>1 DEF Rounds, RoundHeld, RoundOfAgent, Position, PutNow, QuestionsOf
<1>3. EarnedNow' = EarnedNow
  BY <1>1, <1>2 DEF EarnedNow, OpenFor
<1>4. UNCHANGED Shared!standing
  BY <1>1, <1>2, <1>3 DEF Shared!standing, EarnedNow, PutNow, RoundHeld
<1>5. CASE saved' = Snapshot
  <2>1. /\ saved'.agent = agent' /\ saved'.turn = turn' /\ saved'.packages = packages'
        /\ saved'.status = status'
    BY <1>1, <1>5 DEF Snapshot
  <2>2. quota'.global = NonNeg(config'.total - turn')
    BY <1>1 DEF SInv, Grounds, Metering
  <2>3. KeptNow' = PlaceNow'
    BY <2>1, <2>2 DEF KeptNow, PlaceNow, PutNow, QuestionsOf, RoundHeld,
                      RoundOfAgent, Position, Rounds
  <2>4. QED
    BY <2>3, <1>4 DEF KeptNow, PlaceNow, PutNow, RoundHeld, Shared!Keeps, Shared!Place
<1>6. QED
  BY <1>1, <1>4, <1>5, StoredStays

(* A crash resumes the interview at the place kept, and loses all that was  *)
(* earned.                                                                  *)
LEMMA CrashResumes ==
    ASSUME CInv, Crash
    PROVE  Shared!Resume
<1>1. /\ config' = config /\ saved' = saved /\ saved.status = "ongoing"
      /\ turn' = saved.turn /\ status' = saved.status /\ agent' = saved.agent
      /\ packages' = saved.packages /\ quota' = Rebuilt(config, saved)
  BY Reloads DEF Crash
<1>2. quota'.global = NonNeg(config.total - saved.turn)
  BY <1>1 DEF CInv, KeptAt, GroundsAt, MeteringAt
<1>3. Rounds' = Rounds /\ RoundHeld' = RoundOfAgent(saved.agent)
  BY <1>1 DEF RoundHeld, RoundOfAgent, Position, Rounds
<1>4. PutNow' = [k \in 1 .. Len(Rounds) |-> AskedBy(saved.packages, Rounds[k])]
  BY <1>1, <1>3 DEF PutNow, QuestionsOf
<1>5. KeptNow' = KeptNow
  BY <1>1 DEF KeptNow, RoundOfAgent, Position, Rounds
<1>6. PlaceNow' = KeptNow
  BY <1>1, <1>2, <1>3, <1>4 DEF KeptNow, PlaceNow
<1>7. EarnedNow' = [k \in 1 .. Len(Rounds) |-> 0]
  <2>1. \A a : Cardinality(OpenFor(a)') = 0
    BY CrashSInv DEF CInv, SInv, Grounds
  <2>2. QED
    BY <2>1, <1>3 DEF EarnedNow, OpenFor, Open
<1>8. KeptNow.open = TRUE
  BY <1>1 DEF KeptNow
<1>9. QED
  BY <1>3, <1>5, <1>6, <1>7, <1>8
     DEF Shared!Resume, Shared!None, Shared!Place, KeptNow, PlaceNow, EarnedNow, PutNow, RoundHeld

(* Interviews whose requests overlap implement their contract: every step   *)
(* of a stream, of a submission or of a save is one of the contract's or    *)
(* changes nothing the contract speaks of, and a crash resumes the place    *)
(* that was kept.                                                           *)
THEOREM StreamsImplementContract == StreamsSpec => ImplementsSharedContract
<1>1. CInv /\ [StreamsNext]_streamVars => [Shared!SharedNext]_(Shared!sharedVars)
  <2> SUFFICES ASSUME CInv, [StreamsNext]_streamVars
               PROVE  Shared!SharedNext
    OBVIOUS
  <2>1. SInv
    BY DEF CInv
  <2>2. ASSUME NEW r \in Readers, Moving(r)
        PROVE  /\ \/ \E k \in 1 .. Len(Rounds) : Shared!Earn(k) \/ Shared!Settle(k)
                  \/ Shared!End \/ Shared!Late \/ UNCHANGED Shared!standing
               /\ Shared!Keeps
    BY <2>1, <2>2, StartEarns, AnswerSettles, ReportEnds, MovingKeeps DEF Moving
  <2>3. CASE \E r \in Readers : Moving(r)
    BY <2>2, <2>3 DEF Shared!SharedNext
  <2>4. CASE Quiet
    BY <2>1, <2>4, QuietShared DEF Shared!SharedNext
  <2>5. CASE Crash
    BY <2>5, CrashResumes DEF Shared!SharedNext
  <2>6. QED
    BY <2>3, <2>4, <2>5, StreamsSplit
<1>2. StreamsSpec => [][Shared!SharedNext]_(Shared!sharedVars)
  BY <1>1, SpecCInv, PTL DEF StreamsSpec
<1>3. QED
  BY <1>2, InitShared, PTL DEF StreamsSpec, ImplementsSharedContract, Shared!SharedSpec

(* However requests overlap, the manager is used as if they did not: every  *)
(* step meters one turn of the interviewer of that moment, stores the       *)
(* accounts, rebuilds the manager from those stored, or leaves it and them  *)
(* alone.                                                                   *)
THEOREM StreamsUseManager == StreamsSpec => ImplementsManager
<1>1. StreamsInit => Manager!Init /\ StoredAccounts = Accounts
  BY InitManages DEF StreamsInit, Init, StoredAccounts, Accounts, Snapshot
<1>2. SInv /\ [StreamsNext]_streamVars => [ManagerStep]_<<Manager!vars, StoredAccounts>>
  <2> SUFFICES ASSUME SInv, [StreamsNext]_streamVars
               PROVE  ManagerStep
    OBVIOUS
  <2>1. ASSUME NEW r \in Readers, Starting(r) PROVE Manager!Next /\ saved' = saved
    BY <2>1, StartShape, MeteredManages DEF SInv, Begins
  <2>2. ASSUME NEW r \in Readers, StreamReport(r)
        PROVE  (Manager!Next \/ UNCHANGED Manager!vars) /\ saved' = saved
    <3>1. Finishing /\ saved' = saved
      BY <2>2 DEF StreamReport, Finishing
    <3>2. Metered \/ UNCHANGED <<config, turn, quota, used, roundTurns>>
      BY <3>1, FinishConcludes DEF SInv
    <3>3. QED
      BY <3>1, <3>2, MeteredManages DEF SInv, Manager!vars
  <2>3. ASSUME NEW r \in Readers, Answer(r) PROVE UNCHANGED Manager!vars /\ saved' = saved
    BY <2>3, AnswerShape DEF Manager!vars
  <2>4. CASE \E r \in Readers : Moving(r)
    BY <2>1, <2>2, <2>3, <2>4 DEF Moving, ManagerStep, StoredAccounts
  <2>5. CASE Quiet
    <3>1. /\ UNCHANGED <<config, turn, quota, used, roundTurns>>
          /\ saved' = saved \/ saved' = Snapshot
      BY <2>5, QuietShape
    <3>2. StoredAccounts' \in {StoredAccounts, Accounts'}
      BY <3>1 DEF StoredAccounts, Accounts, Snapshot
    <3>3. QED
      BY <3>1, <3>2 DEF ManagerStep, Manager!vars
  <2>6. CASE Crash
    BY <2>6, RecoverManages DEF Crash, ManagerStep
  <2>7. QED
    BY <2>4, <2>5, <2>6, StreamsSplit
<1>3. StreamsSpec => [][ManagerStep]_<<Manager!vars, StoredAccounts>>
  BY <1>2, SpecSInv, PTL DEF StreamsSpec
<1>4. QED
  BY <1>1, <1>3, PTL DEF StreamsSpec, ImplementsManager, ManagerStep

----------------------------------------------------------------------------
(***************************************************************************)
(* The safety half of AllStreamsEnd: what the interview may still do for    *)
(* its streams.  A turn that is left can be taken up and its question then  *)
(* recorded or lost; a stream in hand only the latter.                      *)
(***************************************************************************)
StreamsLeft ==
    (IF status = "finished" THEN 0 ELSE 2 * quota.global + 1) + Cardinality(Open)

\* The same of what is stored, with which no stream is in hand.
StreamsStored ==
    IF saved.status = "finished" THEN 0 ELSE 2 * NonNeg(config.total - saved.turn) + 1

RunsDown ==
    /\ StreamsLeft \in Nat /\ StreamsLeft' \in Nat /\ StreamsStored' \in Nat
    /\ \A r \in Readers :
          (status = "ongoing" /\ Stream(r)) \/ Answer(r) => StreamsLeft' < StreamsLeft
    /\ ~Lost => StreamsLeft' <= StreamsLeft
    /\ Lost => StreamsLeft' = StreamsStored
    /\ StreamsStored' <= StreamsStored
    /\ saved.status = "ongoing" /\ <<saved.turn, saved.status>>' # <<saved.turn, saved.status>>
          => StreamsStored' < StreamsStored

(* What each kind of step makes of the streams in hand and the turns left.  *)
LEMMA StartRunsDown ==
    ASSUME SInv, NEW r \in Readers, Starting(r)
    PROVE  StreamsLeft' \in Nat /\ StreamsLeft' < StreamsLeft
<1>1. Grounds /\ CallsTyped
  BY DEF SInv
<1>2. /\ Metered /\ calls[r] = Idle /\ status = "ongoing" /\ quota.global > 0
      /\ Begins(r, agent')
  BY <1>1, StartShape
<1>3. quota'.global = NonNeg(quota.global - 1) /\ quota.global \in Nat
  BY <1>1, <1>2, TurnMetered, Types DEF Grounds
<1>4. PICK c \in Pending : c.agent = agent' /\ calls' = [calls EXCEPT ![r] = c]
  BY <1>2 DEF Begins
<1>5. Cardinality(Open') = Cardinality(Open) + 1 /\ Cardinality(Open) \in Nat
  BY <1>1, <1>2, <1>4, OpenAdds, OpenFinite
<1>6. quota'.global = quota.global - 1 /\ status' = "ongoing"
  BY <1>2, <1>3 DEF NonNeg, Begins
<1>7. QED
  BY <1>2, <1>3, <1>5, <1>6 DEF StreamsLeft

LEMMA ReportRunsDown ==
    ASSUME SInv, NEW r \in Readers, StreamReport(r)
    PROVE  /\ StreamsLeft' \in Nat /\ StreamsLeft' <= StreamsLeft
           /\ status = "ongoing" => StreamsLeft' < StreamsLeft
<1>1. Finishing /\ calls' = calls
  BY DEF StreamReport, Finishing
<1>2. status' = "finished" /\ Open' = Open
  BY <1>1, FinishConcludes DEF SInv, Open
<1>3. quota.global \in Nat /\ Cardinality(Open) \in Nat
  BY OpenFinite, Types DEF SInv, Grounds
<1>4. QED
  BY <1>2, <1>3 DEF StreamsLeft

LEMMA AnswerRunsDown ==
    ASSUME SInv, NEW r \in Readers, Answer(r)
    PROVE  StreamsLeft' \in Nat /\ StreamsLeft' < StreamsLeft
<1>1. /\ r \in Open /\ Hung(r) /\ status' = status /\ quota' = quota
      /\ CallsTyped
  BY AnswerShape DEF SInv
<1>2. Cardinality(Open') = Cardinality(Open) - 1
  BY <1>1, OpenDrops
<1>3. IsFiniteSet(Open) /\ Cardinality(Open) \in Nat /\ Open # {}
  BY <1>1, OpenFinite
<1>4. Cardinality(Open) # 0
  BY <1>3, FS_EmptySet
<1>5. quota.global \in Nat
  BY Types DEF SInv, Grounds
<1>6. QED
  BY <1>1, <1>2, <1>3, <1>4, <1>5 DEF StreamsLeft

LEMMA QuietRunsDown ==
    ASSUME SInv, Quiet
    PROVE  StreamsLeft' = StreamsLeft
BY QuietShape DEF StreamsLeft

LEMMA CrashRunsDown ==
    ASSUME CInv, Crash
    PROVE  /\ StreamsLeft' = StreamsStored
           /\ ~Lost => StreamsLeft' <= StreamsLeft
<1>1. /\ turn' = saved.turn /\ status' = saved.status
      /\ saved.status = "ongoing" /\ quota' = Rebuilt(config, saved)
  BY Reloads DEF Crash
<1>2. /\ quota'.global = NonNeg(config.total - turn') /\ Cardinality(Open') = 0
      /\ quota'.global \in Nat
  BY <1>1, CrashSInv DEF CInv, SInv, Grounds, KeptAt, GroundsAt, MeteringAt, QuotaType
<1>3. StreamsLeft' = 2 * quota'.global + 1
  BY <1>1, <1>2 DEF StreamsLeft
<1>4. ASSUME ~Lost PROVE StreamsLeft' <= StreamsLeft
  <2>1. turn' = turn /\ status' = status
    BY <1>4 DEF Lost, Crash
  <2>2. quota.global = NonNeg(config.total - turn) /\ Cardinality(Open) \in Nat
    BY OpenFinite DEF CInv, SInv, Grounds, Metering
  <2>3. StreamsLeft = 2 * quota'.global + 1 + Cardinality(Open)
    BY <1>1, <1>2, <2>1, <2>2 DEF StreamsLeft
  <2>4. QED
    BY <1>2, <1>3, <2>2, <2>3
<1>5. QED
  BY <1>1, <1>2, <1>3, <1>4 DEF StreamsStored

(* What is stored runs down with every save that has got further.           *)
LEMMA StoredRunsDown ==
    ASSUME CInv, [StreamsNext]_streamVars
    PROVE  /\ StreamsStored' \in Nat /\ StreamsStored' <= StreamsStored
           /\ saved.status = "ongoing"
              /\ <<saved.turn, saved.status>>' # <<saved.turn, saved.status>>
                 => StreamsStored' < StreamsStored
<1>1. /\ config.total \in Nat /\ saved.turn \in Nat /\ turn \in Nat
      /\ status \in {"ongoing", "finished"} /\ saved.status \in {"ongoing", "finished"}
  BY Types DEF CInv, SInv, Grounds, FieldsOK, KeptAt, GroundsAt, Snapshots
<1>2. /\ saved.turn <= turn /\ (saved.status = "finished" => status = "finished")
      /\ status = "ongoing" => turn <= config.total
  BY DEF CInv, Behind, SInv, Grounds, Floor
<1>3. config' = config /\ (saved' = saved \/ saved' = Snapshot)
  <2>1. CASE Crash
    BY <2>1, Reloads DEF Crash
  <2>2. CASE (\E r \in Readers : Moving(r)) \/ Quiet
    BY <2>2, StreamForward DEF CInv
  <2>3. QED
    BY <2>1, <2>2, StreamsSplit
<1>4. CASE saved' = saved
  BY <1>1, <1>3, <1>4 DEF StreamsStored, NonNeg
<1>5. CASE saved' = Snapshot
  <2>1. saved'.turn = turn /\ saved'.status = status
    BY <1>5 DEF Snapshot
  <2>2. QED
    BY <1>1, <1>2, <1>3, <2>1 DEF StreamsStored, NonNeg
<1>6. QED
  BY <1>3, <1>4, <1>5

(* Every stream that is taken up by a running interview, and every answer   *)
(* to one, brings the end nearer, and nothing that overlaps with them takes *)
(* it back, neither a submission nor a lost answer, but a crash that takes  *)
(* back turns or an end not saved.  That leaves what is stored to be done,  *)
(* and of this every save takes away that has got further.                  *)
THEOREM StreamsRunOut == StreamsSpec => [][RunsDown]_streamVars
<1>1. CInv /\ [StreamsNext]_streamVars => [RunsDown]_streamVars
  <2>1. SUFFICES ASSUME CInv, [StreamsNext]_streamVars PROVE RunsDown
    OBVIOUS
  <2>2. SInv /\ StreamsLeft \in Nat
    BY <2>1, OpenFinite, Types DEF CInv, SInv, Grounds, StreamsLeft
  <2>3. ASSUME NEW r \in Readers, (status = "ongoing" /\ Stream(r)) \/ Answer(r)
        PROVE  StreamsLeft' < StreamsLeft
    BY <2>2, <2>3, StartRunsDown, ReportRunsDown, AnswerRunsDown DEF Stream, Starting
  <2>4. StreamsStored \in Nat
    BY <2>1, Types DEF CInv, SInv, Grounds, KeptAt, GroundsAt, Snapshots, FieldsOK,
                       StreamsStored, NonNeg
  <2>5. /\ StreamsLeft' \in Nat
        /\ ~Lost => StreamsLeft' <= StreamsLeft
        /\ Lost => StreamsLeft' = StreamsStored
    <3>1. CASE ((\E r \in Readers : Moving(r)) \/ Quiet) /\ ~Lost
      BY <2>2, <3>1, StartRunsDown, ReportRunsDown, AnswerRunsDown, QuietRunsDown DEF Moving
    <3>2. CASE Crash
      BY <2>1, <2>2, <2>4, <3>2, CrashRunsDown
    <3>3. ASSUME (\E r \in Readers : Moving(r)) \/ Quiet, Lost
          PROVE  FALSE
      <4>1. turn' = saved.turn /\ status' = "ongoing"
        BY <3>3, Reloads DEF Lost
      <4>2. /\ turn \in Nat /\ turn <= turn' /\ turn' \in Nat
            /\ status = "finished" => status' = "finished"
            /\ status \in {"ongoing", "finished"} /\ saved.turn <= turn
        BY <2>1, <2>2, <3>3, StreamForward DEF CInv, Behind, SInv, Grounds, FieldsOK
      <4>3. QED
        BY <4>1, <4>2, <3>3 DEF Lost
    <3>4. QED
      BY <2>1, <3>1, <3>2, <3>3, StreamsSplit
  <2>6. QED
    BY <2>1, <2>2, <2>3, <2>5, StoredRunsDown DEF RunsDown
<1>2. QED
  BY <1>1, SpecCInv, PTL DEF StreamsSpec

(* Overlapping streams, lost answers and crashes end no interview early     *)
(* either.                                                                  *)
THEOREM NoEarlyEndWithOverlap == StreamsSpec => []EndsOnlyWhenSpent
<1>1. SInv => EndsOnlyWhenSpent
  BY DEF SInv, Grounds, Floor, EndsOnlyWhenSpent
<1>2. QED
  BY <1>1, SpecSInv, PTL
=============================================================================
