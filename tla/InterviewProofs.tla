--------------------------- MODULE InterviewProofs ---------------------------
(* Proofs about module Interview, for every set of configurations, every     *)
(* number of interviewers and every bound.                                   *)
EXTENDS Interview, QuotaLemmas, FiniteSetTheorems

(***************************************************************************)
(* The inductive invariant.                                                *)
(***************************************************************************)

\* What is stored of the quotas is exactly what the live manager spent.
Metering ==
    /\ quota.global = NonNeg(config.total - turn)
    /\ Within(config, quota)
    /\ used = Persist(config, quota)
    /\ \A a \in Agents : roundTurns[a] + quota.agent[a] <= AgentLimit(config, a)

Floor ==
    /\ agent = NoAgent => packages = << >>
    /\ agent # NoAgent => \E i \in 1 .. Len(config.rounds) : config.rounds[i] = agent
    /\ status = "ongoing" => turn <= config.total
    /\ status = "finished" => Over

\* Every package is of this turn or an earlier one, and of the interviewer
\* who holds the floor or one who held it before.
Visits ==
    \A i \in 1 .. Len(packages) :
        /\ packages[i].round <= turn
        /\ packages[i].round <= config.total
        /\ \E k \in 1 .. Len(config.rounds) : config.rounds[k] = packages[i].from
        /\ IndexIn(config.rounds, packages[i].from) <= IndexIn(config.rounds, agent)

\* The part that holds whether or not requests overlap.
Grounds == FieldsOK /\ Metering /\ Floor

IInv ==
    /\ FieldsOK
    /\ Metering
    /\ Floor
    /\ Visits
    /\ VisitOrder
    /\ QuestionsMetered

(***************************************************************************)
(* What is stored is what is held was at some time: a restart finds a      *)
(* state, and builds a manager, of which the same can be said.             *)
(***************************************************************************)
Rebuilt(c, s) == Restore(c, s.turn, s.used, s.roundTurns)

OverAt(c, s) ==
    \/ c.rounds = << >>
    \/ Rebuilt(c, s).global = 0
    \/ /\ s.agent # NoAgent
       /\ IndexIn(c.rounds, s.agent) = Len(c.rounds)
       /\ Rebuilt(c, s).agent[s.agent] = 0

MeteringAt(c, s) ==
    /\ Rebuilt(c, s) \in QuotaType
    /\ Rebuilt(c, s).global = NonNeg(c.total - s.turn)
    /\ Within(c, Rebuilt(c, s))
    /\ s.used = Persist(c, Rebuilt(c, s))
    /\ \A a \in Agents : s.roundTurns[a] + Rebuilt(c, s).agent[a] <= AgentLimit(c, a)

FloorAt(c, s) ==
    /\ s.agent = NoAgent => s.packages = << >>
    /\ s.agent # NoAgent => \E i \in 1 .. Len(c.rounds) : c.rounds[i] = s.agent
    /\ s.status = "ongoing" => s.turn <= c.total
    /\ s.status = "finished" => OverAt(c, s)

GroundsAt(c, s) == s \in Snapshots /\ MeteringAt(c, s) /\ FloorAt(c, s)

VisitsAt(c, s) ==
    \A i \in 1 .. Len(s.packages) :
        /\ s.packages[i].round <= s.turn
        /\ s.packages[i].round <= c.total
        /\ \E k \in 1 .. Len(c.rounds) : c.rounds[k] = s.packages[i].from
        /\ IndexIn(c.rounds, s.packages[i].from) <= IndexIn(c.rounds, s.agent)

OrderAt(c, s) ==
    \A i, j \in 1 .. Len(s.packages) :
        i < j => /\ s.packages[i].round < s.packages[j].round
                 /\ IndexIn(c.rounds, s.packages[i].from)
                      <= IndexIn(c.rounds, s.packages[j].from)

PaidAt(c, s) ==
    \A a \in Agents :
        AskedBy(s.packages, a)
          <= s.used.agent[a] + IF c.rounds # << >> /\ a # c.rounds[1] THEN 1 ELSE 0

SoundAt(c, s) ==
    GroundsAt(c, s) /\ VisitsAt(c, s) /\ OrderAt(c, s) /\ PaidAt(c, s)

\* What is stored is not ahead of what is held.
Behind ==
    /\ saved.turn <= turn
    /\ saved.status = "finished" => status = "finished"

HInv == IInv /\ SoundAt(config, saved) /\ Behind

----------------------------------------------------------------------------
(* An enabled round is found at its only position.                          *)
LEMMA IndexUnique ==
    ASSUME NEW seq, Len(seq) \in Nat, NoRepeats(seq), NEW i \in 1 .. Len(seq)
    PROVE  IndexIn(seq, seq[i]) = i
<1>1. \E k \in 1 .. Len(seq) : seq[k] = seq[i]
  OBVIOUS
<1>2. /\ IndexIn(seq, seq[i]) \in 1 .. Len(seq)
      /\ seq[IndexIn(seq, seq[i])] = seq[i]
  BY <1>1 DEF IndexIn
<1>3. QED
  BY <1>2 DEF NoRepeats

(* The questions of an interviewer are a natural number.                    *)
LEMMA AskedByNat ==
    ASSUME NEW pk \in Seq(Package), NEW a
    PROVE  /\ AskedBy(pk, a) \in Nat
           /\ IsFiniteSet({i \in 1 .. Len(pk) : pk[i].from = a})
<1>1. IsFiniteSet(1 .. Len(pk))
  BY FS_Interval
<1>2. IsFiniteSet({i \in 1 .. Len(pk) : pk[i].from = a})
  BY <1>1, FS_Subset
<1>3. QED
  BY <1>2, FS_CardinalityType DEF AskedBy

(* Appending a package adds one question to its sender and none to others.  *)
LEMMA AskedByAppend ==
    ASSUME NEW pk \in Seq(Package), NEW p \in Package, NEW a
    PROVE  /\ AskedBy(pk, a) \in Nat
           /\ AskedBy(Append(pk, p), a) = AskedBy(pk, a) + IF p.from = a THEN 1 ELSE 0
<1> DEFINE old == {i \in 1 .. Len(pk) : pk[i].from = a}
           new == {i \in 1 .. Len(Append(pk, p)) : Append(pk, p)[i].from = a}
<1>1. /\ Len(pk) \in Nat
      /\ Len(Append(pk, p)) = Len(pk) + 1
      /\ \A i \in 1 .. Len(pk) : Append(pk, p)[i] = pk[i]
      /\ Append(pk, p)[Len(pk) + 1] = p
  OBVIOUS
<1>0. AskedBy(pk, a) = Cardinality(old) /\ AskedBy(Append(pk, p), a) = Cardinality(new)
  BY DEF AskedBy
<1>2. IsFiniteSet(old) /\ Cardinality(old) \in Nat
  BY <1>0, AskedByNat
<1>3. CASE p.from = a
  <2>1. new = old \cup {Len(pk) + 1}
    BY <1>1, <1>3
  <2>2. Len(pk) + 1 \notin old
    BY <1>1
  <2>3. Cardinality(new) = Cardinality(old) + 1
    BY <1>2, <2>1, <2>2, FS_AddElement
  <2>4. QED
    BY <1>0, <1>2, <1>3, <2>3
<1>4. CASE p.from # a
  <2>1. new = old
    BY <1>1, <1>4
  <2>2. Cardinality(new) = Cardinality(old)
    BY <2>1
  <2> HIDE DEF old, new
  <2>3. QED
    BY <1>0, <1>2, <1>4, <2>2
<1>5. QED
  BY <1>3, <1>4

(* What FieldsOK and the assumptions on the constants say of the fields.      *)
LEMMA Types ==
    ASSUME FieldsOK
    PROVE  /\ config \in Config /\ NoRepeats(config.rounds)
           /\ config.rounds \in Seq(Agents) /\ Len(config.rounds) \in Nat
           /\ config.total \in Nat \ {0}
           /\ quota.global \in Nat
           /\ \A a \in Agents : /\ quota.agent[a] \in Nat
                                /\ AgentLimit(config, a) \in Nat \ {0}
           /\ \A a \in Tech : a \in Agents
<1>1. config \in Config /\ NoRepeats(config.rounds)
  BY InterviewConfigsAssumption DEF FieldsOK
<1>2. config.rounds \in Seq(Agents) /\ config.total \in Nat \ {0}
  BY <1>1 DEF Config
<1>3. quota.global \in Nat /\ \A a \in Agents : quota.agent[a] \in Nat
  BY DEF FieldsOK, QuotaType
<1>4. \A a \in Agents : AgentLimit(config, a) \in Nat \ {0}
  BY <1>1, LimitsPositive
<1>5. QED
  BY <1>1, <1>2, <1>3, <1>4, TechAssumption

(* Recovery rebuilds the manager in every state of the invariant.           *)
LEMMA MeteringRestores == FieldsOK /\ Metering => RestartInvisible
<1> SUFFICES ASSUME FieldsOK, Metering PROVE RestartInvisible
  OBVIOUS
<1>1. /\ config \in Config /\ turn \in Nat /\ quota \in QuotaType
      /\ roundTurns \in [Agents -> Nat]
  BY Types DEF FieldsOK
<1>2. ASSUME \A a \in Agents : quota.agent[a] = AgentLimit(config, a), NEW b \in Agents
      PROVE  roundTurns[b] = 0
  <2>1. roundTurns[b] + quota.agent[b] <= AgentLimit(config, b)
    BY DEF Metering
  <2>2. roundTurns[b] \in Nat /\ quota.agent[b] \in Nat /\ quota.agent[b] = AgentLimit(config, b)
    BY <1>1, <1>2, Types
  <2>3. QED
    BY <2>1, <2>2
<1>3. Restore(config, turn, Persist(config, quota), roundTurns) = quota
  BY <1>1, <1>2, RestoreAfterPersist DEF Metering
<1>4. QED
  BY <1>3 DEF RestartInvisible, Metering

----------------------------------------------------------------------------
LEMMA InitIInv == Init => IInv
<1> SUFFICES ASSUME Init PROVE IInv
  OBVIOUS
<1>1. config \in Config /\ config.total \in Nat /\ turn = 0
  BY InterviewConfigsAssumption DEF Init, Config
<1>2. \A a \in Agents : /\ AgentLimit(config, a) \in Nat
                        /\ \A s \in Stages : StageLimit(config, a, s) \in Nat
  BY <1>1, LimitsPositive
<1>3. /\ quota.global = config.total
      /\ quota.agent = [a \in Agents |-> AgentLimit(config, a)]
      /\ quota.stage = [a \in Agents |-> [s \in Stages |-> StageLimit(config, a, s)]]
      /\ quota = [global |-> quota.global, agent |-> quota.agent, stage |-> quota.stage]
  BY DEF Init, FullQuota
<1>4. quota \in QuotaType
  BY <1>1, <1>2, <1>3 DEF QuotaType
<1>5. used \in UsedType
  BY DEF Init, NothingUsed, UsedType
<1>6. FieldsOK
  <2>1. stages \in [Tech -> Progress]
    BY DEF Init, Fresh, Progress, Stages
  <2>2. packages \in Seq(Package) /\ reply \in Replies
    BY DEF Init, Replies
  <2>3. roundTurns \in [Agents -> Nat]
    BY DEF Init
  <2>4. status \in {"ongoing", "finished"}
    BY DEF Init
  <2>5. config \in Configs /\ agent = NoAgent /\ task = NoTask
    BY DEF Init
  <2>6. QED
    BY <1>1, <1>4, <1>5, <2>1, <2>2, <2>3, <2>4, <2>5 DEF FieldsOK
<1>7. Metering
  <2>1. quota.global = NonNeg(config.total - turn)
    BY <1>1, <1>3 DEF NonNeg
  <2>2. Within(config, quota)
    <3>1. ASSUME NEW a \in Agents
          PROVE  /\ quota.agent[a] <= AgentLimit(config, a)
                 /\ \A s \in Stages : quota.stage[a][s] <= StageLimit(config, a, s)
      <4>1. quota.agent[a] = AgentLimit(config, a) /\ AgentLimit(config, a) \in Nat
        BY <1>2, <1>3
      <4>2. \A s \in Stages : /\ quota.stage[a][s] = StageLimit(config, a, s)
                              /\ StageLimit(config, a, s) \in Nat
        BY <1>2, <1>3
      <4>3. QED
        BY <4>1, <4>2
    <3>2. QED
      BY <3>1 DEF Within
  <2>3. used = Persist(config, quota)
    <3>1. ASSUME NEW a \in Agents
          PROVE  /\ AgentLimit(config, a) - quota.agent[a] = 0
                 /\ \A s \in Stages : StageLimit(config, a, s) - quota.stage[a][s] = 0
      <4>1. quota.agent[a] = AgentLimit(config, a) /\ AgentLimit(config, a) \in Nat
        BY <1>2, <1>3
      <4>2. \A s \in Stages : /\ quota.stage[a][s] = StageLimit(config, a, s)
                              /\ StageLimit(config, a, s) \in Nat
        BY <1>2, <1>3
      <4>3. QED
        BY <4>1, <4>2
    <3>2. [a \in Agents |-> AgentLimit(config, a) - quota.agent[a]] = [a \in Agents |-> 0]
      BY <3>1
    <3>3. \A a \in Agents :
            [s \in Stages |-> StageLimit(config, a, s) - quota.stage[a][s]] = [s \in Stages |-> 0]
      BY <3>1
    <3>4. [a \in Agents |-> [s \in Stages |-> StageLimit(config, a, s) - quota.stage[a][s]]]
            = [a \in Agents |-> [s \in Stages |-> 0]]
      BY <3>3
    <3>5. QED
      BY <3>2, <3>4 DEF Init, NothingUsed, Persist
  <2>4. ASSUME NEW a \in Agents
        PROVE  roundTurns[a] + quota.agent[a] <= AgentLimit(config, a)
    <3>1. quota.agent[a] = AgentLimit(config, a) /\ AgentLimit(config, a) \in Nat
      BY <1>2, <1>3
    <3>2. roundTurns[a] = 0
      BY DEF Init
    <3>3. QED
      BY <3>1, <3>2
  <2>5. QED
    BY <2>1, <2>2, <2>3, <2>4 DEF Metering
<1>8. Floor
  BY <1>1 DEF Floor, Init
<1>9. Visits /\ VisitOrder
  BY DEF Visits, VisitOrder, Init
<1>10. QuestionsMetered
  <2>1. ASSUME NEW a \in Agents
        PROVE  AskedBy(packages, a) = 0 /\ used.agent[a] = 0
    <3>1. {i \in 1 .. Len(packages) : packages[i].from = a} = {}
      BY DEF Init
    <3>2. QED
      BY <3>1, FS_EmptySet DEF AskedBy, Init, NothingUsed
  <2>2. ASSUME NEW a \in Agents
        PROVE  AskedBy(packages, a)
                 <= used.agent[a] + IF Rounds # << >> /\ a # Rounds[1] THEN 1 ELSE 0
    BY <2>1
  <2>3. QED
    BY <2>2 DEF QuestionsMetered, QuestionsOf
<1>11. QED
  BY <1>6, <1>7, <1>8, <1>9, <1>10 DEF IInv

----------------------------------------------------------------------------
(* The interviewer whose turn it is: one of the enabled rounds, the first   *)
(* one when the interview has not started.                                  *)
LEMMA CurrentPlaced ==
    ASSUME Grounds, Rounds # << >>
    PROVE  /\ Current \in Agents
           /\ Position(Current) \in 1 .. Len(Rounds)
           /\ Rounds[Position(Current)] = Current
           /\ agent = NoAgent => Position(Current) = 1
           /\ agent # NoAgent => Current = agent
           /\ CurrentStage \in Stages \cup {NoStage}
<1>1. Rounds \in Seq(Agents) /\ Len(Rounds) \in Nat /\ NoRepeats(Rounds)
  BY Types DEF Grounds, Rounds
<1>2. Len(Rounds) >= 1
  BY <1>1
<1>3. \E i \in 1 .. Len(Rounds) : Rounds[i] = Current /\ (agent = NoAgent => i = 1)
  <2>1. CASE agent = NoAgent
    BY <1>1, <1>2, <2>1 DEF Current
  <2>2. CASE agent # NoAgent
    BY <2>2 DEF Current, Grounds, Floor, Rounds
  <2>3. QED
    BY <2>1, <2>2
<1>4. PICK i \in 1 .. Len(Rounds) : Rounds[i] = Current /\ (agent = NoAgent => i = 1)
  BY <1>3
<1>5. Position(Current) = i
  BY <1>1, <1>4, IndexUnique DEF Position
<1>6. Current \in Agents
  BY <1>1, <1>4
<1>7. CurrentStage \in Stages \cup {NoStage}
  BY <1>6 DEF CurrentStage, Grounds, FieldsOK, Progress
<1>8. QED
  BY <1>4, <1>5, <1>6, <1>7 DEF Current

LEMMA CurrentHolds ==
    ASSUME IInv, Rounds # << >>
    PROVE  /\ Current \in Agents
           /\ Position(Current) \in 1 .. Len(Rounds)
           /\ Rounds[Position(Current)] = Current
           /\ agent = NoAgent => Position(Current) = 1
           /\ agent # NoAgent => Current = agent
           /\ CurrentStage \in Stages \cup {NoStage}
BY CurrentPlaced DEF IInv, Grounds

(* A metered turn keeps the accounts.                                       *)
LEMMA TurnMetered ==
    ASSUME Grounds, Metered
    PROVE  /\ turn' = turn + 1 /\ config' = config /\ Rounds # << >>
           /\ quota' \in QuotaType /\ used' \in UsedType
           /\ roundTurns' \in [Agents -> Nat]
           /\ Metering'
           /\ quota'.global = NonNeg(quota.global - 1)
           /\ quota'.agent = [quota.agent EXCEPT ![Current] = NonNeg(quota.agent[Current] - 1)]
<1>0. /\ turn' = turn + 1 /\ config' = config /\ Rounds # << >>
      /\ quota' = Spent /\ used' = Persist(config, quota')
      /\ roundTurns' = IF Normal THEN [roundTurns EXCEPT ![Current] = @ + 1] ELSE roundTurns
  BY DEF Metered
<1>1. /\ Current \in Agents
      /\ CurrentStage \in Stages \cup {NoStage}
  BY <1>0, CurrentPlaced
<1>2. /\ quota \in QuotaType /\ config \in Config /\ turn \in Nat
      /\ config.total \in Nat /\ quota.global \in Nat
      /\ roundTurns \in [Agents -> Nat]
  BY Types DEF Grounds, FieldsOK
<1>3. /\ quota' \in QuotaType
      /\ quota'.global = NonNeg(quota.global - 1)
      /\ quota'.agent = [quota.agent EXCEPT ![Current] = NonNeg(quota.agent[Current] - 1)]
      /\ \A b \in Agents : /\ quota'.agent[b] <= quota.agent[b]
                           /\ \A t \in Stages : quota'.stage[b][t] <= quota.stage[b][t]
  BY <1>0, <1>1, <1>2, ConsumeSpends DEF Spent
<1>4. roundTurns' \in [Agents -> Nat]
  BY <1>0, <1>1, <1>2
<1>5. /\ quota.global = NonNeg(config.total - turn)
      /\ Within(config, quota)
      /\ \A a \in Agents : roundTurns[a] + quota.agent[a] <= AgentLimit(config, a)
  BY DEF Grounds, Metering
<1>6. ASSUME NEW a \in Agents
      PROVE  /\ quota.agent[a] \in Nat /\ quota'.agent[a] \in Nat
             /\ roundTurns[a] \in Nat
             /\ AgentLimit(config, a) \in Nat
  BY <1>2, <1>3, LimitsPositive DEF QuotaType
<1>7. Within(config, quota')
  <2>1. ASSUME NEW a \in Agents
        PROVE  quota'.agent[a] <= AgentLimit(config, a)
    <3>1. quota'.agent[a] <= quota.agent[a] /\ quota.agent[a] <= AgentLimit(config, a)
      BY <1>3, <1>5 DEF Within
    <3>2. QED
      BY <3>1, <1>6
  <2>2. ASSUME NEW a \in Agents, NEW t \in Stages
        PROVE  quota'.stage[a][t] <= StageLimit(config, a, t)
    <3>1. quota'.stage[a][t] <= quota.stage[a][t] /\ quota.stage[a][t] <= StageLimit(config, a, t)
      BY <1>3, <1>5 DEF Within
    <3>2. quota'.stage[a][t] \in Nat /\ quota.stage[a][t] \in Nat
      BY <1>2, <1>3 DEF QuotaType
    <3>3. StageLimit(config, a, t) \in Nat
      BY <1>2, LimitsPositive
    <3>4. QED
      BY <3>1, <3>2, <3>3
  <2>3. QED
    BY <2>1, <2>2 DEF Within
<1>8. quota'.global = NonNeg(config.total - turn')
  BY <1>0, <1>2, <1>3, <1>5 DEF NonNeg
<1>9. ASSUME NEW a \in Agents
      PROVE  roundTurns'[a] + quota'.agent[a] <= AgentLimit(config, a)
  <2>1. CASE Normal /\ a = Current
    <3>1. quota.agent[Current] > 0
      BY <1>1, <1>6, <2>1 DEF Normal, Verdict, Check
    <3>2. quota'.agent[a] = quota.agent[a] - 1
      BY <1>1, <1>2, <1>3, <1>6, <2>1, <3>1 DEF NonNeg, QuotaType
    <3>3. roundTurns'[a] = roundTurns[a] + 1
      BY <1>0, <1>1, <1>2, <2>1
    <3>4. QED
      BY <3>2, <3>3, <1>5, <1>6
  <2>2. CASE ~(Normal /\ a = Current)
    <3>1. roundTurns'[a] = roundTurns[a]
      BY <1>0, <1>1, <1>2, <2>2
    <3>2. quota'.agent[a] <= quota.agent[a] /\ roundTurns[a] + quota.agent[a] <= AgentLimit(config, a)
      BY <1>3, <1>5
    <3>3. QED
      BY <3>1, <3>2, <1>6
  <2>3. QED
    BY <2>1, <2>2
<1>10. Metering'
  BY <1>0, <1>7, <1>8, <1>9 DEF Metering
<1>11. used' \in UsedType
  <2> DEFINE none == [a \in Agents |-> 0]
  <2>1. none \in [Agents -> Nat] /\ \A a \in Agents : none[a] = 0
    OBVIOUS
  <2>2. turn' \in Nat /\ config \in Config
    BY <1>0, <1>2
  <2> HIDE DEF none
  <2>3. Persist(config, quota') \in UsedType
    BY <1>3, <1>7, <1>8, <2>1, <2>2, RestoreAfterPersist
  <2>4. QED
    BY <1>0, <2>3
<1>12. QED
  BY <1>0, <1>3, <1>4, <1>10, <1>11

LEMMA MeteredKeeps ==
    ASSUME IInv, Metered
    PROVE  /\ turn' = turn + 1 /\ config' = config /\ Rounds # << >>
           /\ quota' \in QuotaType /\ used' \in UsedType
           /\ roundTurns' \in [Agents -> Nat]
           /\ Metering'
           /\ quota'.global = NonNeg(quota.global - 1)
           /\ quota'.agent = [quota.agent EXCEPT ![Current] = NonNeg(quota.agent[Current] - 1)]
BY TurnMetered DEF IInv, Grounds

----------------------------------------------------------------------------
(* The shape of a step that asks: it happens only in a running interview    *)
(* with turns left; the one who asks is the current interviewer, who pays   *)
(* for the question, or the next one when the current one has nothing left. *)
Asking == SwitchAgent \/ AdvanceStage \/ StartRound \/ ContinueStage \/ StreamTurn

Successor == config.rounds[IndexIn(config.rounds, Current) + 1]

Question(a) == [from |-> a, to |-> Announced(a), round |-> turn']

(* What one interviewer's question does, streamed or not.                   *)
Speaks(a) ==
    /\ agent' = a /\ status' = status
    /\ packages' = packages \/ packages' = Append(packages, Question(a))
    /\ reply' \in Replies
    /\ stages' \in [Tech -> Progress] /\ task' \in Tech \cup {NoTask}

LEMMA AskSpeaks ==
    ASSUME FieldsOK, NEW a \in Agents, NEW st \in [Tech -> Progress], Ask(a, st)
    PROVE  Speaks(a)
<1>1. task \in Tech \cup {NoTask}
  BY DEF FieldsOK
<1>2. /\ agent' = a /\ status' = status
      /\ packages' = packages \/ packages' = Append(packages, Question(a))
      /\ reply' \in Replies
  BY <1>1 DEF Ask, Question, Replies
<1>3. stages' \in [Tech -> Progress] /\ task' \in Tech \cup {NoTask}
  <2>1. CASE a \in Tech
    <3>1. Asked(a, st[a]) \in Progress
      <4>1. st[a] \in Progress
        BY <2>1
      <4>2. QED
        BY <4>1 DEF Asked, Advanced, NextStage, Stages, Progress
    <3>2. Prepared(a, st[a]) \in Tech \cup {NoTask}
      BY <2>1, <1>1 DEF Prepared
    <3>3. QED
      BY <2>1, <3>1, <3>2 DEF Ask
  <2>2. CASE a \notin Tech
    BY <1>1, <2>2 DEF Ask
  <2>3. QED
    BY <2>1, <2>2
<1>4. QED
  BY <1>2, <1>3 DEF Speaks

LEMMA AskShape ==
    ASSUME IInv, Asking
    PROVE  /\ Metered
           /\ status = "ongoing" /\ status' = "ongoing"
           /\ quota.global > 0
           /\ \/ agent' = Current /\ quota.agent[Current] > 0
              \/ /\ Position(Current) < Len(Rounds)
                 /\ agent' = Successor
                 /\ quota'.agent[Current] = 0
           /\ \/ packages' = packages
              \/ packages' = Append(packages, Question(agent'))
           /\ reply' \in Replies
           /\ stages' \in [Tech -> Progress] /\ task' \in Tech \cup {NoTask}
<1>1. Metered
  BY DEF Asking, SwitchAgent, AdvanceStage, StartRound, ContinueStage, StreamTurn
<1>2. /\ Current \in Agents
      /\ Position(Current) \in 1 .. Len(Rounds)
      /\ agent # NoAgent => Current = agent
      /\ CurrentStage \in Stages \cup {NoStage}
      /\ Rounds # << >>
  BY <1>1, CurrentHolds DEF Metered
<1>3. quota.global \in Nat /\ quota.agent[Current] \in Nat
  BY <1>2, Types DEF IInv
<1>4. /\ quota' = Spent /\ config' = config /\ quota' \in QuotaType
      /\ quota'.agent[Current] = NonNeg(quota.agent[Current] - 1)
  <2>1. quota.agent \in [Agents -> Nat]
    BY DEF IInv, FieldsOK, QuotaType
  <2>2. QED
    BY <1>1, <1>2, <2>1, MeteredKeeps DEF Metered
<1>5. /\ stages \in [Tech -> Progress] /\ task \in Tech \cup {NoTask}
      /\ status \in {"ongoing", "finished"}
  BY DEF IInv, FieldsOK
<1>6. quota.global > 0
  BY <1>3 DEF Asking, SwitchAgent, AdvanceStage, StartRound, ContinueStage, StreamTurn,
              Leaves, AgentSpent, RoundComplete, Normal, StageExpired, Verdict, Check
<1>7. \/ SwitchAgent
      \/ (AdvanceStage \/ StartRound \/ ContinueStage \/ StreamTurn) /\ quota.agent[Current] > 0
  BY <1>3 DEF Asking, AdvanceStage, StartRound, ContinueStage, StreamTurn,
              RoundComplete, Normal, StageExpired, Verdict, Check
<1>8. SwitchAgent => /\ Position(Current) < Len(Rounds)
                     /\ quota'.agent[Current] = 0
  <2>1. SUFFICES ASSUME SwitchAgent
                 PROVE  Position(Current) < Len(Rounds) /\ quota'.agent[Current] = 0
    OBVIOUS
  <2>2. Position(Current) < Len(Rounds)
    BY <2>1, <1>2, Types DEF SwitchAgent, LastRound, IInv, Rounds
  <2>3. Spent.agent[Current] <= 0 \/ quota.agent[Current] <= 0
    BY <2>1 DEF SwitchAgent, Leaves, AgentSpent, Verdict, Check
  <2>4. quota'.agent[Current] \in Nat
    BY <1>2, <1>4 DEF QuotaType
  <2>5. QED
    BY <2>2, <2>3, <2>4, <1>3, <1>4 DEF NonNeg
<1>9. status = "ongoing"
  <2>1. SUFFICES ASSUME Over PROVE FALSE
    BY <1>5 DEF IInv, Floor
  <2>2. agent # NoAgent /\ Position(Current) = Len(Rounds) /\ quota.agent[Current] = 0
    BY <2>1, <1>2, <1>6 DEF Over, Position, Rounds
  <2>3. QED
    BY <2>2, <1>2, <1>7, <1>8, Types DEF IInv, Rounds
<1>10. \A p \in Progress : Advanced(p) \in Progress
  BY DEF Advanced, Progress, Stages, NextStage
<1>11. Fresh \in Progress
  BY DEF Fresh, Progress, Stages
<1>12. StagesNow \in [Tech -> Progress]
  BY <1>5, <1>10 DEF StagesNow
<1>13. \E a \in Agents : /\ Speaks(a)
                         /\ a = Current \/ (SwitchAgent /\ a = Successor)
                         /\ SwitchAgent => a = Successor
  <2>1. CASE SwitchAgent
    <3>1. Successor \in Agents
      <4>1. config.rounds \in Seq(Agents)
        BY Types DEF IInv
      <4>2. QED
        BY <1>2, <1>8, <2>1, <4>1 DEF Successor, Position, Rounds
    <3> DEFINE st == IF Successor \in Tech THEN [StagesNow EXCEPT ![Successor] = Fresh]
                                           ELSE StagesNow
    <3>2. Ask(Successor, st)
      BY <2>1 DEF SwitchAgent, Successor, Position, Rounds
    <3>3. st \in [Tech -> Progress]
      BY <1>11, <1>12
    <3> HIDE DEF st
    <3>4. Speaks(Successor)
      BY <3>1, <3>2, <3>3, AskSpeaks DEF IInv
    <3>5. QED
      BY <3>1, <3>4, <2>1
  <2>2. CASE ~SwitchAgent
    <3>1. [stages EXCEPT ![Current] = Fresh] \in [Tech -> Progress]
      BY <1>5, <1>11
    <3>2. (\E st \in [Tech -> Progress] : Ask(Current, st)) \/ StreamedInPart
      BY <2>2, <3>1, <1>5, <1>7, <1>12 DEF AdvanceStage, StartRound, ContinueStage, StreamTurn
    <3>3. Speaks(Current)
      <4>1. CASE StreamedInPart
        BY <4>1, <1>5 DEF StreamedInPart, Speaks, Replies
      <4>2. CASE \E st \in [Tech -> Progress] : Ask(Current, st)
        BY <4>2, <1>2, AskSpeaks DEF IInv
      <4>3. QED
        BY <3>2, <4>1, <4>2
    <3>4. QED
      BY <2>2, <3>3, <1>2
  <2>3. QED
    BY <2>1, <2>2
<1>14. PICK a \in Agents : /\ Speaks(a)
                           /\ a = Current \/ (SwitchAgent /\ a = Successor)
                           /\ SwitchAgent => a = Successor
  BY <1>13
<1>15. Speaks(a) /\ a \in Agents
  BY <1>14
<1>16. agent' = a
  BY <1>15 DEF Speaks
<1>17. \/ agent' = Current /\ quota.agent[Current] > 0
       \/ /\ Position(Current) < Len(Rounds)
          /\ agent' = Successor
          /\ quota'.agent[Current] = 0
  BY <1>7, <1>8, <1>14, <1>16
<1>18. QED
  BY <1>1, <1>6, <1>9, <1>15, <1>16, <1>17 DEF Speaks

(* Where the asker stands in the configured order.                          *)
LEMMA AskerPlace ==
    ASSUME IInv, Asking
    PROVE  /\ config' = config
           /\ agent' \in Agents /\ agent' # NoAgent
           /\ IndexIn(config.rounds, agent') \in 1 .. Len(config.rounds)
           /\ config.rounds[IndexIn(config.rounds, agent')] = agent'
           /\ \/ agent' = Current
              \/ IndexIn(config.rounds, agent') = IndexIn(config.rounds, Current) + 1
           /\ IndexIn(config.rounds, Current) \in 1 .. Len(config.rounds)
           /\ \A i \in 1 .. Len(packages) :
                 IndexIn(config.rounds, packages[i].from) <= IndexIn(config.rounds, Current)
<1> DEFINE P == IndexIn(config.rounds, Current)
<1>1. Metered /\ Rounds # << >> /\ config' = config
  BY AskShape DEF Metered
<1>2. /\ Current \in Agents
      /\ P \in 1 .. Len(config.rounds)
      /\ config.rounds[P] = Current
      /\ agent # NoAgent => Current = agent
  BY <1>1, CurrentHolds DEF Position, Rounds
<1>3. /\ config.rounds \in Seq(Agents) /\ Len(config.rounds) \in Nat
      /\ NoRepeats(config.rounds)
  BY Types DEF IInv
<1>4. \/ agent' = Current
      \/ P < Len(config.rounds) /\ agent' = config.rounds[P + 1]
  BY AskShape DEF Position, Rounds, Successor
<1>5. /\ agent' \in Agents
      /\ IndexIn(config.rounds, agent') \in 1 .. Len(config.rounds)
      /\ config.rounds[IndexIn(config.rounds, agent')] = agent'
      /\ agent' = Current \/ IndexIn(config.rounds, agent') = P + 1
  <2>1. CASE agent' = Current
    BY <2>1, <1>2
  <2>2. CASE P < Len(config.rounds) /\ agent' = config.rounds[P + 1]
    <3>1. P + 1 \in 1 .. Len(config.rounds)
      BY <2>2, <1>2, <1>3
    <3>2. IndexIn(config.rounds, agent') = P + 1
      BY <2>2, <3>1, <1>3, IndexUnique
    <3>3. agent' \in Agents
      BY <2>2, <3>1, <1>3
    <3>4. QED
      BY <2>2, <3>1, <3>2, <3>3
  <2>3. QED
    BY <1>4, <2>1, <2>2
<1>6. agent' # NoAgent
  BY <1>5, DistinctAssumption
<1>7. \A i \in 1 .. Len(packages) : IndexIn(config.rounds, packages[i].from) <= P
  <2>1. CASE agent = NoAgent
    BY <2>1 DEF IInv, Floor
  <2>2. CASE agent # NoAgent
    BY <2>2, <1>2 DEF IInv, Visits
  <2>3. QED
    BY <2>1, <2>2
<1>8. QED
  BY <1>1, <1>2, <1>5, <1>6, <1>7

LEMMA AskTypes == IInv /\ Asking => FieldsOK' /\ (packages' # packages => Question(agent') \in Package)
<1> SUFFICES ASSUME IInv, Asking
             PROVE  FieldsOK' /\ (packages' # packages => Question(agent') \in Package)
  OBVIOUS
<1>1. /\ Metered /\ status' = "ongoing"
      /\ packages' = packages \/ packages' = Append(packages, Question(agent'))
      /\ reply' \in Replies
      /\ stages' \in [Tech -> Progress] /\ task' \in Tech \cup {NoTask}
  BY AskShape
<1>2. /\ quota' \in QuotaType /\ used' \in UsedType
      /\ roundTurns' \in [Agents -> Nat]
      /\ turn' = turn + 1
  BY <1>1, MeteredKeeps
<1>3. config' \in Configs /\ turn' \in Nat /\ packages \in Seq(Package)
  BY <1>2, AskerPlace DEF IInv, FieldsOK
<1>4. Question(agent') \in Package
  <2>1. /\ agent' \in Agents
        /\ IndexIn(config.rounds, agent') \in 1 .. Len(config.rounds)
    BY AskerPlace
  <2>2. config.rounds \in Seq(Agents) /\ Len(config.rounds) \in Nat
    BY Types DEF IInv
  <2>3. Announced(agent') \in Agents \cup {Scribe}
    BY <2>1, <2>2 DEF Announced, Peek, Position, Rounds
  <2>4. QED
    BY <2>1, <2>3, <1>3 DEF Question, Package
<1>5. packages' \in Seq(Package)
  BY <1>1, <1>3, <1>4
<1>6. agent' \in Agents
  BY AskerPlace
<1>7. QED
  BY <1>1, <1>2, <1>3, <1>4, <1>5, <1>6 DEF FieldsOK

(* The accounts in terms of what is left: a state's consumption is its      *)
(* limit less its remaining quota.                                          *)
LEMMA UsedIsSpent ==
    ASSUME Metering, NEW a \in Agents
    PROVE  used.agent[a] = AgentLimit(config, a) - quota.agent[a]
BY DEF Metering, Persist

LEMMA AskPaid == IInv /\ Asking => QuestionsMetered'
<1> SUFFICES ASSUME IInv, Asking PROVE QuestionsMetered'
  OBVIOUS
<1>1. /\ Metered
      /\ \/ agent' = Current /\ quota.agent[Current] > 0
         \/ Position(Current) < Len(Rounds) /\ agent' = Successor
      /\ packages' = packages \/ packages' = Append(packages, Question(agent'))
  BY AskShape
<1>2. /\ config' = config /\ Metering' /\ quota' \in QuotaType
      /\ quota'.agent = [quota.agent EXCEPT ![Current] = NonNeg(quota.agent[Current] - 1)]
  BY <1>1, MeteredKeeps
<1>3. packages \in Seq(Package) /\ quota.agent \in [Agents -> Nat] /\ config \in Config
  BY Types DEF IInv, FieldsOK, QuotaType
<1>4. packages' # packages => Question(agent') \in Package
  BY AskTypes
<1> DEFINE Free(a) == IF config.rounds # << >> /\ a # config.rounds[1] THEN 1 ELSE 0
<1>5. ASSUME NEW a \in Agents
      PROVE  AskedBy(packages', a) <= used'.agent[a] + Free(a)
  <2>1. /\ used.agent[a] = AgentLimit(config, a) - quota.agent[a]
        /\ used'.agent[a] = AgentLimit(config, a) - quota'.agent[a]
    <3>1. used.agent[a] = AgentLimit(config, a) - quota.agent[a]
      BY UsedIsSpent DEF IInv
    <3>2. used' = Persist(config, quota')
      BY <1>2 DEF Metering
    <3>3. QED
      BY <3>1, <3>2 DEF Persist
  <2>2. /\ quota.agent[a] \in Nat /\ quota'.agent[a] \in Nat
        /\ AgentLimit(config, a) \in Nat
        /\ quota.agent[a] <= AgentLimit(config, a)
        /\ quota'.agent[a] <= quota.agent[a]
    <3>1. quota.agent[a] \in Nat /\ AgentLimit(config, a) \in Nat
      BY <1>3, LimitsPositive
    <3>2. quota.agent[a] <= AgentLimit(config, a)
      BY DEF IInv, Metering, Within
    <3>3. quota'.agent[a] \in Nat /\ quota'.agent[a] <= quota.agent[a]
      BY <1>2, <1>3, <3>1 DEF NonNeg
    <3>4. QED
      BY <3>1, <3>2, <3>3
  <2>3. AskedBy(packages, a) <= used.agent[a] + Free(a)
    BY DEF IInv, QuestionsMetered, QuestionsOf, Rounds
  <2>4. Free(a) \in {0, 1}
    OBVIOUS
  <2>5. CASE packages' = packages
    <3>1. AskedBy(packages, a) \in Nat
      BY <1>3, AskedByNat
    <3> HIDE DEF Free
    <3>2. AskedBy(packages', a) = AskedBy(packages, a)
      BY <2>5
    <3>3. QED
      BY <3>1, <3>2, <2>1, <2>2, <2>3, <2>4
  <2>6. CASE packages' = Append(packages, Question(agent')) /\ packages' # packages
    <3>1. /\ AskedBy(packages, a) \in Nat
          /\ AskedBy(packages', a)
               = AskedBy(packages, a) + IF agent' = a THEN 1 ELSE 0
      <4>1. Question(agent').from = agent'
        BY DEF Question
      <4>2. QED
        BY <4>1, <2>6, <1>3, <1>4, AskedByAppend
    <3>2. CASE agent' # a
      <4> HIDE DEF Free
      <4>1. QED
        BY <3>1, <3>2, <2>1, <2>2, <2>3, <2>4
    <3>3. CASE agent' = a /\ agent' = Current /\ quota.agent[Current] > 0
      <4>1. quota'.agent[a] = quota.agent[a] - 1
        BY <3>3, <1>2, <1>3, <2>2 DEF NonNeg
      <4> HIDE DEF Free
      <4>2. QED
        BY <4>1, <3>1, <3>3, <2>1, <2>2, <2>3, <2>4
    <3>4. CASE agent' = a /\ Position(Current) < Len(Rounds) /\ agent' = Successor
      <4>1. /\ IndexIn(config.rounds, Current) \in 1 .. Len(config.rounds)
            /\ Len(config.rounds) \in Nat /\ NoRepeats(config.rounds)
            /\ \A i \in 1 .. Len(packages) :
                 IndexIn(config.rounds, packages[i].from) <= IndexIn(config.rounds, Current)
        BY AskerPlace, Types DEF IInv
      <4>2. /\ IndexIn(config.rounds, Current) + 1 \in 1 .. Len(config.rounds)
            /\ config.rounds[IndexIn(config.rounds, Current) + 1] = a
        BY <4>1, <3>4 DEF Successor, Position, Rounds
      <4>3. IndexIn(config.rounds, a) = IndexIn(config.rounds, Current) + 1
        BY <4>1, <4>2, IndexUnique
      <4>4. \A i \in 1 .. Len(packages) : packages[i].from # a
        BY <4>1, <4>3
      <4>5. AskedBy(packages, a) = 0
        <5>1. {i \in 1 .. Len(packages) : packages[i].from = a} = {}
          BY <4>4
        <5>2. QED
          BY <5>1, FS_EmptySet DEF AskedBy
      <4>6. Free(a) = 1
        <5>1. 1 \in 1 .. Len(config.rounds) /\ config.rounds # << >>
          BY <4>1
        <5>2. a # config.rounds[1]
          BY <5>1, <4>1, <4>3, IndexUnique
        <5>3. QED
          BY <5>1, <5>2
      <4> HIDE DEF Free
      <4>7. QED
        BY <3>1, <3>4, <4>5, <4>6, <2>1, <2>2
    <3>5. QED
      BY <3>2, <3>3, <3>4, <1>1
  <2>7. QED
    BY <1>1, <2>5, <2>6
<1>6. QED
  BY <1>2, <1>5 DEF QuestionsMetered, QuestionsOf, Rounds

LEMMA AskIInv == IInv /\ Asking => IInv'
<1> SUFFICES ASSUME IInv, Asking PROVE IInv'
  OBVIOUS
<1> DEFINE P == IndexIn(config.rounds, Current)
           Q == IndexIn(config.rounds, agent')
<1>1. /\ Metered /\ status' = "ongoing" /\ quota.global > 0
      /\ packages' = packages \/ packages' = Append(packages, Question(agent'))
  BY AskShape
<1>2. /\ config' = config /\ turn' = turn + 1
      /\ Metering'
  BY <1>1, MeteredKeeps
<1>3. /\ agent' \in Agents /\ agent' # NoAgent
      /\ Q \in 1 .. Len(config.rounds) /\ config.rounds[Q] = agent'
      /\ P \in 1 .. Len(config.rounds)
      /\ P <= Q
      /\ \A i \in 1 .. Len(packages) :
             /\ IndexIn(config.rounds, packages[i].from) <= P
             /\ IndexIn(config.rounds, packages[i].from) <= Q
  <2>1. /\ agent' \in Agents /\ agent' # NoAgent
        /\ Q \in 1 .. Len(config.rounds) /\ config.rounds[Q] = agent'
        /\ agent' = Current \/ Q = P + 1
        /\ P \in 1 .. Len(config.rounds)
        /\ \A i \in 1 .. Len(packages) : IndexIn(config.rounds, packages[i].from) <= P
    BY AskerPlace
  <2>2. P <= Q
    BY <2>1
  <2>3. ASSUME NEW i \in 1 .. Len(packages)
        PROVE  IndexIn(config.rounds, packages[i].from) <= Q
    <3>1. PICK k \in 1 .. Len(config.rounds) : config.rounds[k] = packages[i].from
      BY DEF IInv, Visits
    <3>2. IndexIn(config.rounds, packages[i].from) = k
      BY <3>1, IndexUnique, Types DEF IInv
    <3>3. QED
      BY <2>1, <2>2, <3>2
  <2>4. QED
    BY <2>1, <2>2, <2>3
<1>4. FieldsOK' /\ (packages' # packages => Question(agent') \in Package)
  BY AskTypes
<1>5. packages \in Seq(Package) /\ Len(packages) \in Nat /\ turn \in Nat
  BY DEF IInv, FieldsOK
<1>6. turn' \in Nat /\ turn < turn' /\ turn' <= config.total
  <2>1. quota.global = NonNeg(config.total - turn) /\ config.total \in Nat
    BY Types DEF IInv, Metering
  <2>2. QED
    BY <2>1, <1>1, <1>2, <1>5 DEF NonNeg
<1>7. Floor'
  BY <1>1, <1>2, <1>3, <1>6 DEF Floor
<1>8. /\ \A i \in 1 .. Len(packages) : packages'[i] = packages[i]
      /\ \/ Len(packages') = Len(packages)
         \/ /\ Len(packages') = Len(packages) + 1
            /\ packages'[Len(packages')] = Question(agent')
  BY <1>1, <1>5
<1>9. /\ Question(agent').from = agent'
      /\ Question(agent').round = turn'
  BY DEF Question
<1>10. ASSUME NEW i \in 1 .. Len(packages)
       PROVE  /\ packages[i].round <= turn /\ packages[i].round <= config.total
              /\ packages[i].round < turn' /\ packages[i].round <= turn'
              /\ \E k \in 1 .. Len(config.rounds) : config.rounds[k] = packages[i].from
  <2>1. packages[i] \in Package
    BY <1>5
  <2>2. packages[i].round \in Nat
    BY <2>1 DEF Package
  <2>3. /\ packages[i].round <= turn /\ packages[i].round <= config.total
        /\ \E k \in 1 .. Len(config.rounds) : config.rounds[k] = packages[i].from
    BY DEF IInv, Visits
  <2>4. QED
    BY <2>2, <2>3, <1>5, <1>6
<1>11. Visits'
  <2>1. ASSUME NEW i \in 1 .. Len(packages')
        PROVE  /\ packages'[i].round <= turn'
               /\ packages'[i].round <= config.total
               /\ \E k \in 1 .. Len(config.rounds) : config.rounds[k] = packages'[i].from
               /\ IndexIn(config.rounds, packages'[i].from) <= Q
    <3>1. CASE i \in 1 .. Len(packages)
      BY <3>1, <1>3, <1>8, <1>10
    <3>2. CASE i \notin 1 .. Len(packages)
      <4>1. packages'[i] = Question(agent')
        BY <3>2, <1>5, <1>8
      <4>2. QED
        BY <4>1, <1>3, <1>6, <1>9
    <3>3. QED
      BY <3>1, <3>2
  <2>2. QED
    BY <2>1, <1>2 DEF Visits
<1>12. VisitOrder'
  <2>1. ASSUME NEW i \in 1 .. Len(packages'), NEW j \in 1 .. Len(packages'), i < j
        PROVE  /\ packages'[i].round < packages'[j].round
               /\ IndexIn(config.rounds, packages'[i].from)
                    <= IndexIn(config.rounds, packages'[j].from)
    <3>1. CASE j \in 1 .. Len(packages)
      <4>1. i \in 1 .. Len(packages)
        BY <2>1, <3>1, <1>5
      <4>2. QED
        BY <2>1, <3>1, <4>1, <1>8 DEF IInv, VisitOrder, Position, Rounds
    <3>2. CASE j \notin 1 .. Len(packages)
      <4>1. packages'[j] = Question(agent') /\ i \in 1 .. Len(packages)
        BY <2>1, <3>2, <1>5, <1>8
      <4>2. QED
        BY <4>1, <1>3, <1>8, <1>9, <1>10
    <3>3. QED
      BY <3>1, <3>2
  <2>2. QED
    BY <2>1, <1>2 DEF VisitOrder, Position, Rounds
<1>13. QuestionsMetered'
  BY AskPaid
<1>14. QED
  BY <1>2, <1>4, <1>7, <1>11, <1>12, <1>13 DEF IInv

----------------------------------------------------------------------------
(* The shape of a step that finishes, or is sent after the end: no question *)
(* is asked, and the reason for which the interview is over holds.          *)
Finishing == FinishEmpty \/ FinishSpent \/ FinishExhausted

LEMMA AdvancedType ==
    ASSUME NEW p \in Progress
    PROVE  Advanced(p) \in Progress
BY DEF Advanced, Progress, Stages, NextStage

LEMMA FinishConcludes ==
    ASSUME Grounds, Finishing
    PROVE  /\ status' = "finished" /\ reply' \in Replies /\ reply' # "question"
           /\ UNCHANGED <<config, packages, task>>
           /\ stages' \in [Tech -> Progress]
           /\ \/ Rounds = << >> /\ UNCHANGED <<agent, turn, quota, used, roundTurns>>
              \/ /\ Metered /\ agent' = Current
                 /\ \/ quota'.global = 0
                    \/ Position(Current) = Len(Rounds) /\ quota'.agent[Current] = 0
<1>1. stages \in [Tech -> Progress] /\ StagesNow \in [Tech -> Progress]
  BY AdvancedType DEF StagesNow, Grounds, FieldsOK
<1>2. CASE FinishEmpty
  BY <1>1, <1>2 DEF FinishEmpty, Report, Replies
<1>3. CASE FinishSpent
  <2>1. quota' = Spent /\ Metered
    BY <1>3 DEF FinishSpent, Metered
  <2>2. quota'.global <= 0 /\ quota'.global \in Nat
    BY <1>3, <2>1, TurnMetered DEF FinishSpent, InterviewSpent, QuotaType
  <2>3. quota'.global = 0
    BY <2>2
  <2>4. UNCHANGED config
    BY <2>1 DEF Metered
  <2>5. QED
    BY <1>1, <1>3, <2>1, <2>3, <2>4 DEF FinishSpent, Report, Replies
<1>4. CASE FinishExhausted
  <2>1. /\ quota' = Spent /\ Metered /\ quota' \in QuotaType
        /\ quota'.global = NonNeg(quota.global - 1)
        /\ quota'.agent = [quota.agent EXCEPT ![Current] = NonNeg(quota.agent[Current] - 1)]
    BY <1>4, TurnMetered DEF FinishExhausted, Metered
  <2>2. Current \in Agents
    BY <2>1, CurrentPlaced DEF Metered
  <2>3. /\ quota.global \in Nat /\ quota.agent[Current] \in Nat
        /\ quota.agent \in [Agents -> Nat]
        /\ quota'.agent[Current] \in Nat
    BY <2>1, <2>2 DEF Grounds, FieldsOK, QuotaType
  <2>4. \/ quota'.global = 0
        \/ Position(Current) = Len(Rounds) /\ quota'.agent[Current] = 0
    <3>1. CASE Verdict = "FINISH"
      <4>1. quota.global <= 0
        BY <3>1 DEF Verdict, Check
      <4>2. QED
        BY <4>1, <2>1, <2>3 DEF NonNeg
    <3>2. CASE Leaves /\ LastRound
      <4>1. Spent.agent[Current] <= 0 \/ quota.agent[Current] <= 0
        BY <3>2 DEF Leaves, AgentSpent, Verdict, Check
      <4>2. quota'.agent[Current] = 0
        BY <4>1, <2>1, <2>2, <2>3 DEF NonNeg
      <4>3. QED
        BY <3>2, <4>2 DEF LastRound
    <3>3. QED
      BY <1>4, <3>1, <3>2 DEF FinishExhausted
  <2>5. UNCHANGED config
    BY <2>1 DEF Metered
  <2>6. QED
    BY <1>1, <1>4, <2>1, <2>4, <2>5 DEF FinishExhausted, Report, Replies
<1>5. QED
  BY <1>2, <1>3, <1>4 DEF Finishing

LEMMA FinishShape ==
    ASSUME IInv, Finishing
    PROVE  /\ status' = "finished" /\ reply' \in Replies /\ reply' # "question"
           /\ UNCHANGED <<config, packages, task>>
           /\ stages' \in [Tech -> Progress]
           /\ \/ Rounds = << >> /\ UNCHANGED <<agent, turn, quota, used, roundTurns>>
              \/ /\ Metered /\ agent' = Current
                 /\ \/ quota'.global = 0
                    \/ Position(Current) = Len(Rounds) /\ quota'.agent[Current] = 0
BY FinishConcludes DEF IInv, Grounds

LEMMA FinishIInv == IInv /\ Finishing => IInv'
<1> SUFFICES ASSUME IInv, Finishing PROVE IInv'
  OBVIOUS
<1>1. /\ status' = "finished" /\ reply' \in Replies
      /\ UNCHANGED <<config, packages, task>>
      /\ stages' \in [Tech -> Progress]
  BY FinishShape
<1>2. CASE Rounds = << >> /\ UNCHANGED <<agent, turn, quota, used, roundTurns>>
  <2>1. FieldsOK'
    BY <1>1, <1>2 DEF IInv, FieldsOK
  <2>2. Metering'
    BY <1>1, <1>2 DEF IInv, Metering
  <2>3. Floor'
    BY <1>1, <1>2 DEF IInv, Floor, Over, Rounds, Position
  <2>4. Visits' /\ VisitOrder' /\ QuestionsMetered'
    BY <1>1, <1>2 DEF IInv, Visits, VisitOrder, Position, Rounds, QuestionsMetered, QuestionsOf
  <2>5. QED
    BY <2>1, <2>2, <2>3, <2>4 DEF IInv
<1>3. CASE /\ Metered /\ agent' = Current
           /\ \/ quota'.global = 0
              \/ Position(Current) = Len(Rounds) /\ quota'.agent[Current] = 0
  <2>1. /\ turn' = turn + 1 /\ Rounds # << >>
        /\ quota' \in QuotaType /\ used' \in UsedType
        /\ roundTurns' \in [Agents -> Nat]
        /\ Metering'
        /\ quota'.agent = [quota.agent EXCEPT ![Current] = NonNeg(quota.agent[Current] - 1)]
    BY <1>3, MeteredKeeps
  <2>2. /\ Current \in Agents /\ Current # NoAgent
        /\ Position(Current) \in 1 .. Len(Rounds)
        /\ Rounds[Position(Current)] = Current
        /\ agent # NoAgent => Current = agent
    BY <2>1, CurrentHolds, DistinctAssumption
  <2>3. FieldsOK'
    BY <1>1, <1>3, <2>1, <2>2 DEF IInv, FieldsOK
  <2>4. Floor'
    BY <1>1, <1>3, <2>2 DEF Floor, Over, Position, Rounds
  <2>5. ASSUME NEW i \in 1 .. Len(packages)
        PROVE  /\ packages[i].round <= turn'
               /\ packages[i].round <= config.total
               /\ \E k \in 1 .. Len(config.rounds) : config.rounds[k] = packages[i].from
               /\ IndexIn(config.rounds, packages[i].from) <= IndexIn(config.rounds, Current)
    <3>1. agent # NoAgent
      BY DEF IInv, Floor
    <3>2. packages[i] \in Package /\ turn \in Nat
      BY DEF IInv, FieldsOK
    <3>3. packages[i].round \in Nat
      BY <3>2 DEF Package
    <3>4. QED
      BY <2>1, <2>2, <3>1, <3>2, <3>3 DEF IInv, Visits
  <2>6. Visits'
    BY <1>1, <1>3, <2>5 DEF Visits
  <2>7. VisitOrder'
    BY <1>1 DEF IInv, VisitOrder, Position, Rounds
  <2>8. QuestionsMetered'
    <3>1. ASSUME NEW a \in Agents
          PROVE  used.agent[a] <= used'.agent[a] /\ used.agent[a] \in Nat /\ used'.agent[a] \in Nat
      <4>1. /\ used.agent[a] = AgentLimit(config, a) - quota.agent[a]
            /\ used'.agent[a] = AgentLimit(config, a) - quota'.agent[a]
        <5>1. used' = Persist(config, quota')
          BY <1>1, <2>1 DEF Metering
        <5>2. QED
          BY <5>1, UsedIsSpent DEF IInv, Persist
      <4>2. quota.agent \in [Agents -> Nat] /\ AgentLimit(config, a) \in Nat
        BY Types DEF IInv, FieldsOK, QuotaType
      <4>3. quota'.agent[a] <= quota.agent[a] /\ quota'.agent[a] \in Nat /\ quota.agent[a] \in Nat
        BY <2>1, <4>2 DEF NonNeg
      <4>4. used.agent[a] \in Nat /\ used'.agent[a] \in Nat
        BY <2>1 DEF IInv, FieldsOK, UsedType
      <4>5. QED
        BY <4>1, <4>2, <4>3, <4>4
    <3> DEFINE Free(a) == IF config.rounds # << >> /\ a # config.rounds[1] THEN 1 ELSE 0
    <3>2. ASSUME NEW a \in Agents
          PROVE  AskedBy(packages, a) <= used'.agent[a] + Free(a)
      <4>1. AskedBy(packages, a) <= used.agent[a] + Free(a)
        BY DEF IInv, QuestionsMetered, QuestionsOf, Rounds
      <4>2. AskedBy(packages, a) \in Nat /\ Free(a) \in {0, 1}
        BY AskedByNat DEF IInv, FieldsOK
      <4> HIDE DEF Free
      <4>3. QED
        BY <3>1, <4>1, <4>2
    <3>3. QED
      BY <1>1, <3>2 DEF QuestionsMetered, QuestionsOf, Rounds
  <2>9. QED
    BY <2>1, <2>3, <2>4, <2>6, <2>7, <2>8 DEF IInv
<1>4. QED
  BY <1>2, <1>3, FinishShape

(* Steps that neither ask nor meter.                                        *)
LEMMA QuietIInv == IInv /\ (SubmitCode \/ UNCHANGED vars) => IInv'
<1> SUFFICES ASSUME IInv, SubmitCode \/ UNCHANGED vars PROVE IInv'
  OBVIOUS
<1>1. UNCHANGED <<config, turn, status, agent, packages, used, roundTurns, quota, task>>
  BY DEF SubmitCode, vars
<1>2. stages' \in [Tech -> Progress] /\ reply' \in Replies
  <2>1. CASE SubmitCode
    <3> DEFINE now == Advanced(stages[agent])
    <3>1. agent \in Tech /\ stages \in [Tech -> Progress]
      BY <2>1 DEF SubmitCode, IInv, FieldsOK
    <3>2. now \in Progress
      BY <3>1, AdvancedType
    <3>3. [now EXCEPT !.turns = @ + 1] \in Progress
      BY <3>2 DEF Progress
    <3> HIDE DEF now
    <3>4. \/ stages' = [stages EXCEPT ![agent] = now]
          \/ stages' = [stages EXCEPT ![agent] = [now EXCEPT !.turns = @ + 1]]
      BY <2>1 DEF SubmitCode, now
    <3>5. reply' \in Replies
      BY <2>1 DEF SubmitCode, Replies
    <3>6. QED
      BY <3>1, <3>2, <3>3, <3>4, <3>5
  <2>2. CASE UNCHANGED vars
    BY <2>2 DEF vars, IInv, FieldsOK
  <2>3. QED
    BY <2>1, <2>2
<1>3. FieldsOK'
  BY <1>1, <1>2 DEF IInv, FieldsOK
<1>4. Metering' /\ Floor' /\ Visits'
  BY <1>1 DEF IInv, Metering, Floor, Over, Rounds, Position, Visits
<1>5. VisitOrder' /\ QuestionsMetered'
  BY <1>1 DEF IInv, VisitOrder, Position, Rounds, QuestionsMetered, QuestionsOf
<1>6. QED
  BY <1>3, <1>4, <1>5 DEF IInv

----------------------------------------------------------------------------
(* What is held may be stored.                                              *)
LEMMA GroundsStored == Grounds => GroundsAt(config, Snapshot)
<1> SUFFICES ASSUME Grounds PROVE GroundsAt(config, Snapshot)
  OBVIOUS
<1>1. Rebuilt(config, Snapshot) = quota
  BY MeteringRestores DEF Grounds, RestartInvisible, Rebuilt, Snapshot
<1>2. Snapshot \in Snapshots
  BY DEF Snapshot, Snapshots, Grounds, FieldsOK
<1>3. MeteringAt(config, Snapshot)
  BY <1>1 DEF MeteringAt, Snapshot, Grounds, FieldsOK, Metering
<1>4. OverAt(config, Snapshot) <=> Over
  BY <1>1 DEF OverAt, Over, Snapshot, Position, Rounds
<1>5. FloorAt(config, Snapshot)
  BY <1>4 DEF FloorAt, Floor, Snapshot, Grounds
<1>6. QED
  BY <1>2, <1>3, <1>5 DEF GroundsAt

LEMMA HeldIsSound == IInv => SoundAt(config, Snapshot)
<1> SUFFICES ASSUME IInv PROVE SoundAt(config, Snapshot)
  OBVIOUS
<1>1. GroundsAt(config, Snapshot)
  BY GroundsStored DEF IInv, Grounds
<1>2. VisitsAt(config, Snapshot)
  BY DEF IInv, Visits, VisitsAt, Snapshot
<1>3. OrderAt(config, Snapshot)
  BY DEF IInv, VisitOrder, OrderAt, Snapshot, Position, Rounds
<1>4. PaidAt(config, Snapshot)
  BY DEF IInv, QuestionsMetered, QuestionsOf, PaidAt, Snapshot, Rounds
<1>5. QED
  BY <1>1, <1>2, <1>3, <1>4 DEF SoundAt

LEMMA HeldIsSoundNext == IInv' => SoundAt(config, Snapshot)'
BY HeldIsSound, PTL

(* A restart goes back to what was stored.                                  *)
LEMMA Reloads ==
    ASSUME Recover
    PROVE  /\ config' = config /\ saved' = saved /\ saved.status = "ongoing"
           /\ turn' = saved.turn /\ status' = saved.status /\ agent' = saved.agent
           /\ stages' = saved.stages /\ task' = saved.task
           /\ packages' = saved.packages /\ used' = saved.used
           /\ roundTurns' = saved.roundTurns
           /\ quota' = Rebuilt(config, saved)
           /\ reply' = "none"
BY DEF Recover, Rebuilt

LEMMA RecoverGrounds ==
    ASSUME FieldsOK, GroundsAt(config, saved), Recover
    PROVE  Grounds'
<1>1. FieldsOK'
  BY Reloads DEF FieldsOK, GroundsAt, Snapshots, MeteringAt, Replies
<1>2. Metering'
  BY Reloads DEF GroundsAt, MeteringAt, Metering
<1>3. Floor'
  BY Reloads DEF GroundsAt, FloorAt, OverAt, Floor, Over, Position, Rounds
<1>4. QED
  BY <1>1, <1>2, <1>3 DEF Grounds

LEMMA RecoverIInv ==
    ASSUME FieldsOK, SoundAt(config, saved), Recover
    PROVE  IInv'
<1>1. Grounds'
  BY RecoverGrounds DEF SoundAt
<1>2. Visits'
  BY Reloads DEF SoundAt, VisitsAt, Visits
<1>3. VisitOrder'
  BY Reloads DEF SoundAt, OrderAt, VisitOrder, Position, Rounds
<1>4. QuestionsMetered'
  BY Reloads DEF SoundAt, PaidAt, QuestionsMetered, QuestionsOf, Rounds
<1>5. QED
  BY <1>1, <1>2, <1>3, <1>4 DEF Grounds, IInv

LEMMA StepSplit == Step \/ AsyncStep => Finishing \/ Asking
BY DEF Step, AsyncStep, Finishing, Asking

LEMMA NextSplit ==
    Next => \/ (Asking \/ Finishing) /\ Saves
            \/ SubmitCode /\ UNCHANGED saved
            \/ Recover
BY StepSplit DEF Next, Serve

(* The end of a turn, saved or not.                                         *)
LEMMA TurnForward ==
    ASSUME IInv, Asking \/ Finishing
    PROVE  /\ IInv' /\ config' = config
           /\ turn' \in Nat /\ turn <= turn'
           /\ status = "finished" => status' = "finished"
<1>1. IInv'
  BY AskIInv, FinishIInv
<1>2. turn \in Nat /\ turn' \in Nat
  BY <1>1 DEF IInv, FieldsOK
<1>3. CASE Asking
  BY <1>1, <1>2, <1>3, AskShape, MeteredKeeps
<1>4. CASE Finishing
  BY <1>1, <1>2, <1>4, FinishShape, MeteredKeeps
<1>5. QED
  BY <1>3, <1>4

LEMMA SavedIsSound ==
    ASSUME HInv, IInv', config' = config,
           turn <= turn', status = "finished" => status' = "finished",
           saved' = saved \/ saved' = Snapshot'
    PROVE  HInv'
<1>1. SoundAt(config, Snapshot)'
  BY HeldIsSoundNext
<1>2. SoundAt(config', saved')
  BY <1>1 DEF HInv
<1>3. saved.turn \in Nat /\ turn \in Nat /\ turn' \in Nat
  BY DEF HInv, SoundAt, GroundsAt, Snapshots, IInv, FieldsOK
<1>4. Behind'
  BY <1>3 DEF HInv, Behind, Snapshot
<1>5. QED
  BY <1>2, <1>4 DEF HInv

LEMMA StepHInv == HInv /\ [Next]_vars => HInv'
<1> SUFFICES ASSUME HInv, [Next]_vars PROVE HInv'
  OBVIOUS
<1>1. CASE (Asking \/ Finishing) /\ Saves
  BY <1>1, TurnForward, SavedIsSound DEF HInv, Saves
<1>2. CASE (SubmitCode /\ UNCHANGED saved) \/ UNCHANGED vars
  <2>1. UNCHANGED <<config, turn, status, saved>>
    BY <1>2 DEF SubmitCode, vars
  <2>2. IInv'
    BY <1>2, QuietIInv DEF HInv
  <2>3. turn <= turn'
    BY <2>1 DEF HInv, IInv, FieldsOK
  <2>4. QED
    BY <2>1, <2>2, <2>3, SavedIsSound
<1>3. CASE Recover
  <2>1. IInv' /\ SoundAt(config', saved')
    BY <1>3, RecoverIInv, Reloads DEF HInv, IInv
  <2>2. Behind'
    BY <1>3, Reloads DEF HInv, SoundAt, GroundsAt, Snapshots, Behind
  <2>3. QED
    BY <2>1, <2>2 DEF HInv
<1>4. QED
  BY <1>1, <1>2, <1>3, NextSplit

LEMMA SpecHInv == Spec => []HInv
<1>1. Init => HInv
  <2> SUFFICES ASSUME Init PROVE HInv
    OBVIOUS
  <2>1. IInv /\ saved = Snapshot /\ turn = 0
    BY InitIInv DEF Init
  <2>2. SoundAt(config, saved)
    BY <2>1, HeldIsSound
  <2>3. Behind
    BY <2>1 DEF Behind, Snapshot
  <2>4. QED
    BY <2>1, <2>2, <2>3 DEF HInv
<1>2. QED
  BY <1>1, StepHInv, PTL DEF Spec

LEMMA SpecIInv == Spec => []IInv
<1>1. HInv => IInv
  BY DEF HInv
<1>2. QED
  BY <1>1, SpecHInv, PTL

----------------------------------------------------------------------------
(* The theorems.                                                           *)

(* Every field of InterviewState keeps its declared type, in the process    *)
(* and in the store.                                                        *)
THEOREM InterviewTypeCorrect == Spec => []TypeOK
<1>1. HInv => TypeOK
  BY DEF HInv, IInv, SoundAt, GroundsAt, TypeOK
<1>2. QED
  BY <1>1, SpecHInv, PTL

(* No question is asked after turn total_max_turns, whatever is sent.       *)
THEOREM QuestionsStayWithinTotal == Spec => []QuestionsWithinTotal
<1>1. IInv => QuestionsWithinTotal
  BY DEF IInv, Floor, Visits, QuestionsWithinTotal
<1>2. QED
  BY <1>1, SpecIInv, PTL

(* The packages follow the configured order of the rounds.                  *)
THEOREM RoundsVisitedInOrder == Spec => []VisitOrder
BY SpecIInv, PTL DEF IInv

(* Every question was paid for, save the one asked on taking over.          *)
THEOREM QuestionsArePaid == Spec => []QuestionsMetered
BY SpecIInv, PTL DEF IInv

(* At any moment a restart rebuilds the quota manager the interview has.    *)
THEOREM RecoveryIsInvisible == Spec => []RestartInvisible
<1>1. IInv => RestartInvisible
  BY MeteringRestores DEF IInv
<1>2. QED
  BY <1>1, SpecIInv, PTL

(* A finished interview stays finished, and no step asks again; only an end *)
(* that was not saved is undone, by a restart.                              *)
THEOREM NothingAskedAfterFinish == Spec => NoQuestionAfterFinish
<1>1. HInv /\ [Next]_vars =>
        [ /\ status = "finished" /\ ~Recover =>
               UNCHANGED <<status, packages>> /\ reply' # "question"
          /\ saved.status = "finished" => status' = "finished" ]_vars
  <2>1. SUFFICES ASSUME HInv, Next
                 PROVE  /\ status = "finished" /\ ~Recover =>
                             UNCHANGED <<status, packages>> /\ reply' # "question"
                        /\ saved.status = "finished" => status' = "finished"
    OBVIOUS
  <2>2. status = "finished" /\ ~Recover => UNCHANGED <<status, packages>> /\ reply' # "question"
    <3>1. SUFFICES ASSUME status = "finished", ~Recover
                   PROVE  UNCHANGED <<status, packages>> /\ reply' # "question"
      OBVIOUS
    <3>2. CASE Finishing
      BY <2>1, <3>1, <3>2, FinishShape DEF HInv
    <3>3. CASE Asking
      BY <2>1, <3>1, <3>3, AskShape DEF HInv
    <3>4. CASE SubmitCode
      BY <3>4 DEF SubmitCode
    <3>5. QED
      BY <2>1, <3>1, <3>2, <3>3, <3>4, NextSplit
  <2>3. saved.status = "finished" => status = "finished" /\ ~Recover
    BY <2>1, Reloads DEF HInv, Behind
  <2>4. QED
    BY <2>2, <2>3
<1>2. QED
  BY <1>1, SpecHInv, PTL DEF Spec, NoQuestionAfterFinish

(* The floor passes only to the next round, from one with nothing left.     *)
THEOREM FloorPassesWhenSpent == Spec => LeavesOnlyWhenSpent
<1>1. IInv /\ [Next]_vars =>
        [agent' # NoAgent /\ agent' # Current /\ ~Recover =>
            /\ quota'.agent[Current] = 0
            /\ Position(agent') = Position(Current) + 1]_vars
  <2>1. SUFFICES ASSUME IInv, Next, agent' # NoAgent, agent' # Current, ~Recover
                 PROVE  /\ quota'.agent[Current] = 0
                        /\ Position(agent') = Position(Current) + 1
    OBVIOUS
  <2>2. CASE Finishing
    <3>1. UNCHANGED agent
      BY <2>1, <2>2, FinishShape
    <3>2. QED
      BY <2>1, <3>1 DEF Current
  <2>3. CASE Asking
    BY <2>1, <2>3, AskShape, AskerPlace DEF Position, Rounds
  <2>4. CASE SubmitCode
    BY <2>1, <2>4 DEF SubmitCode, Current
  <2>5. QED
    BY <2>1, <2>2, <2>3, <2>4, NextSplit
<1>2. QED
  BY <1>1, SpecIInv, PTL DEF Spec, LeavesOnlyWhenSpent

(* The detailed interview implements its contract.                          *)
RoundHeld == RoundOfAgent(agent)

LEMMA RoundIsHeld == RoundHeld = IF Rounds = << >> THEN 0 ELSE Position(Current)
BY DEF RoundHeld, RoundOfAgent, Current

LEMMA InitContract == Init => Contract!ContractInit
<1> SUFFICES ASSUME Init PROVE Contract!ContractInit
  OBVIOUS
<1>1. IInv
  BY InitIInv
<1>2. Len(Rounds) \in Nat /\ (Rounds # << >> => Position(Current) = 1) /\ (Rounds = << >> <=> Len(Rounds) = 0)
  <2>1. Rounds \in Seq(Agents)
    BY <1>1, Types DEF IInv, Rounds
  <2>2. QED
    BY <1>1, <2>1, CurrentHolds DEF Init
<1>3. quota.global \in Nat \ {0}
  BY <1>1, Types DEF IInv, Init, FullQuota
<1>4. Len(packages) = 0 /\ status = "ongoing" /\ saved = Snapshot
  BY DEF Init
<1>5. quota.global = NonNeg(config.total - turn)
  BY <1>1 DEF IInv, Metering
<1>6. RoundOfAgent(agent) = IF Len(Rounds) = 0 THEN 0 ELSE 1
  BY <1>2, RoundIsHeld DEF RoundHeld
<1>7. /\ saved.agent = agent /\ saved.turn = turn /\ saved.packages = packages
      /\ saved.status = status
  BY <1>4 DEF Snapshot
<1>8. QED
  BY <1>2, <1>3, <1>4, <1>5, <1>6, <1>7 DEF Contract!ContractInit, Contract!Place

(* A turn taken is one of the contract's walk, and a submission is none.     *)
LEMMA TurnContract ==
    ASSUME IInv, Asking \/ Finishing
    PROVE  \/ Contract!Exchange \/ Contract!Close \/ Contract!Late
           \/ UNCHANGED Contract!place
<1>1. /\ Len(Rounds) \in Nat /\ quota.global \in Nat /\ Len(packages) \in Nat
      /\ packages \in Seq(Package)
      /\ status \in {"ongoing", "finished"}
  BY Types DEF IInv, FieldsOK, Rounds
<1>2. CASE Asking
  <2>1. /\ Metered /\ status = "ongoing" /\ status' = "ongoing" /\ quota.global > 0
        /\ \/ packages' = packages
           \/ packages' = Append(packages, Question(agent'))
    BY <1>2, AskShape
  <2>2. quota'.global = quota.global - 1 /\ Rounds' = Rounds /\ Rounds # << >>
    BY <1>1, <2>1, MeteredKeeps DEF NonNeg, Rounds
  <2>3. RoundHeld' \in {RoundHeld, RoundHeld + 1} \cap (1 .. Len(Rounds))
    <3>1. RoundHeld = IndexIn(config.rounds, Current)
      BY <2>2, RoundIsHeld DEF Position, Rounds
    <3>2. RoundHeld' = IndexIn(config.rounds, agent')
      BY <1>2, <2>2, AskerPlace DEF RoundHeld, RoundOfAgent, Position, Rounds
    <3>3. QED
      BY <3>1, <3>2, <1>2, AskerPlace DEF Rounds
  <2>4. Len(packages') \in {Len(packages), Len(packages) + 1}
    BY <1>1, <2>1
  <2>5. Contract!Exchange
    BY <2>1, <2>2, <2>3, <2>4 DEF Contract!Exchange, RoundHeld
  <2>6. QED
    BY <2>5
<1>3. CASE Finishing
  <2>1. /\ status' = "finished" /\ packages' = packages /\ Rounds' = Rounds
        /\ \/ Rounds = << >> /\ agent' = agent /\ quota' = quota
           \/ Metered /\ agent' = Current
    BY <1>3, FinishShape DEF Rounds
  <2>2. RoundHeld' = RoundHeld
    <3>1. CASE Rounds = << >>
      BY <2>1, <3>1 DEF RoundHeld, RoundOfAgent
    <3>2. CASE Rounds # << >>
      <4>1. agent' = Current /\ Current # NoAgent
        BY <2>1, <3>2, CurrentHolds, DistinctAssumption
      <4>2. QED
        BY <2>1, <3>2, <4>1, RoundIsHeld DEF RoundHeld, RoundOfAgent, Position
    <3>3. QED
      BY <3>1, <3>2
  <2>3. quota'.global \in {quota.global, quota.global - 1} \cap Nat
    BY <1>1, <2>1, MeteredKeeps DEF NonNeg
  <2>4. CASE status = "ongoing"
    BY <2>1, <2>2, <2>3, <2>4 DEF Contract!Close, RoundHeld
  <2>5. CASE status = "finished"
    <3>1. CASE quota'.global = quota.global
      BY <2>1, <2>2, <2>5, <3>1 DEF Contract!place, RoundHeld
    <3>2. CASE quota'.global = quota.global - 1
      <4>1. quota.global > 0
        BY <1>1, <2>3, <3>2
      <4>2. QED
        BY <2>1, <2>2, <2>5, <3>2, <4>1 DEF Contract!Late, RoundHeld
    <3>3. QED
      BY <2>3, <3>1, <3>2
  <2>6. QED
    BY <1>1, <2>4, <2>5
<1>4. QED
  BY <1>2, <1>3

StoredPlace ==
    [ round     |-> RoundOfAgent(saved.agent),
      left      |-> NonNeg(config.total - saved.turn),
      questions |-> Len(saved.packages),
      open      |-> saved.status = "ongoing" ]

(* A save keeps the place the walk has got to, or leaves the one kept.      *)
LEMMA SavedKeeps ==
    ASSUME IInv', config' = config, saved' = saved \/ saved' = Snapshot'
    PROVE  Contract!Keeps
<1>1. CASE saved' = saved
  <2>1. StoredPlace' = StoredPlace
    BY <1>1 DEF StoredPlace, RoundOfAgent, Position, Rounds
  <2>2. QED
    BY <2>1 DEF StoredPlace, Contract!Keeps
<1>2. CASE saved' = Snapshot'
  <2>1. /\ saved'.agent = agent' /\ saved'.turn = turn' /\ saved'.packages = packages'
        /\ saved'.status = status'
    BY <1>2 DEF Snapshot
  <2>2. quota'.global = NonNeg(config'.total - turn')
    BY DEF IInv, Metering
  <2>3. Contract!Place' = StoredPlace'
    BY <2>1, <2>2 DEF StoredPlace, Contract!Place, RoundOfAgent, Position, Rounds
  <2>4. QED
    BY <2>3 DEF StoredPlace, Contract!Keeps
<1>3. QED
  BY <1>1, <1>2

(* A restart resumes the walk at the place kept.                            *)
LEMMA RecoverResumes ==
    ASSUME HInv, Recover
    PROVE  Contract!Resume
<1>1. /\ config' = config /\ saved' = saved /\ saved.status = "ongoing"
      /\ turn' = saved.turn /\ status' = saved.status /\ agent' = saved.agent
      /\ packages' = saved.packages /\ quota' = Rebuilt(config, saved)
  BY Reloads
<1>2. quota'.global = NonNeg(config.total - saved.turn)
  BY <1>1 DEF HInv, SoundAt, GroundsAt, MeteringAt
<1>3. RoundOfAgent(agent)' = RoundOfAgent(saved.agent)
  BY <1>1 DEF RoundOfAgent, Position, Rounds
<1>4. StoredPlace' = StoredPlace
  BY <1>1 DEF StoredPlace, RoundOfAgent, Position, Rounds
<1>5. Contract!Place' = StoredPlace
  BY <1>1, <1>2, <1>3 DEF StoredPlace, Contract!Place
<1>6. Len(Rounds)' = Len(Rounds)
  BY <1>1 DEF Rounds
<1>7. QED
  BY <1>1, <1>4, <1>5, <1>6 DEF StoredPlace, Contract!Resume

LEMMA StepContract ==
    HInv /\ [Next]_vars => [Contract!ContractNext]_(Contract!contractVars)
<1> SUFFICES ASSUME HInv, [Next]_vars
             PROVE  Contract!ContractNext \/ UNCHANGED Contract!contractVars
  OBVIOUS
<1>1. IInv
  BY DEF HInv
<1>2. CASE (Asking \/ Finishing) /\ Saves
  <2>1. Contract!Keeps
    BY <1>1, <1>2, TurnForward, SavedKeeps DEF Saves
  <2>2. QED
    BY <1>1, <1>2, <2>1, TurnContract DEF Contract!ContractNext
<1>3. CASE (SubmitCode /\ UNCHANGED saved) \/ UNCHANGED vars
  <2>1. UNCHANGED <<config, agent, quota, packages, status, saved>>
    BY <1>3 DEF SubmitCode, vars
  <2>2. StoredPlace' = StoredPlace
    BY <2>1 DEF StoredPlace, RoundOfAgent, Position, Rounds
  <2>3. QED
    BY <2>1, <2>2
       DEF Contract!contractVars, Contract!place, StoredPlace, RoundOfAgent, Position, Rounds
<1>4. CASE Recover
  BY <1>4, RecoverResumes DEF Contract!ContractNext
<1>5. QED
  BY <1>2, <1>3, <1>4, NextSplit

THEOREM InterviewImplementsContract == Spec => ImplementsContract
<1>1. Spec => [][Contract!ContractNext]_(Contract!contractVars)
  BY StepContract, SpecHInv, PTL DEF Spec
<1>2. QED
  BY <1>1, InitContract, PTL DEF Spec, ImplementsContract, Contract!ContractSafety

----------------------------------------------------------------------------
(* The interview as a caller of the quota manager.  The manager's module    *)
(* computes what this one does.                                             *)
LEMMA ManagerSame ==
    /\ \A q, a, s : /\ Manager!Check(q, a, s) = Check(q, a, s)
                    /\ Manager!Consume(q, a, s) = Consume(q, a, s)
    /\ \A c, q : Manager!Persist(c, q) = Persist(c, q)
    /\ \A c, t, u, r : Manager!Restore(c, t, u, r) = Restore(c, t, u, r)
    /\ Manager!NothingUsed = NothingUsed
<1>1. \A n : Manager!NonNeg(n) = NonNeg(n)
  BY DEF NonNeg, Manager!NonNeg
<1>2. /\ \A c, a : Manager!AgentLimit(c, a) = AgentLimit(c, a)
      /\ \A c, a, s : Manager!StageLimit(c, a, s) = StageLimit(c, a, s)
      /\ Manager!Stages = Stages /\ Manager!NoStage = NoStage
  BY DEF AgentLimit, StageLimit, Manager!AgentLimit, Manager!StageLimit, Stages, Manager!Stages,
         NoStage, Manager!NoStage, Standard, Manager!Standard, LegacyDefault, Manager!LegacyDefault,
         FallbackLimit, Manager!FallbackLimit
<1>3. \A q, a, s : /\ Manager!Check(q, a, s) = Check(q, a, s)
                   /\ Manager!Consume(q, a, s) = Consume(q, a, s)
  BY <1>1, <1>2 DEF Check, Manager!Check, Consume, Manager!Consume
<1>4. \A c, q : Manager!Persist(c, q) = Persist(c, q)
  BY <1>2 DEF Persist, Manager!Persist
<1>5. \A c, t, u, r : Manager!Restore(c, t, u, r) = Restore(c, t, u, r)
  BY <1>1, <1>2 DEF Restore, Manager!Restore
<1>6. Manager!NothingUsed = NothingUsed
  BY <1>2 DEF NothingUsed, Manager!NothingUsed
<1>7. QED
  BY <1>3, <1>4, <1>5, <1>6

(* The interview before its first request is a manager just made.           *)
LEMMA InitManages == Init => Manager!Init
<1> SUFFICES ASSUME Init PROVE Manager!Init
  OBVIOUS
<1>1. quota = Restore(config, turn, used, roundTurns)
  BY InitIInv, MeteringRestores DEF IInv, RestartInvisible
<1>2. quota = Manager!Restore(config, turn, used, roundTurns) /\ used = Manager!NothingUsed
  BY <1>1, ManagerSame DEF Init
<1>3. turn \in 0 .. 0 /\ roundTurns \in [Agents -> 0 .. turn] /\ config \in Configs
  BY DEF Init
<1>4. QED
  BY <1>2, <1>3 DEF Manager!Init

(* What a step does before it is routed is one metered turn of the current  *)
(* agent in the current sub-stage.                                          *)
LEMMA MeteredManages ==
    ASSUME Grounds, Metered
    PROVE  Manager!Next
<1>1. /\ Current \in Agents /\ CurrentStage \in Stages \cup {NoStage}
  BY CurrentPlaced DEF Metered
<1>2. CurrentStage \in Manager!StagesOf(Current)
  <2>1. Current \in Tech => CurrentStage \in Stages
    BY DEF CurrentStage, Grounds, FieldsOK, Progress
  <2>2. Current \notin Tech => CurrentStage = NoStage
    BY DEF CurrentStage
  <2>3. QED
    BY <2>1, <2>2 DEF Manager!StagesOf, Manager!Stages, Manager!NoStage, Stages, NoStage
<1>3. /\ quota' = Manager!Consume(quota, Current, CurrentStage)
      /\ used' = Manager!Persist(config, quota')
      /\ turn < MaxTurn /\ turn' = turn + 1 /\ UNCHANGED config
  BY ManagerSame DEF Metered, Spent
<1>4. IF Manager!Check(quota, Current, CurrentStage) = "CONTINUE"
      THEN roundTurns' \in {roundTurns, [roundTurns EXCEPT ![Current] = @ + 1]}
      ELSE UNCHANGED roundTurns
  BY ManagerSame DEF Metered, Normal, Verdict
<1>5. Manager!Meter(Current, CurrentStage)
  BY <1>3, <1>4 DEF Manager!Meter
<1>6. QED
  BY <1>1, <1>2, <1>5 DEF Manager!Next

LEMMA TurnManages ==
    ASSUME IInv, Asking \/ Finishing
    PROVE  Manager!Next \/ UNCHANGED Manager!vars
<1>1. CASE Asking
  BY <1>1, AskShape, MeteredManages DEF IInv, Grounds
<1>2. CASE Finishing
  <2>1. \/ UNCHANGED <<config, turn, quota, used, roundTurns>>
        \/ Metered
    BY <1>2, FinishShape
  <2>2. QED
    BY <2>1, MeteredManages DEF IInv, Grounds, Manager!vars
<1>3. QED
  BY <1>1, <1>2

ManagerStep ==
    \/ /\ Manager!Next \/ UNCHANGED Manager!vars
       /\ StoredAccounts' \in {StoredAccounts, Accounts'}
    \/ Reloaded

\* A restart is the other step.
LEMMA RecoverManages ==
    ASSUME Recover
    PROVE  Reloaded
<1>1. /\ UNCHANGED <<config, saved>>
      /\ turn' = saved.turn /\ used' = saved.used /\ roundTurns' = saved.roundTurns
      /\ quota' = Restore(config, turn', used', roundTurns')
  BY DEF Recover
<1>2. quota' = Manager!Restore(config, turn', used', roundTurns')
  BY <1>1, ManagerSame
<1>3. QED
  BY <1>1, <1>2 DEF Reloaded, Accounts, StoredAccounts

LEMMA StepManages == IInv /\ [Next]_vars => [ManagerStep]_<<Manager!vars, StoredAccounts>>
<1> SUFFICES ASSUME IInv, [Next]_vars PROVE ManagerStep
  OBVIOUS
<1>1. CASE (Asking \/ Finishing) /\ Saves
  <2>1. StoredAccounts' \in {StoredAccounts, Accounts'}
    BY <1>1 DEF Saves, StoredAccounts, Accounts, Snapshot
  <2>2. QED
    BY <1>1, <2>1, TurnManages DEF ManagerStep
<1>2. CASE (SubmitCode /\ UNCHANGED saved) \/ UNCHANGED vars
  <2>1. UNCHANGED <<config, turn, used, roundTurns, quota, saved>>
    BY <1>2 DEF SubmitCode, vars
  <2>2. QED
    BY <2>1 DEF ManagerStep, Manager!vars, StoredAccounts
<1>3. CASE Recover
  BY <1>3, RecoverManages DEF ManagerStep
<1>4. QED
  BY <1>1, <1>2, <1>3, NextSplit

(* The interview implements the quota manager of its own agents: every step *)
(* of it is one the manager in free use may take and may store the accounts *)
(* as they are then, or rebuilds the manager from the accounts last stored. *)
THEOREM InterviewUsesManager == Spec => ImplementsManager
<1>1. Spec => [][ManagerStep]_<<Manager!vars, StoredAccounts>>
  BY StepManages, SpecIInv, PTL DEF Spec
<1>2. Init => Manager!Init /\ StoredAccounts = Accounts
  BY InitManages DEF Init, StoredAccounts, Accounts, Snapshot
<1>3. QED
  BY <1>1, <1>2, PTL DEF Spec, ImplementsManager, ManagerStep

----------------------------------------------------------------------------
(***************************************************************************)
(* Where a turn goes.  The branches of step are an if and elif chain with  *)
(* returns in it; in the model they are six guards, in this order, behind  *)
(* FinishSpent, FinishExhausted, SwitchAgent, AdvanceStage, StartRound and *)
(* ContinueStage (StreamTurn).                                             *)
(***************************************************************************)
Branch(i) ==
    CASE i = 1 -> InterviewSpent
      [] i = 2 -> Verdict = "FINISH" \/ (Leaves /\ LastRound)
      [] i = 3 -> Leaves /\ ~LastRound
      [] i = 4 -> StageExpired /\ ~RoundComplete
      [] i = 5 -> RoundComplete /\ Spent.agent[Current] > 0
      [] i = 6 -> Normal /\ ~RoundComplete

Branches == 1 .. 6

RoutedOnce ==
    /\ \E i \in Branches : Branch(i)
    /\ \A i, j \in Branches : Branch(i) /\ Branch(j) => i = j

LEMMA BranchOf ==
    /\ Branch(1) <=> InterviewSpent
    /\ Branch(2) <=> (Verdict = "FINISH" \/ (Leaves /\ LastRound))
    /\ Branch(3) <=> (Leaves /\ ~LastRound)
    /\ Branch(4) <=> (StageExpired /\ ~RoundComplete)
    /\ Branch(5) <=> (RoundComplete /\ Spent.agent[Current] > 0)
    /\ Branch(6) <=> (Normal /\ ~RoundComplete)
BY DEF Branch

LEMMA Verdicts == Verdict \in {"FINISH", "SWITCH_AGENT", "ADVANCE_STAGE", "CONTINUE"}
BY DEF Verdict, Check

LEMMA StepIsRouted ==
    ASSUME IInv, Rounds # << >>
    PROVE  RoutedOnce
<1>1. Spent.agent[Current] \in Nat /\ Spent.global \in Nat
  <2>1. Current \in Agents /\ CurrentStage \in Stages \cup {NoStage}
    BY CurrentHolds
  <2>2. quota \in QuotaType /\ config \in Config
    BY Types DEF IInv, FieldsOK
  <2>3. Spent \in QuotaType
    BY <2>1, <2>2, ConsumeSpends DEF Spent
  <2>4. QED
    BY <2>1, <2>3 DEF QuotaType
<1>2. \E i \in {1, 2, 3, 4, 5, 6} : Branch(i)
  <2>1. CASE Verdict = "FINISH"
    BY <2>1, BranchOf
  <2>2. CASE Verdict = "SWITCH_AGENT"
    BY <2>2, BranchOf DEF Leaves
  <2>3. CASE Verdict = "ADVANCE_STAGE"
    BY <1>1, <2>3, BranchOf DEF Leaves, StageExpired
  <2>4. CASE Verdict = "CONTINUE"
    BY <1>1, <2>4, BranchOf DEF Leaves, Normal
  <2>5. QED
    BY <2>1, <2>2, <2>3, <2>4, Verdicts
<1>3. Branch(1) => Verdict = "CONTINUE" /\ Spent.global <= 0 /\ ~Normal /\ ~AgentSpent
  BY <1>1, BranchOf DEF InterviewSpent, AgentSpent, Normal
<1>4. RoundComplete => \/ Verdict = "ADVANCE_STAGE"
                       \/ Normal /\ Verdict = "CONTINUE" /\ ~AgentSpent
  BY DEF RoundComplete, StageExpired, Normal
<1>5. /\ AgentSpent => Verdict = "CONTINUE" /\ ~Normal
      /\ StageExpired <=> Verdict = "ADVANCE_STAGE"
      /\ Normal => Verdict = "CONTINUE"
      /\ Leaves <=> \/ Verdict = "SWITCH_AGENT"
                    \/ AgentSpent
                    \/ RoundComplete /\ Spent.agent[Current] <= 0
  BY DEF AgentSpent, Normal, StageExpired, Leaves
<1>6. Branch(1) => ~Branch(2) /\ ~Branch(3) /\ ~Branch(4) /\ ~Branch(5) /\ ~Branch(6)
  BY <1>3, <1>4, <1>5, BranchOf
<1>7. Branch(2) => ~Branch(3) /\ ~Branch(4) /\ ~Branch(5) /\ ~Branch(6)
  BY <1>1, <1>4, <1>5, BranchOf
<1>8. Branch(3) => ~Branch(4) /\ ~Branch(5) /\ ~Branch(6)
  BY <1>1, <1>4, <1>5, BranchOf
<1>9. Branch(4) => ~Branch(5) /\ ~Branch(6)
  BY <1>4, <1>5, BranchOf
<1>10. Branch(5) => ~Branch(6)
  BY <1>4, <1>5, BranchOf
<1>11. Branches = {1, 2, 3, 4, 5, 6}
  BY DEF Branches
<1>12. QED
  BY <1>2, <1>6, <1>7, <1>8, <1>9, <1>10, <1>11 DEF RoutedOnce

(* No answer falls through step and none is handled twice: whatever the     *)
(* configuration and the quotas left, exactly one branch takes a turn.     *)
THEOREM RoutingIsTotal == Spec => [](Rounds # << >> => RoutedOnce)
<1>1. IInv => (Rounds # << >> => RoutedOnce)
  BY StepIsRouted
<1>2. QED
  BY <1>1, SpecIInv, PTL

----------------------------------------------------------------------------
(***************************************************************************)
(* The measure behind Terminates, whose fairness is beyond this prover: the *)
(* answers an interview can still take, as it is held and as it is stored. *)
(***************************************************************************)
AnswersLeft == IF status = "finished" THEN 0 ELSE quota.global + 1

StoredLeft ==
    IF saved.status = "finished" THEN 0 ELSE NonNeg(config.total - saved.turn) + 1

RunsOut ==
    /\ AnswersLeft' \in Nat /\ StoredLeft' \in Nat
    /\ status = "ongoing" /\ (Step \/ AsyncStep) => AnswersLeft' < AnswersLeft
    /\ ~Lost => AnswersLeft' <= AnswersLeft
    /\ Lost => AnswersLeft' = StoredLeft
    /\ StoredLeft' <= StoredLeft
    /\ status = "ongoing" /\ saved' # saved => StoredLeft' < StoredLeft

LEMMA MeasuresBounded ==
    ASSUME HInv
    PROVE  /\ status \in {"ongoing", "finished"} /\ quota.global \in Nat
           /\ AnswersLeft \in Nat /\ StoredLeft \in Nat
           /\ AnswersLeft <= StoredLeft
<1>1. /\ status \in {"ongoing", "finished"} /\ quota.global \in Nat
      /\ turn \in Nat /\ config.total \in Nat /\ saved.turn \in Nat
      /\ saved.status \in {"ongoing", "finished"}
  BY Types DEF HInv, IInv, FieldsOK, SoundAt, GroundsAt, Snapshots
<1>2. /\ quota.global = NonNeg(config.total - turn)
      /\ saved.turn <= turn /\ (saved.status = "finished" => status = "finished")
  BY DEF HInv, IInv, Metering, Behind
<1>3. QED
  BY <1>1, <1>2 DEF AnswersLeft, StoredLeft, NonNeg

\* A snapshot just taken leaves as many answers as the state it was taken of.
LEMMA StoredAsHeld == IInv /\ saved = Snapshot => StoredLeft = AnswersLeft
BY DEF IInv, Metering, Snapshot, StoredLeft, AnswersLeft

LEMMA StoredAsHeldNext == IInv' /\ saved' = Snapshot' => StoredLeft' = AnswersLeft'
BY DEF IInv, Metering, Snapshot, StoredLeft, AnswersLeft

(* What an answer uses up.                                                  *)
LEMMA TurnRunsDown ==
    ASSUME IInv, Asking \/ Finishing
    PROVE  /\ AnswersLeft' \in Nat /\ AnswersLeft' <= AnswersLeft
           /\ status = "ongoing" => AnswersLeft' < AnswersLeft
<1>1. quota.global \in Nat /\ status \in {"ongoing", "finished"}
  BY Types DEF IInv, FieldsOK
<1>2. CASE Asking
  <2>1. /\ status = "ongoing" /\ status' = "ongoing" /\ quota.global > 0 /\ Metered
    BY <1>2, AskShape
  <2>2. quota'.global = quota.global - 1
    BY <1>1, <2>1, MeteredKeeps DEF NonNeg
  <2>3. QED
    BY <1>1, <2>1, <2>2 DEF AnswersLeft
<1>3. CASE Finishing
  <2>1. status' = "finished"
    BY <1>3, FinishShape
  <2>2. QED
    BY <1>1, <2>1 DEF AnswersLeft
<1>4. QED
  BY <1>2, <1>3

LEMMA StepRunsOut ==
    ASSUME HInv, Next
    PROVE  RunsOut
<1>1. /\ status \in {"ongoing", "finished"} /\ quota.global \in Nat
      /\ AnswersLeft \in Nat /\ StoredLeft \in Nat /\ AnswersLeft <= StoredLeft
  BY MeasuresBounded
<1>2. IInv
  BY DEF HInv
<1>3. Step \/ AsyncStep => Asking \/ Finishing
  BY StepSplit
<1>4. CASE (Asking \/ Finishing) /\ Saves /\ ~Recover
  <2>1. /\ AnswersLeft' \in Nat /\ AnswersLeft' <= AnswersLeft
        /\ status = "ongoing" => AnswersLeft' < AnswersLeft
    BY <1>2, <1>4, TurnRunsDown
  <2>2. CASE saved' = saved
    <3>1. StoredLeft' = StoredLeft
      BY <1>2, <1>4, <2>2, TurnForward DEF StoredLeft
    <3>2. QED
      BY <1>1, <1>4, <2>1, <2>2, <3>1 DEF RunsOut, Lost
  <2>3. CASE saved' = Snapshot'
    <3>1. StoredLeft' = AnswersLeft'
      BY <1>2, <1>4, <2>3, StoredAsHeldNext, TurnForward
    <3>2. QED
      BY <1>1, <1>4, <2>1, <3>1 DEF RunsOut, Lost
  <2>4. QED
    BY <1>4, <2>2, <2>3 DEF Saves
<1>5. CASE SubmitCode /\ UNCHANGED saved /\ ~Recover
  <2>1. UNCHANGED <<config, status, quota, saved, turn>>
    BY <1>5 DEF SubmitCode
  <2>2. AnswersLeft' = AnswersLeft /\ StoredLeft' = StoredLeft
    BY <2>1 DEF AnswersLeft, StoredLeft
  <2>3. ~(status = "ongoing" /\ (Step \/ AsyncStep))
    <3>1. Asking \/ Finishing => turn' = turn + 1 \/ status' = "finished"
      BY <1>2, AskShape, FinishShape DEF Metered
    <3>2. turn \in Nat
      BY <1>2 DEF IInv, FieldsOK
    <3>3. QED
      BY <1>3, <2>1, <3>1, <3>2
  <2>4. QED
    BY <1>1, <1>5, <2>1, <2>2, <2>3 DEF RunsOut, Lost
<1>6. CASE Recover
  <2>1. /\ config' = config /\ saved' = saved /\ saved.status = "ongoing"
        /\ turn' = saved.turn /\ status' = saved.status
        /\ quota' = Rebuilt(config, saved)
    BY <1>6, Reloads
  <2>2. quota'.global = NonNeg(config.total - turn')
    BY <2>1 DEF HInv, SoundAt, GroundsAt, MeteringAt
  <2>3. StoredLeft' = StoredLeft /\ AnswersLeft' = StoredLeft
    BY <2>1, <2>2 DEF StoredLeft, AnswersLeft
  <2>4. status = "ongoing" /\ (Step \/ AsyncStep) => AnswersLeft' < AnswersLeft
    BY <1>2, <1>3, TurnRunsDown
  <2>5. ~Lost => AnswersLeft' <= AnswersLeft
    <3>1. SUFFICES ASSUME turn' = turn, status' = status PROVE AnswersLeft' = AnswersLeft
      BY <1>1, <1>6 DEF Lost
    <3>2. quota.global = NonNeg(config.total - turn)
      BY <1>2 DEF IInv, Metering
    <3>3. QED
      BY <2>1, <2>2, <3>1, <3>2 DEF AnswersLeft
  <2>6. QED
    BY <1>1, <2>1, <2>3, <2>4, <2>5 DEF RunsOut
<1>7. QED
  BY <1>4, <1>5, <1>6, NextSplit

(* Every answer to a running interview uses up one of the answers left or   *)
(* ends it, and nothing in between gives one back - not a model that fails, *)
(* a second round of sub-stages or a submission - but a restart that lost   *)
(* turns not saved.  That leaves as many answers as are stored, and of      *)
(* those every save in a running interview takes away.                      *)
THEOREM AnswersRunOut == Spec => [][RunsOut]_vars
<1>1. HInv /\ [Next]_vars => [RunsOut]_vars
  BY StepRunsOut
<1>2. QED
  BY <1>1, SpecHInv, PTL DEF Spec

----------------------------------------------------------------------------
(* Nothing refills a quota, not even a second round of the sub-stages.     *)
Shrinks ==
    /\ quota'.global <= quota.global
    /\ \A a \in Agents :
          /\ quota'.agent[a] <= quota.agent[a]
          /\ \A s \in Stages : quota'.stage[a][s] <= quota.stage[a][s]

LEMMA StepShrinks ==
    ASSUME IInv, Next, ~Recover
    PROVE  Shrinks
<1>1. quota \in QuotaType /\ config \in Config
  BY Types DEF IInv, FieldsOK
<1>2. CASE Metered
  <2>1. Current \in Agents /\ CurrentStage \in Stages \cup {NoStage}
    BY <1>2, CurrentHolds DEF Metered
  <2>2. quota' = Spent
    BY <1>2 DEF Metered
  <2>3. /\ quota'.global = NonNeg(quota.global - 1)
        /\ \A a \in Agents :
              /\ quota'.agent[a] <= quota.agent[a]
              /\ \A s \in Stages : quota'.stage[a][s] <= quota.stage[a][s]
    BY <1>1, <2>1, <2>2, ConsumeSpends DEF Spent
  <2>4. quota.global \in Nat
    BY <1>1 DEF QuotaType
  <2>5. QED
    BY <2>3, <2>4 DEF NonNeg, Shrinks
<1>3. CASE quota' = quota
  BY <1>1, <1>3 DEF QuotaType, Shrinks
<1>4. SubmitCode => quota' = quota
  BY DEF SubmitCode
<1>5. Asking => Metered
  BY AskShape
<1>6. Finishing => Metered \/ quota' = quota
  BY FinishShape
<1>7. QED
  BY <1>2, <1>3, <1>4, <1>5, <1>6, NextSplit

(* Once a sub-stage, an interviewer or the interview has used a turn it is  *)
(* gone for as long as the process lives: chat, coding and reflect run      *)
(* again on what their first round left, for nothing calls                  *)
(* reset_stage_quota (engine.py, _handle_agent_round_complete).             *)
THEOREM QuotasOnlyShrink == Spec => [][~Recover => Shrinks]_vars
<1>1. IInv /\ [Next]_vars => [~Recover => Shrinks]_vars
  BY StepShrinks
<1>2. QED
  BY <1>1, SpecIInv, PTL DEF Spec

(* An interview does not end early: it is over only when the total is used  *)
(* up, the interviewer of the last round has nothing left, or no round was  *)
(* enabled, whatever the model, the submissions and the recoveries do.      *)
THEOREM NoEarlyEnd == Spec => []EndsOnlyWhenSpent
<1>1. IInv => EndsOnlyWhenSpent
  BY DEF IInv, Floor, EndsOnlyWhenSpent
<1>2. QED
  BY <1>1, SpecIInv, PTL
=============================================================================
