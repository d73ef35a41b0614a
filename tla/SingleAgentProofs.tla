-------------------------- MODULE SingleAgentProofs --------------------------
(* Proofs about module SingleAgent, for any finite number of threads and     *)
(* every total.                                                              *)
EXTENDS SingleAgent, FiniteSetTheorems, TLAPS

Starting == {t \in Threads : request[t].pc = "starting"}

(***************************************************************************)
(* What holds however steps overlap.  TypeOK alone is not inductive: that  *)
(* no stage counts more turns than were taken needs the turns taken whose  *)
(* stage is not looked up yet.                                             *)
(***************************************************************************)
Backed == \A i \in Positions : stageTurns[i] + Cardinality(Starting) <= turnCount

NotTooFar == index + Cardinality(Advancing) <= Last - 2 + Cardinality(Threads)

Overlap == TypeOK /\ QuestionsWithinTotal /\ Backed /\ NotTooFar

----------------------------------------------------------------------------
LEMMA StageMaxValues ==
    /\ StageMax(1) = 4 /\ StageMax(2) = 4 /\ StageMax(3) = 3
    /\ StageMax(4) = 2 /\ StageMax(5) = 2
BY DEF StageMax

LEMMA CardinalityMoves ==
    ASSUME NEW S, IsFiniteSet(S), NEW t
    PROVE  /\ Cardinality(S) \in Nat
           /\ IsFiniteSet(S \cup {t}) /\ IsFiniteSet(S \ {t})
           /\ Cardinality(S \cup {t}) = IF t \in S THEN Cardinality(S) ELSE Cardinality(S) + 1
           /\ Cardinality(S \ {t}) = IF t \in S THEN Cardinality(S) - 1 ELSE Cardinality(S)
BY FS_CardinalityType, FS_AddElement, FS_RemoveElement

LEMMA SetsFinite ==
    /\ IsFiniteSet(Busy) /\ IsFiniteSet(Pending) /\ IsFiniteSet(Starting) /\ IsFiniteSet(Advancing)
    /\ Cardinality(Pending) \in Nat /\ Cardinality(Starting) \in Nat
    /\ Cardinality(Advancing) \in Nat /\ Cardinality(Threads) \in Nat
    /\ Cardinality(Advancing) <= Cardinality(Threads)
<1>1. /\ Busy \subseteq Threads /\ Pending \subseteq Threads
      /\ Starting \subseteq Threads /\ Advancing \subseteq Threads
  BY DEF Busy, Pending, Starting, Advancing
<1>2. QED
  BY <1>1, ThreadsAssumption, FS_Subset, FS_CardinalityType

(* The sets of threads after one of them has moved on.                      *)
LEMMA SetsMove ==
    ASSUME TypeOK, NEW t \in Threads, NEW r, Continue(t, r)
    PROVE  /\ request'[t] = r
           /\ \A u \in Threads \ {t} : request'[u] = request[u]
           /\ Pending' = IF r.pc \in {"idle", "reporting"} THEN Pending \ {t} ELSE Pending \cup {t}
           /\ Starting' = IF r.pc = "starting" THEN Starting \cup {t} ELSE Starting \ {t}
           /\ Advancing' = IF r.pc = "advancing" THEN Advancing \cup {t} ELSE Advancing \ {t}
<1>1. request'[t] = r /\ \A u \in Threads \ {t} : request'[u] = request[u]
  BY DEF Continue, TypeOK
<1>2. Pending' = IF r.pc \in {"idle", "reporting"} THEN Pending \ {t} ELSE Pending \cup {t}
  BY <1>1 DEF Pending, Busy, IsIdle
<1>3. Starting' = IF r.pc = "starting" THEN Starting \cup {t} ELSE Starting \ {t}
  BY <1>1 DEF Starting
<1>4. Advancing' = IF r.pc = "advancing" THEN Advancing \cup {t} ELSE Advancing \ {t}
  BY <1>1 DEF Advancing
<1>5. QED
  BY <1>1, <1>2, <1>3, <1>4

(* How their sizes change: by one, if the thread enters or leaves the set.  *)
Size(S, t, in) ==
    Cardinality(S) + (IF in THEN 1 ELSE 0) - (IF t \in S THEN 1 ELSE 0)

LEMMA SizeIn ==
    ASSUME NEW S, IsFiniteSet(S), NEW t
    PROVE  Cardinality(S \cup {t}) = Size(S, t, TRUE) /\ Cardinality(S \cup {t}) \in Nat
<1>1. Cardinality(S \cup {t}) \in Nat
  BY CardinalityMoves, FS_CardinalityType
<1>2. Cardinality(S) \in Nat
  BY FS_CardinalityType
<1>3. QED
  BY <1>1, <1>2, CardinalityMoves DEF Size

LEMMA SizeOut ==
    ASSUME NEW S, IsFiniteSet(S), NEW t
    PROVE  Cardinality(S \ {t}) = Size(S, t, FALSE) /\ Cardinality(S \ {t}) \in Nat
<1>1. Cardinality(S \ {t}) \in Nat
  BY CardinalityMoves, FS_CardinalityType
<1>2. QED
  BY <1>1, CardinalityMoves DEF Size

LEMMA SizesMove ==
    ASSUME TypeOK, NEW t \in Threads, NEW r, Continue(t, r)
    PROVE  /\ Cardinality(Pending') = Size(Pending, t, r.pc \notin {"idle", "reporting"})
           /\ Cardinality(Starting') = Size(Starting, t, r.pc = "starting")
           /\ Cardinality(Advancing') = Size(Advancing, t, r.pc = "advancing")
           /\ Cardinality(Pending') \in Nat /\ Cardinality(Starting') \in Nat
           /\ Cardinality(Advancing') \in Nat
<1>1. Cardinality(Pending') = Size(Pending, t, r.pc \notin {"idle", "reporting"}) /\ Cardinality(Pending') \in Nat
  <2>1. CASE r.pc \notin {"idle", "reporting"}
    <3>1. Pending' = Pending \cup {t}
      BY <2>1, SetsMove
    <3>2. QED
      BY <2>1, <3>1, SetsFinite, SizeIn
  <2>2. CASE ~(r.pc \notin {"idle", "reporting"})
    <3>1. Pending' = Pending \ {t}
      BY <2>2, SetsMove
    <3>2. QED
      BY <2>2, <3>1, SetsFinite, SizeOut
  <2>3. QED
    BY <2>1, <2>2
<1>2. Cardinality(Starting') = Size(Starting, t, r.pc = "starting") /\ Cardinality(Starting') \in Nat
  <2>1. CASE r.pc = "starting"
    <3>1. Starting' = Starting \cup {t}
      BY <2>1, SetsMove
    <3>2. QED
      BY <2>1, <3>1, SetsFinite, SizeIn
  <2>2. CASE ~(r.pc = "starting")
    <3>1. Starting' = Starting \ {t}
      BY <2>2, SetsMove
    <3>2. QED
      BY <2>2, <3>1, SetsFinite, SizeOut
  <2>3. QED
    BY <2>1, <2>2
<1>3. Cardinality(Advancing') = Size(Advancing, t, r.pc = "advancing") /\ Cardinality(Advancing') \in Nat
  <2>1. CASE r.pc = "advancing"
    <3>1. Advancing' = Advancing \cup {t}
      BY <2>1, SetsMove
    <3>2. QED
      BY <2>1, <3>1, SetsFinite, SizeIn
  <2>2. CASE ~(r.pc = "advancing")
    <3>1. Advancing' = Advancing \ {t}
      BY <2>2, SetsMove
    <3>2. QED
      BY <2>2, <3>1, SetsFinite, SizeOut
  <2>3. QED
    BY <2>1, <2>2
<1>4. QED
  BY <1>1, <1>2, <1>3

LEMMA QuestionsCount ==
    ASSUME TypeOK
    PROVE  /\ Questions \in Nat
           /\ \A i \in Positions :
                 asked' = [asked EXCEPT ![i] = @ + 1] => Questions' = Questions + 1
<1>1. \A i \in Positions : asked[i] \in Nat
  BY DEF TypeOK
<1>2. 1 \in Positions /\ 2 \in Positions /\ 3 \in Positions /\ 4 \in Positions /\ 5 \in Positions
  BY DEF Positions, Last
<1>3. ASSUME NEW i \in Positions, asked' = [asked EXCEPT ![i] = @ + 1]
      PROVE  Questions' = Questions + 1
  <2>1. \A j \in Positions : asked'[j] = IF j = i THEN asked[j] + 1 ELSE asked[j]
    BY <1>3 DEF TypeOK
  <2>2. i \in {1, 2, 3, 4, 5}
    BY DEF Positions, Last
  <2>3. QED
    BY <1>1, <1>2, <2>1, <2>2 DEF Questions
<1>4. QED
  BY <1>1, <1>2, <1>3 DEF Questions

(* A thread that works on a question holds a place among the turns taken.   *)
LEMMA WorkerCounted ==
    ASSUME Overlap, NEW t \in Pending
    PROVE  /\ Cardinality(Pending \ {t}) = Cardinality(Pending) - 1
           /\ Questions + Cardinality(Pending \ {t}) + 1 <= turnCount
           /\ t \notin Starting => Cardinality(Starting) + 1 <= turnCount
<1>1. Questions \in Nat /\ turnCount \in Nat
  BY QuestionsCount DEF Overlap, TypeOK
<1>2. Cardinality(Pending \ {t}) = Cardinality(Pending) - 1
  BY SetsFinite, CardinalityMoves
<1>3. ASSUME t \notin Starting
      PROVE  Cardinality(Starting) + 1 <= turnCount
  <2>1. Starting \subseteq Pending \ {t}
    BY <1>3 DEF Starting, Pending, Busy, IsIdle
  <2>2. Cardinality(Starting) <= Cardinality(Pending \ {t})
    BY <2>1, SetsFinite, CardinalityMoves, FS_Subset
  <2>3. QED
    BY <1>1, <1>2, <2>2, SetsFinite DEF Overlap, QuestionsWithinTotal
<1>4. QED
  BY <1>1, <1>2, <1>3, SetsFinite DEF Overlap, QuestionsWithinTotal

----------------------------------------------------------------------------
(* Requests are well formed.                                                *)
LEMMA RequestTyped ==
    ASSUME TypeOK, NEW t \in Threads, NEW r \in Request, Continue(t, r)
    PROVE  request' \in [Threads -> Request]
BY DEF Continue, TypeOK

LEMMA RequestForms ==
    /\ \A x \in {"none", "question", "report", "error"} : Idle(x) \in Request
    /\ [pc |-> "reporting"] \in Request /\ [pc |-> "starting"] \in Request
    /\ [pc |-> "entering"] \in Request
    /\ \A x \in {"checking", "advancing", "asking"}, i \in Positions : Working(x, i) \in Request
BY DEF Request, Idle, Working

LEMMA WorkingStage ==
    ASSUME TypeOK, NEW t \in Threads, request[t].pc \in {"checking", "advancing", "asking"}
    PROVE  request[t].stage \in Positions
<1>1. request[t] \in Request
  BY DEF TypeOK
<1>2. QED
  BY <1>1 DEF Request

LEMMA CountOverlap ==
    ASSUME Overlap, NEW t \in Threads, Count(t)
    PROVE  Overlap'
<1>1. TypeOK /\ turnCount \in Nat /\ total \in Nat /\ Questions \in Nat /\ Questions' = Questions
  BY QuestionsCount DEF Overlap, TypeOK, Count, Questions
<1> DEFINE r == IF Ends THEN [pc |-> "reporting"] ELSE [pc |-> "starting"]
<1>2. r \in Request /\ Continue(t, r) /\ r.pc = IF Ends THEN "reporting" ELSE "starting"
  BY RequestForms DEF Count
<1>3. TypeOK'
  BY <1>1, <1>2, RequestTyped DEF TypeOK, Count
<1>4. t \notin Pending /\ t \notin Starting /\ t \notin Advancing
  BY DEF Count, IsIdle, Pending, Busy, Starting, Advancing
<1> HIDE DEF r
<1>5. /\ Cardinality(Pending') = IF Ends THEN Cardinality(Pending) ELSE Cardinality(Pending) + 1
      /\ Cardinality(Starting') = IF Ends THEN Cardinality(Starting) ELSE Cardinality(Starting) + 1
      /\ Cardinality(Advancing') = Cardinality(Advancing)
  BY <1>1, <1>2, <1>4, SizesMove, SetsFinite DEF Size
<1>6. QuestionsWithinTotal'
  BY <1>1, <1>5, SetsFinite DEF Overlap, QuestionsWithinTotal, Count, Ends
<1>7. Backed'
  BY <1>1, <1>5, SetsFinite DEF Overlap, Backed, Count, TypeOK
<1>8. NotTooFar'
  BY <1>5 DEF Overlap, NotTooFar, Count
<1>9. QED
  BY <1>3, <1>6, <1>7, <1>8 DEF Overlap

(* A step that ends a request without a question.                           *)
LEMMA GoneOverlap ==
    ASSUME Overlap, NEW t \in Threads, NEW x \in {"report", "error"}, Continue(t, Idle(x)),
           UNCHANGED <<total, turnCount, index, stageTurns, asked, latest, raced>>
    PROVE  Overlap'
<1>1. TypeOK /\ turnCount \in Nat /\ total \in Nat /\ Questions \in Nat /\ Questions' = Questions
      /\ index \in Nat /\ \A i \in Positions : stageTurns[i] \in Nat
  BY QuestionsCount DEF Overlap, TypeOK, Questions
<1>2. Idle(x) \in Request /\ Idle(x).pc = "idle"
  BY RequestForms DEF Idle
<1>3. TypeOK'
  BY <1>1, <1>2, RequestTyped DEF TypeOK
<1>4. /\ Cardinality(Pending') <= Cardinality(Pending) /\ Cardinality(Pending') \in Nat
      /\ Cardinality(Starting') <= Cardinality(Starting) /\ Cardinality(Starting') \in Nat
      /\ Cardinality(Advancing') <= Cardinality(Advancing) /\ Cardinality(Advancing') \in Nat
  BY <1>1, <1>2, SizesMove, SetsFinite DEF Size
<1>5. QuestionsWithinTotal' /\ NotTooFar'
  BY <1>1, <1>4, SetsFinite DEF Overlap, QuestionsWithinTotal, NotTooFar, Last
<1>6. Backed'
  BY <1>1, <1>4, SetsFinite DEF Overlap, Backed
<1>7. QED
  BY <1>3, <1>5, <1>6 DEF Overlap

LEMMA LookUpOverlap ==
    ASSUME Overlap, NEW t \in Threads, LookUp(t)
    PROVE  Overlap'
<1>1. TypeOK /\ turnCount \in Nat /\ total \in Nat /\ Questions \in Nat /\ Questions' = Questions
      /\ index \in Nat /\ \A i \in Positions : stageTurns[i] \in Nat
  BY QuestionsCount DEF Overlap, TypeOK, Questions, LookUp
<1>2. /\ Working("checking", Here) \in Request /\ Working("checking", Here).pc = "checking"
      /\ Continue(t, Working("checking", Here))
  BY RequestForms DEF LookUp, Working
<1>3. t \in Pending /\ t \in Starting /\ t \notin Advancing
  BY DEF LookUp, Pending, Busy, IsIdle, Starting, Advancing
<1>4. /\ Cardinality(Pending') = Cardinality(Pending)
      /\ Cardinality(Starting') = Cardinality(Starting) - 1
      /\ Cardinality(Advancing') = Cardinality(Advancing)
  BY <1>1, <1>2, <1>3, SizesMove, SetsFinite DEF Size
<1>5. Backed'
  BY <1>1, <1>4, SetsFinite DEF Overlap, Backed, LookUp, TypeOK
<1>6. TypeOK'
  <2>1. stageTurns' \in [Positions -> Nat]
    BY <1>1 DEF LookUp, TypeOK
  <2>2. \A i \in Positions : stageTurns'[i] <= turnCount'
    <3>1. Cardinality(Starting') \in Nat
      BY <1>1, <1>2, SizesMove
    <3>2. turnCount' = turnCount
      BY DEF LookUp
    <3>3. QED
      BY <1>1, <1>5, <2>1, <3>1, <3>2 DEF Backed
  <2>3. QED
    BY <1>1, <1>2, <2>1, <2>2, RequestTyped DEF TypeOK, LookUp
<1>7. QuestionsWithinTotal' /\ NotTooFar'
  BY <1>1, <1>4, SetsFinite DEF Overlap, QuestionsWithinTotal, NotTooFar, LookUp
<1>8. QED
  BY <1>5, <1>6, <1>7 DEF Overlap

LEMMA CheckOverlap ==
    ASSUME Overlap, NEW t \in Threads, Check(t)
    PROVE  Overlap'
<1>1. TypeOK /\ turnCount \in Nat /\ total \in Nat /\ Questions \in Nat /\ Questions' = Questions
      /\ index \in Nat /\ \A i \in Positions : stageTurns[i] \in Nat
  BY QuestionsCount DEF Overlap, TypeOK, Questions, Check
<1> DEFINE i == request[t].stage
           x == IF Spent(i) /\ Room THEN "advancing" ELSE "asking"
<1>2. /\ Working(x, i) \in Request /\ Working(x, i).pc = x /\ x \in {"advancing", "asking"}
      /\ Continue(t, Working(x, i)) /\ (x = "advancing" => Room)
  BY <1>1, RequestForms, WorkingStage DEF Check, Working
<1>3. t \in Pending /\ t \notin Starting /\ t \notin Advancing
  BY DEF Check, Pending, Busy, IsIdle, Starting, Advancing
<1> HIDE DEF i, x
<1>4. /\ Cardinality(Pending') = Cardinality(Pending)
      /\ Cardinality(Starting') = Cardinality(Starting)
      /\ x # "advancing" => Cardinality(Advancing') = Cardinality(Advancing)
  BY <1>1, <1>2, <1>3, SizesMove, SetsFinite DEF Size
<1>5. TypeOK'
  BY <1>1, <1>2, RequestTyped DEF TypeOK, Check
<1>6. QuestionsWithinTotal' /\ Backed'
  BY <1>1, <1>4, SetsFinite DEF Overlap, QuestionsWithinTotal, Backed, Check
<1>7. NotTooFar'
  <2>1. CASE x = "advancing"
    <3>1. index <= Last - 2 /\ index' = index
      BY <1>1, <1>2, <2>1 DEF Room, Check, Last
    <3>2. Advancing' \subseteq Threads
      BY DEF Advancing
    <3>3. Cardinality(Advancing') <= Cardinality(Threads) /\ Cardinality(Advancing') \in Nat
      BY <3>2, ThreadsAssumption, FS_Subset, FS_CardinalityType
    <3>4. QED
      BY <1>1, <3>1, <3>3, SetsFinite DEF NotTooFar, Last
  <2>2. CASE x # "advancing"
    BY <1>4, <2>2 DEF Overlap, NotTooFar, Check
  <2>3. QED
    BY <2>1, <2>2
<1>8. QED
  BY <1>5, <1>6, <1>7 DEF Overlap

LEMMA AdvanceOverlap ==
    ASSUME Overlap, NEW t \in Threads, Advance(t)
    PROVE  Overlap'
<1>1. TypeOK /\ turnCount \in Nat /\ total \in Nat /\ Questions \in Nat /\ Questions' = Questions
      /\ index \in Nat /\ \A i \in Positions : stageTurns[i] \in Nat
  BY QuestionsCount DEF Overlap, TypeOK, Questions, Advance
<1> DEFINE r == [pc |-> "entering"]
<1>2. r \in Request /\ r.pc = "entering" /\ Continue(t, r)
  BY RequestForms DEF Advance
<1>3. t \in Pending /\ t \notin Starting /\ t \in Advancing
  BY DEF Advance, Pending, Busy, IsIdle, Starting, Advancing
<1> HIDE DEF r
<1>4. /\ Cardinality(Pending') = Cardinality(Pending)
      /\ Cardinality(Starting') = Cardinality(Starting)
      /\ Cardinality(Advancing') = Cardinality(Advancing) - 1
  BY <1>1, <1>2, <1>3, SizesMove, SetsFinite DEF Size
<1>5. TypeOK'
  BY <1>1, <1>2, RequestTyped DEF TypeOK, Advance
<1>6. QuestionsWithinTotal' /\ Backed' /\ NotTooFar'
  BY <1>1, <1>4, SetsFinite DEF Overlap, QuestionsWithinTotal, Backed, NotTooFar, Advance, Last
<1>7. QED
  BY <1>5, <1>6 DEF Overlap

LEMMA EnterOverlap ==
    ASSUME Overlap, NEW t \in Threads, Enter(t)
    PROVE  Overlap'
<1>1. TypeOK /\ turnCount \in Nat /\ total \in Nat /\ Questions \in Nat /\ Questions' = Questions
      /\ index \in Nat /\ \A i \in Positions : stageTurns[i] \in Nat
  BY QuestionsCount DEF Overlap, TypeOK, Questions, Enter
<1>2. /\ Working("asking", Here) \in Request /\ Working("asking", Here).pc = "asking"
      /\ Continue(t, Working("asking", Here))
  BY RequestForms DEF Enter, Working
<1>3. t \in Pending /\ t \notin Starting /\ t \notin Advancing
  BY DEF Enter, Pending, Busy, IsIdle, Starting, Advancing
<1>4. /\ Cardinality(Pending') = Cardinality(Pending)
      /\ Cardinality(Starting') = Cardinality(Starting)
      /\ Cardinality(Advancing') = Cardinality(Advancing)
  BY <1>1, <1>2, <1>3, SizesMove, SetsFinite DEF Size
<1>5. Backed'
  <2>1. Cardinality(Starting) + 1 <= turnCount
    BY <1>3, WorkerCounted
  <2>2. ASSUME NEW i \in Positions
        PROVE  stageTurns'[i] + Cardinality(Starting') <= turnCount'
    <3>1. stageTurns'[i] = IF i = Here THEN 1 ELSE stageTurns[i]
      BY <1>1 DEF Enter, TypeOK, FirstTurn
    <3>2. turnCount' = turnCount
      BY DEF Enter
    <3>3. QED
      BY <1>1, <1>4, <2>1, <3>1, <3>2, SetsFinite DEF Overlap, Backed
  <2>3. QED
    BY <2>2 DEF Backed
<1>6. TypeOK'
  <2>1. stageTurns' \in [Positions -> Nat] /\ turnCount' = turnCount
    BY <1>1 DEF Enter, TypeOK, FirstTurn
  <2>2. \A i \in Positions : stageTurns'[i] <= turnCount'
    BY <1>1, <1>4, <1>5, <2>1, SetsFinite DEF Backed
  <2>3. QED
    BY <1>1, <1>2, <2>1, <2>2, RequestTyped DEF TypeOK, Enter
<1>7. QuestionsWithinTotal' /\ NotTooFar'
  BY <1>1, <1>4, SetsFinite DEF Overlap, QuestionsWithinTotal, NotTooFar, Enter
<1>8. QED
  BY <1>5, <1>6, <1>7 DEF Overlap

LEMMA PutOverlap ==
    ASSUME Overlap, NEW t \in Threads, Put(t)
    PROVE  Overlap'
<1>1. TypeOK /\ turnCount \in Nat /\ total \in Nat /\ Questions \in Nat
      /\ index \in Nat /\ \A i \in Positions : stageTurns[i] \in Nat
  BY QuestionsCount DEF Overlap, TypeOK
<1>2. request[t].stage \in Positions
  BY <1>1, WorkingStage DEF Put
<1>3. Questions' = Questions + 1
  BY <1>1, <1>2, QuestionsCount DEF Put
<1>4. /\ Idle("question") \in Request /\ Idle("question").pc = "idle"
      /\ Continue(t, Idle("question"))
  BY RequestForms DEF Put, Idle
<1>5. t \in Pending /\ t \notin Starting /\ t \notin Advancing
  BY DEF Put, Pending, Busy, IsIdle, Starting, Advancing
<1>6. /\ Cardinality(Pending') = Cardinality(Pending) - 1
      /\ Cardinality(Starting') = Cardinality(Starting)
      /\ Cardinality(Advancing') = Cardinality(Advancing)
  BY <1>1, <1>4, <1>5, SizesMove, SetsFinite DEF Size
<1>7. TypeOK'
  <2>1. asked' \in [Positions -> Nat] /\ latest' \in Positions \cup {0}
    BY <1>1, <1>2 DEF Put, TypeOK
  <2>2. QED
    BY <1>1, <1>4, <2>1, RequestTyped DEF TypeOK, Put
<1>8. QuestionsWithinTotal' /\ Backed' /\ NotTooFar'
  BY <1>1, <1>3, <1>6, SetsFinite DEF Overlap, QuestionsWithinTotal, Backed, NotTooFar, Put
<1>9. QED
  BY <1>7, <1>8 DEF Overlap

LEMMA InitOverlap == Init => Overlap
<1> SUFFICES ASSUME Init PROVE Overlap
  OBVIOUS
<1>1. total \in Nat \ {0}
  BY TotalsAssumption DEF Init
<1>2. TypeOK
  <2>1. request \in [Threads -> Request]
    BY RequestForms DEF Init
  <2>2. stageTurns \in [Positions -> Nat] /\ asked \in [Positions -> Nat]
    BY DEF Init
  <2>3. \A i \in Positions : stageTurns[i] <= turnCount
    BY DEF Init
  <2>4. turnCount \in Nat /\ index \in Nat /\ latest \in Positions \cup {0} /\ raced \in BOOLEAN
    BY DEF Init
  <2>5. QED
    BY <1>1, <2>1, <2>2, <2>3, <2>4 DEF TypeOK
<1>3. Pending = {} /\ Starting = {} /\ Advancing = {}
  BY DEF Init, Idle, Pending, Busy, IsIdle, Starting, Advancing
<1>4. Cardinality(Pending) = 0 /\ Cardinality(Starting) = 0 /\ Cardinality(Advancing) = 0
  BY <1>3, FS_EmptySet
<1>5. Questions = 0
  BY DEF Init, Questions, Positions, Last
<1>6. QuestionsWithinTotal /\ Backed
  BY <1>1, <1>4, <1>5 DEF Init, QuestionsWithinTotal, Backed
<1>7. NotTooFar
  BY <1>4, SetsFinite DEF Init, NotTooFar, Last
<1>8. QED
  BY <1>2, <1>6, <1>7 DEF Overlap

LEMMA NextOverlap == Overlap /\ [Next]_vars => Overlap'
<1> SUFFICES ASSUME Overlap, [Next]_vars PROVE Overlap'
  OBVIOUS
<1>1. ASSUME NEW t \in Threads, Step(t)
      PROVE  Overlap'
  <2>1. Report(t) \/ OutOfStages(t) => Overlap'
    BY GoneOverlap DEF Report, OutOfStages
  <2>2. QED
    BY <1>1, <2>1, CountOverlap, LookUpOverlap, CheckOverlap, AdvanceOverlap,
       EnterOverlap, PutOverlap DEF Step
<1>2. CASE UNCHANGED vars
  BY <1>2 DEF vars, Overlap, TypeOK, QuestionsWithinTotal, Questions, Backed, NotTooFar,
     Pending, Busy, IsIdle, Starting, Advancing
<1>3. QED
  BY <1>1, <1>2 DEF Next, Done

LEMMA OverlapInvariance == Spec => []Overlap
BY InitOverlap, NextOverlap, PTL DEF Spec

(* The fields stay in their types, and no stage counts more turns than were *)
(* taken.                                                                   *)
THEOREM SingleTypeCorrect == Spec => []TypeOK
<1>1. Overlap => TypeOK
  BY DEF Overlap
<1>2. QED
  BY <1>1, OverlapInvariance, PTL

(* However steps overlap, there are fewer questions than total_max_turns.   *)
THEOREM SingleStaysWithinTotal == Spec => []QuestionsWithinTotal
<1>1. Overlap => QuestionsWithinTotal
  BY DEF Overlap
<1>2. QED
  BY <1>1, OverlapInvariance, PTL

(* Once the report is due no question is granted any more.                  *)
THEOREM SingleEndIsFinal == Spec => EndIsFinal
<1> DEFINE A ==
        turnCount >= total =>
          /\ Pending' \subseteq Pending
          /\ Questions' + Cardinality(Pending') <= Questions + Cardinality(Pending)
<1>1. ASSUME Overlap, [Next]_vars
      PROVE  [A]_vars
  <2> SUFFICES ASSUME turnCount >= total, Next
               PROVE  /\ Pending' \subseteq Pending
                      /\ Questions' + Cardinality(Pending')
                            <= Questions + Cardinality(Pending)
    BY <1>1
  <2>1. TypeOK /\ turnCount \in Nat /\ total \in Nat /\ Questions \in Nat
    BY <1>1, QuestionsCount DEF Overlap, TypeOK
  <2>2. ASSUME NEW t \in Threads, NEW r, Continue(t, r), UNCHANGED asked,
               r.pc \in {"idle", "reporting"} \/ t \in Pending
        PROVE  /\ Pending' \subseteq Pending
               /\ Questions' + Cardinality(Pending') <= Questions + Cardinality(Pending)
    <3>1. Questions' = Questions
      BY <2>2 DEF Questions
    <3>2. Pending' \subseteq Pending
      BY <2>1, <2>2, SetsMove
    <3>3. Cardinality(Pending') <= Cardinality(Pending) /\ Cardinality(Pending') \in Nat
      BY <3>2, SetsFinite, FS_Subset, FS_CardinalityType
    <3>4. QED
      BY <2>1, <3>1, <3>2, <3>3, SetsFinite
  <2>3. ASSUME NEW t \in Threads, Count(t)
        PROVE  /\ Pending' \subseteq Pending
               /\ Questions' + Cardinality(Pending') <= Questions + Cardinality(Pending)
    <3>1. Continue(t, [pc |-> "reporting"]) /\ UNCHANGED asked
      BY <2>1, <2>3 DEF Count, Ends
    <3>2. QED
      BY <2>2, <3>1
  <2>4. ASSUME NEW t \in Threads, Report(t) \/ OutOfStages(t)
        PROVE  /\ Pending' \subseteq Pending
               /\ Questions' + Cardinality(Pending') <= Questions + Cardinality(Pending)
    <3>1. UNCHANGED asked /\ (Continue(t, Idle("report")) \/ Continue(t, Idle("error")))
      BY <2>4 DEF Report, OutOfStages
    <3>2. Idle("report").pc = "idle" /\ Idle("error").pc = "idle"
      BY DEF Idle
    <3>3. QED
      BY <2>2, <3>1, <3>2
  <2>5. ASSUME NEW t \in Threads, LookUp(t) \/ Check(t) \/ Advance(t) \/ Enter(t)
        PROVE  /\ Pending' \subseteq Pending
               /\ Questions' + Cardinality(Pending') <= Questions + Cardinality(Pending)
    <3>1. UNCHANGED asked /\ \E r : Continue(t, r)
      BY <2>5 DEF LookUp, Check, Advance, Enter
    <3>2. t \in Pending
      BY <2>5 DEF LookUp, Check, Advance, Enter, Pending, Busy, IsIdle
    <3>3. QED
      BY <2>2, <3>1, <3>2
  <2>6. ASSUME NEW t \in Threads, Put(t)
        PROVE  /\ Pending' \subseteq Pending
               /\ Questions' + Cardinality(Pending') <= Questions + Cardinality(Pending)
    <3>1. t \in Pending /\ Continue(t, Idle("question")) /\ Idle("question").pc = "idle"
      BY <2>6 DEF Put, Pending, Busy, IsIdle, Idle
    <3>2. Pending' = Pending \ {t}
      BY <2>1, <3>1, SetsMove
    <3>3. Cardinality(Pending') = Cardinality(Pending) - 1
      BY <2>1, <3>1, SizesMove, SetsFinite DEF Size
    <3>4. Questions' = Questions + 1
      BY <2>1, <2>6, WorkingStage, QuestionsCount DEF Put
    <3>5. QED
      BY <2>1, <3>2, <3>3, <3>4, SetsFinite
  <2>7. CASE UNCHANGED vars
    BY <2>1, <2>7, SetsFinite DEF vars, Questions, Pending, Busy, IsIdle
  <2>8. QED
    BY <2>3, <2>4, <2>5, <2>6, <2>7 DEF Next, Done, Step
<1>2. QED
  BY <1>1, OverlapInvariance, PTL DEF Spec, EndIsFinal

----------------------------------------------------------------------------
(***************************************************************************)
(* What holds as long as steps follow one another.  StageShare is not      *)
(* inductive: it says nothing of how far the present stage has counted     *)
(* while a step is between its look-ups.                                   *)
(***************************************************************************)
WorkAt(t) ==
    /\ request[t].pc \in {"checking", "advancing", "asking"} =>
          request[t].stage = Here /\ stageTurns[Here] = asked[Here] + 1
    /\ request[t].pc = "checking" => (Here < Last => asked[Here] < StageMax(Here))
    /\ request[t].pc = "advancing" => Here < Last /\ asked[Here] = StageMax(Here) - 1
    /\ request[t].pc = "asking" => (Here < Last => stageTurns[Here] < StageMax(Here))
    /\ request[t].pc = "entering" => asked[Here] = 0

Between(t) == request[t].pc \in {"idle", "reporting", "starting", "entering"}

Ordered ==
    /\ Here \in Positions
    /\ \A u, v \in Busy : u = v
    /\ \A i \in Positions : i < Here => asked[i] = StageMax(i) - 1
    /\ \A i \in Positions : i > Here => asked[i] = 0 /\ stageTurns[i] = 0
    /\ latest = IF asked[Here] = 0 THEN index ELSE Here
    /\ \A t \in Threads : WorkAt(t)
    /\ (\A t \in Threads : Between(t)) =>
          stageTurns[Here] = asked[Here] /\ (Here < Last => asked[Here] < StageMax(Here))

LEMMA StageMaxTyped ==
    \A i \in Positions : StageMax(i) \in Nat /\ StageMax(i) >= 2
<1>1. \A i \in Positions : i \in {1, 2, 3, 4, 5}
  BY DEF Positions, Last
<1>2. QED
  BY <1>1, StageMaxValues

(* The facts every step starts from, and that the other threads are idle.   *)
LEMMA OrderedFacts ==
    ASSUME TypeOK, Ordered
    PROVE  /\ Here \in Positions /\ index \in Nat /\ Here = index + 1 /\ Last = 5
           /\ StageMax(Here) \in Nat /\ StageMax(Here) >= 2
           /\ asked[Here] \in Nat /\ stageTurns[Here] \in Nat
BY StageMaxTyped DEF Ordered, TypeOK, Here, Last

LEMMA OthersIdle ==
    ASSUME Ordered, NEW t \in Busy, NEW u \in Threads, u # t
    PROVE  request[u].pc = "idle"
BY DEF Ordered, Busy, IsIdle

(* A step of t that leaves the stages alone.                                *)
LEMMA StillOrdered ==
    ASSUME TypeOK, Ordered, NEW t \in Threads, NEW r, Continue(t, r),
           \A u \in Threads \ {t} : request[u].pc = "idle",
           UNCHANGED <<index, stageTurns, asked, latest>>,
           WorkAt(t)',
           Between(t)' =>
              stageTurns[Here] = asked[Here] /\ (Here < Last => asked[Here] < StageMax(Here))
    PROVE  Ordered'
<1>1. /\ request'[t] = r
      /\ \A u \in Threads \ {t} : request'[u] = request[u]
  BY SetsMove
<1>2. Here' = Here
  BY DEF Here
<1>3. \A u \in Threads \ {t} : WorkAt(u)'
  BY <1>1 DEF WorkAt
<1>4. \A u, v \in Busy' : u = v
  BY <1>1 DEF Busy, IsIdle
<1>5. QED
  BY <1>2, <1>3, <1>4 DEF Ordered

LEMMA CountOrdered ==
    ASSUME TypeOK, Ordered, NEW t \in Threads, Count(t), ~raced'
    PROVE  Ordered'
<1>1. Busy = {}
  BY DEF Count
<1>2. \A u \in Threads : request[u].pc = "idle"
  BY <1>1 DEF Busy, IsIdle
<1> DEFINE r == IF Ends THEN [pc |-> "reporting"] ELSE [pc |-> "starting"]
<1>3. Continue(t, r) /\ r.pc \in {"reporting", "starting"}
  BY DEF Count
<1>4. request'[t] = r
  BY <1>3, SetsMove
<1> HIDE DEF r
<1>5. WorkAt(t)'
  BY <1>3, <1>4 DEF WorkAt
<1>6. stageTurns[Here] = asked[Here] /\ (Here < Last => asked[Here] < StageMax(Here))
  BY <1>2 DEF Ordered, Between
<1>7. QED
  BY <1>2, <1>3, <1>5, <1>6, StillOrdered DEF Count

LEMMA GoneOrdered ==
    ASSUME TypeOK, Ordered, NEW t \in Threads, Between(t), ~IsIdle(t),
           NEW x, Continue(t, Idle(x)),
           UNCHANGED <<index, stageTurns, asked, latest>>
    PROVE  Ordered'
<1>1. \A u \in Threads \ {t} : request[u].pc = "idle"
  BY OthersIdle DEF Busy
<1>2. request'[t].pc = "idle"
  BY SetsMove DEF Idle
<1>3. WorkAt(t)'
  BY <1>2 DEF WorkAt
<1>4. stageTurns[Here] = asked[Here] /\ (Here < Last => asked[Here] < StageMax(Here))
  BY <1>1 DEF Ordered, Between
<1>5. QED
  BY <1>1, <1>3, <1>4, StillOrdered

LEMMA LookUpOrdered ==
    ASSUME TypeOK, Ordered, NEW t \in Threads, LookUp(t)
    PROVE  Ordered'
<1>1. \A u \in Threads \ {t} : request[u].pc = "idle"
  BY OthersIdle DEF Busy, IsIdle, LookUp
<1>2. /\ request'[t] = Working("checking", Here)
      /\ \A u \in Threads \ {t} : request'[u] = request[u]
  BY SetsMove DEF LookUp
<1>3. request'[t].pc = "checking" /\ request'[t].stage = Here /\ Here' = Here
  BY <1>2 DEF Working, LookUp, Here
<1>4. stageTurns[Here] = asked[Here] /\ (Here < Last => asked[Here] < StageMax(Here))
  BY <1>1 DEF Ordered, Between, LookUp
<1>5. /\ stageTurns'[Here] = stageTurns[Here] + 1
      /\ \A i \in Positions \ {Here} : stageTurns'[i] = stageTurns[i]
  BY DEF LookUp, TypeOK
<1>6. WorkAt(t)'
  BY <1>3, <1>4, <1>5 DEF WorkAt, LookUp
<1>7. \A u \in Threads \ {t} : WorkAt(u)'
  BY <1>1, <1>2 DEF WorkAt
<1>8. \A u, v \in Busy' : u = v
  BY <1>1, <1>2 DEF Busy, IsIdle
<1>9. \A i \in Positions : i > Here => asked[i] = 0 /\ stageTurns'[i] = 0
  BY <1>5, OrderedFacts DEF Ordered
<1>10. QED
  BY <1>3, <1>6, <1>7, <1>8, <1>9 DEF Ordered, LookUp, Between

LEMMA CheckOrdered ==
    ASSUME TypeOK, Ordered, NEW t \in Threads, Check(t)
    PROVE  Ordered'
<1>1. \A u \in Threads \ {t} : request[u].pc = "idle"
  BY OthersIdle DEF Busy, IsIdle, Check
<1>2. /\ request[t].stage = Here /\ stageTurns[Here] = asked[Here] + 1
      /\ Here < Last => asked[Here] < StageMax(Here)
  BY DEF Ordered, WorkAt, Check
<1> DEFINE x == IF Spent(Here) /\ Room THEN "advancing" ELSE "asking"
<1>3. Continue(t, Working(x, Here)) /\ Here' = Here
  BY <1>2 DEF Check, Here
<1>4. /\ request'[t] = Working(x, Here)
      /\ request'[t].pc = x /\ request'[t].stage = Here
  BY <1>3, SetsMove DEF Working
<1>5. Room <=> Here < Last
  BY OrderedFacts DEF Room, Here, Last
<1>6. x = "advancing" => Here < Last /\ asked[Here] = StageMax(Here) - 1
  BY <1>2, <1>5, OrderedFacts DEF Spent
<1>7. x = "asking" => (Here < Last => stageTurns[Here] < StageMax(Here))
  BY <1>5, OrderedFacts DEF Spent
<1>8. x \in {"advancing", "asking"}
  OBVIOUS
<1> HIDE DEF x
<1>9. WorkAt(t)'
  BY <1>2, <1>3, <1>4, <1>6, <1>7, <1>8 DEF WorkAt, Check
<1>10. ~Between(t)'
  BY <1>4, <1>8 DEF Between
<1>11. QED
  BY <1>1, <1>3, <1>9, <1>10, StillOrdered DEF Check

LEMMA AdvanceOrdered ==
    ASSUME TypeOK, Ordered, NEW t \in Threads, Advance(t)
    PROVE  Ordered'
<1>1. \A u \in Threads \ {t} : request[u].pc = "idle"
  BY OthersIdle DEF Busy, IsIdle, Advance
<1>2. /\ Here < Last /\ asked[Here] = StageMax(Here) - 1
  BY DEF Ordered, WorkAt, Advance
<1>3. /\ request'[t] = [pc |-> "entering"]
      /\ \A u \in Threads \ {t} : request'[u] = request[u]
  BY SetsMove DEF Advance
<1>4. Here' = Here + 1 /\ Here' \in Positions /\ index' = Here
  BY <1>2, OrderedFacts DEF Advance, Here, Positions
<1>5. asked[Here + 1] = 0 /\ stageTurns[Here + 1] = 0
  BY <1>4, OrderedFacts DEF Ordered
<1>6. latest = Here
  BY <1>2, OrderedFacts DEF Ordered
<1>7. \A u \in Threads : WorkAt(u)'
  BY <1>1, <1>3, <1>4, <1>5 DEF WorkAt, Advance
<1>8. \A u, v \in Busy' : u = v
  BY <1>1, <1>3 DEF Busy, IsIdle
<1>9. \A i \in Positions :
         /\ i < Here' => asked[i] = StageMax(i) - 1
         /\ i > Here' => asked[i] = 0 /\ stageTurns[i] = 0
  BY <1>2, <1>4, OrderedFacts DEF Ordered, Positions
<1>10. 0 < StageMax(Here')
  BY <1>4, StageMaxTyped
<1>11. QED
  BY <1>4, <1>5, <1>6, <1>7, <1>8, <1>9, <1>10 DEF Ordered, Advance

LEMMA EnterOrdered ==
    ASSUME TypeOK, Ordered, NEW t \in Threads, Enter(t)
    PROVE  Ordered'
<1>1. \A u \in Threads \ {t} : request[u].pc = "idle"
  BY OthersIdle DEF Busy, IsIdle, Enter
<1>2. asked[Here] = 0
  BY DEF Ordered, WorkAt, Enter
<1>3. /\ request'[t] = Working("asking", Here)
      /\ \A u \in Threads \ {t} : request'[u] = request[u]
  BY SetsMove DEF Enter
<1>4. request'[t].pc = "asking" /\ request'[t].stage = Here /\ Here' = Here
  BY <1>3 DEF Working, Enter, Here
<1>5. /\ stageTurns'[Here] = 1
      /\ \A i \in Positions \ {Here} : stageTurns'[i] = stageTurns[i]
  BY DEF Enter, TypeOK, FirstTurn
<1>6. WorkAt(t)'
  BY <1>2, <1>4, <1>5, OrderedFacts DEF WorkAt, Enter
<1>7. \A u \in Threads \ {t} : WorkAt(u)'
  BY <1>1, <1>3 DEF WorkAt
<1>8. \A u, v \in Busy' : u = v
  BY <1>1, <1>3 DEF Busy, IsIdle
<1>9. \A i \in Positions : i > Here => asked[i] = 0 /\ stageTurns'[i] = 0
  BY <1>5, OrderedFacts DEF Ordered
<1>10. QED
  BY <1>4, <1>6, <1>7, <1>8, <1>9 DEF Ordered, Enter, Between

LEMMA PutOrdered ==
    ASSUME TypeOK, Ordered, NEW t \in Threads, Put(t)
    PROVE  Ordered' /\ latest' \in {latest, latest + 1}
<1>1. \A u \in Threads \ {t} : request[u].pc = "idle"
  BY OthersIdle DEF Busy, IsIdle, Put
<1>2. /\ request[t].stage = Here /\ stageTurns[Here] = asked[Here] + 1
      /\ Here < Last => stageTurns[Here] < StageMax(Here)
  BY DEF Ordered, WorkAt, Put
<1>3. /\ request'[t].pc = "idle"
      /\ \A u \in Threads \ {t} : request'[u] = request[u]
  BY SetsMove DEF Put, Idle
<1>4. Here' = Here /\ latest' = Here
  BY <1>2 DEF Put, Here
<1>5. /\ asked'[Here] = asked[Here] + 1
      /\ \A i \in Positions \ {Here} : asked'[i] = asked[i]
  BY <1>2, OrderedFacts DEF Put, TypeOK
<1>6. latest' \in {latest, latest + 1}
  BY <1>4, OrderedFacts DEF Ordered
<1>7. \A u \in Threads : WorkAt(u)'
  BY <1>1, <1>3 DEF WorkAt
<1>8. \A u, v \in Busy' : u = v
  BY <1>1, <1>3 DEF Busy, IsIdle
<1>9. \A i \in Positions :
         /\ i < Here => asked'[i] = StageMax(i) - 1
         /\ i > Here => asked'[i] = 0 /\ stageTurns[i] = 0
  BY <1>5, OrderedFacts DEF Ordered
<1>10. asked'[Here] # 0
  BY <1>5, OrderedFacts
<1>11. QED
  BY <1>2, <1>4, <1>5, <1>6, <1>7, <1>8, <1>9, <1>10 DEF Ordered, Put

----------------------------------------------------------------------------
IInv == Overlap /\ (raced \/ Ordered)

LEMMA InitOrdered == Init => Ordered
<1> SUFFICES ASSUME Init PROVE Ordered
  OBVIOUS
<1>1. Here = 1 /\ Here \in Positions /\ index = 0
  BY DEF Init, Here, Positions, Last
<1>2. \A i \in Positions : stageTurns[i] = 0 /\ asked[i] = 0 /\ i >= 1
  BY DEF Init, Positions, Last
<1>3. \A t \in Threads : request[t].pc = "idle"
  BY DEF Init, Idle
<1>4. (\A u, v \in Busy : u = v) /\ \A t \in Threads : WorkAt(t)
  BY <1>3 DEF Busy, IsIdle, WorkAt
<1>5. latest = IF asked[Here] = 0 THEN index ELSE Here
  BY <1>1, <1>2 DEF Init
<1>6. stageTurns[Here] = asked[Here] /\ asked[Here] < StageMax(Here)
  BY <1>1, <1>2, StageMaxTyped
<1>7. \A i \in Positions : ~(i < Here)
  BY <1>1, <1>2 DEF Positions
<1>8. QED
  BY <1>1, <1>2, <1>4, <1>5, <1>6, <1>7 DEF Ordered

(* A step that does not overlap another keeps the order, and puts a         *)
(* question of the same stage or of the next, if it puts one.               *)
LEMMA NextOrdered ==
    ASSUME IInv, [Next]_vars, ~raced'
    PROVE  Ordered /\ Ordered' /\ latest' \in {latest, latest + 1}
<1>1. TypeOK /\ Ordered
  <2>1. ~raced
    BY DEF Next, Done, Step, Count, Report, OutOfStages, LookUp, Check, Advance, Enter, Put, vars
  <2>2. QED
    BY <2>1 DEF IInv, Overlap
<1>2. ASSUME NEW t \in Threads, Step(t)
      PROVE  Ordered' /\ latest' \in {latest, latest + 1}
  <2>1. CASE Count(t)
    BY <1>1, <2>1, CountOrdered DEF Count
  <2>2. CASE Report(t)
    BY <1>1, <2>2, GoneOrdered DEF Report, Between, IsIdle
  <2>3. CASE OutOfStages(t)
    BY <1>1, <2>3, GoneOrdered DEF OutOfStages, Between, IsIdle
  <2>4. CASE LookUp(t)
    BY <1>1, <2>4, LookUpOrdered DEF LookUp
  <2>5. CASE Check(t)
    BY <1>1, <2>5, CheckOrdered DEF Check
  <2>6. CASE Advance(t)
    BY <1>1, <2>6, AdvanceOrdered DEF Advance
  <2>7. CASE Enter(t)
    BY <1>1, <2>7, EnterOrdered DEF Enter
  <2>8. CASE Put(t)
    BY <1>1, <2>8, PutOrdered
  <2>9. QED
    BY <1>2, <2>1, <2>2, <2>3, <2>4, <2>5, <2>6, <2>7, <2>8 DEF Step
<1>3. CASE UNCHANGED vars
  BY <1>1, <1>3 DEF vars, Ordered, Here, Busy, IsIdle, WorkAt, Between
<1>4. QED
  BY <1>1, <1>2, <1>3 DEF Next, Done

LEMMA OrderInvariance == Spec => []IInv
<1>1. Init => IInv
  BY InitOverlap, InitOrdered DEF IInv
<1>2. IInv /\ [Next]_vars => IInv'
  <2> SUFFICES ASSUME IInv, [Next]_vars PROVE IInv'
    OBVIOUS
  <2>1. Overlap'
    BY NextOverlap DEF IInv
  <2>2. raced' \/ Ordered'
    BY NextOrdered
  <2>3. QED
    BY <2>1, <2>2 DEF IInv
<1>3. QED
  BY <1>1, <1>2, PTL DEF Spec

(* As long as steps follow one another, every stage but the last gives way  *)
(* one question short of its max_turns.                                     *)
THEOREM SingleStageShare == Spec => []StageShare
<1>1. IInv => StageShare
  <2> SUFFICES ASSUME IInv, ~raced, NEW i \in Positions, i < Last
               PROVE  /\ asked[i] < StageMax(i)
                      /\ i < Here /\ Busy = {} => asked[i] = StageMax(i) - 1
    BY DEF StageShare
  <2>1. TypeOK /\ Ordered
    BY DEF IInv, Overlap
  <2>2. StageMax(i) \in Nat /\ StageMax(i) >= 2 /\ asked[i] \in Nat /\ i \in Nat
    BY <2>1, StageMaxTyped DEF TypeOK, Positions
  <2>3. CASE i < Here
    BY <2>1, <2>2, <2>3 DEF Ordered
  <2>4. CASE i > Here
    <3>1. asked[i] = 0 /\ ~(i < Here)
      BY <2>1, <2>2, <2>4, OrderedFacts DEF Ordered
    <3>2. QED
      BY <2>2, <3>1
  <2>5. CASE i = Here
    <3>1. asked[Here] < StageMax(Here)
      <4>1. CASE \A t \in Threads : Between(t)
        BY <2>1, <2>5, <4>1 DEF Ordered
      <4>2. CASE \E t \in Threads : ~Between(t)
        <5>1. PICK t \in Threads : ~Between(t)
          BY <4>2
        <5>2. WorkAt(t) /\ request[t] \in Request
          BY <2>1 DEF Ordered, TypeOK
        <5>3. request[t].pc \in {"checking", "advancing", "asking"}
          BY <5>1, <5>2 DEF Between, Request
        <5>4. QED
          BY <2>1, <2>5, <5>2, <5>3, OrderedFacts DEF WorkAt
      <4>3. QED
        BY <4>1, <4>2
    <3>2. QED
      BY <2>1, <2>5, <3>1, OrderedFacts
  <2>6. QED
    BY <2>1, <2>2, <2>3, <2>4, <2>5, OrderedFacts
<1>2. QED
  BY <1>1, OrderInvariance, PTL

(* The index passes the last stage only when steps overlap, and by less     *)
(* than the number of threads.                                              *)
THEOREM SingleIndexBounded == Spec => []IndexBounded
<1>1. IInv => IndexBounded
  BY DEF IInv, Overlap, Ordered, NotTooFar, IndexBounded
<1>2. QED
  BY <1>1, OrderInvariance, PTL

(* As long as steps follow one another no stage is skipped or comes back.   *)
THEOREM SingleStageOrder == Spec => StageOrder
<1>1. IInv /\ [Next]_vars => [~raced' => latest' \in {latest, latest + 1}]_vars
  BY NextOrdered
<1>2. QED
  BY <1>1, OrderInvariance, PTL DEF Spec, StageOrder

----------------------------------------------------------------------------
(***************************************************************************)
(* The overlap contract.  What a step does to the four quantities the      *)
(* contract speaks of, and then that each of these moves is one of its     *)
(* actions.                                                                *)
(***************************************************************************)
InFlight == Cardinality(Pending)

Keeps == UNCHANGED <<total, turnCount, Questions, InFlight>>

Earns ==
    /\ turnCount + 1 < total /\ turnCount' = turnCount + 1
    /\ InFlight' = InFlight + 1
    /\ UNCHANGED <<total, Questions>>

EndsNow ==
    /\ turnCount + 1 = total /\ turnCount' = turnCount + 1
    /\ UNCHANGED <<total, Questions, InFlight>>

EndedBefore ==
    /\ turnCount >= total /\ turnCount' = turnCount + 1
    /\ UNCHANGED <<total, Questions, InFlight>>

Settles ==
    /\ InFlight > 0 /\ InFlight' = InFlight - 1
    /\ Questions' \in {Questions, Questions + 1}
    /\ UNCHANGED <<total, turnCount>>

LEMMA ContractFacts ==
    ASSUME Overlap
    PROVE  /\ TypeOK /\ turnCount \in Nat /\ total \in Nat \ {0}
           /\ Questions \in Nat /\ InFlight \in Nat
BY QuestionsCount, SetsFinite DEF Overlap, TypeOK, InFlight

LEMMA CountSettled ==
    ASSUME Overlap, NEW t \in Threads, Count(t)
    PROVE  Earns \/ EndsNow \/ EndedBefore
<1>1. Questions' = Questions /\ total' = total /\ turnCount' = turnCount + 1
  BY DEF Count, Questions
<1> DEFINE r == IF Ends THEN [pc |-> "reporting"] ELSE [pc |-> "starting"]
<1>2. Continue(t, r) /\ r.pc = IF Ends THEN "reporting" ELSE "starting"
  BY DEF Count
<1>3. t \notin Pending
  BY DEF Count, IsIdle, Pending, Busy
<1> HIDE DEF r
<1>4. InFlight' = IF Ends THEN InFlight ELSE InFlight + 1
  BY <1>2, <1>3, ContractFacts, SizesMove, SetsFinite DEF Size, InFlight
<1>5. QED
  BY <1>1, <1>4, ContractFacts DEF Ends, Earns, EndsNow, EndedBefore

(* A thread that goes on, without a question yet or with its report.       *)
LEMMA GoesOn ==
    ASSUME Overlap, NEW t \in Threads, NEW r, Continue(t, r),
           t \in Pending <=> r.pc \notin {"idle", "reporting"},
           UNCHANGED <<total, turnCount, asked>>
    PROVE  Keeps
<1>1. Questions' = Questions
  BY DEF Questions
<1>2. InFlight' = InFlight
  BY ContractFacts, SizesMove, SetsFinite DEF Size, InFlight
<1>3. QED
  BY <1>1, <1>2 DEF Keeps

(* A thread that has raised.                                               *)
LEMMA RaiseSettles ==
    ASSUME Overlap, NEW t \in Threads, OutOfStages(t)
    PROVE  Settles
<1>1. t \in Pending /\ Continue(t, Idle("error")) /\ Idle("error").pc = "idle"
  BY DEF OutOfStages, Pending, Busy, IsIdle, Idle
<1>2. InFlight' = InFlight - 1
  BY <1>1, ContractFacts, SizesMove, SetsFinite DEF Size, InFlight
<1>3. InFlight' \in Nat
  BY <1>1, ContractFacts, SizesMove DEF InFlight
<1>4. Questions' = Questions
  BY DEF OutOfStages, Questions
<1>5. QED
  BY <1>2, <1>3, <1>4, ContractFacts DEF OutOfStages, Settles

LEMMA PutSettles ==
    ASSUME Overlap, NEW t \in Threads, Put(t)
    PROVE  Settles
<1>1. t \in Pending /\ Continue(t, Idle("question")) /\ Idle("question").pc = "idle"
  BY DEF Put, Pending, Busy, IsIdle, Idle
<1>2. InFlight' = InFlight - 1
  BY <1>1, ContractFacts, SizesMove, SetsFinite DEF Size, InFlight
<1>3. InFlight' \in Nat
  BY <1>1, ContractFacts, SizesMove DEF InFlight
<1>4. Questions' = Questions + 1
  BY ContractFacts, WorkingStage, QuestionsCount DEF Put
<1>5. QED
  BY <1>2, <1>3, <1>4, ContractFacts DEF Put, Settles

LEMMA StepMoves ==
    ASSUME Overlap, [Next]_vars
    PROVE  Earns \/ EndsNow \/ EndedBefore \/ Settles \/ Keeps
<1>1. CASE UNCHANGED vars
  BY <1>1 DEF vars, Keeps, Questions, InFlight, Pending, Busy, IsIdle
<1>2. ASSUME NEW t \in Threads, Step(t)
      PROVE  Earns \/ EndsNow \/ EndedBefore \/ Settles \/ Keeps
  <2>1. CASE Count(t)
    BY <2>1, CountSettled
  <2>2. CASE Report(t)
    <3>1. /\ Continue(t, Idle("report")) /\ Idle("report").pc = "idle" /\ t \notin Pending
          /\ UNCHANGED <<total, turnCount, asked>>
      BY <2>2 DEF Report, Idle, Pending
    <3>2. QED
      BY <3>1, GoesOn
  <2>3. CASE OutOfStages(t)
    BY <2>3, RaiseSettles
  <2>4. CASE LookUp(t) \/ Check(t) \/ Advance(t) \/ Enter(t)
    <3>1. t \in Pending /\ UNCHANGED <<total, turnCount, asked>>
      BY <2>4 DEF LookUp, Check, Advance, Enter, Pending, Busy, IsIdle
    <3>2. \E r : Continue(t, r) /\ r.pc \notin {"idle", "reporting"}
      <4>1. \A x, i : Working(x, i).pc = x
        BY DEF Working
      <4>2. CASE LookUp(t)
        BY <4>1, <4>2 DEF LookUp
      <4>3. CASE Check(t)
        <5>1. PICK x \in {"advancing", "asking"} : Continue(t, Working(x, request[t].stage))
          BY <4>3 DEF Check
        <5>2. QED
          BY <4>1, <5>1
      <4>4. CASE Advance(t)
        BY <4>4 DEF Advance
      <4>5. CASE Enter(t)
        BY <4>1, <4>5 DEF Enter
      <4>6. QED
        BY <2>4, <4>2, <4>3, <4>4, <4>5
    <3>3. QED
      BY <3>1, <3>2, GoesOn
  <2>5. CASE Put(t)
    BY <2>5, PutSettles
  <2>6. QED
    BY <1>2, <2>1, <2>2, <2>3, <2>4, <2>5 DEF Step
<1>3. QED
  BY <1>1, <1>2 DEF Next, Done

LEMMA OneRound ==
    ASSUME NEW c, NEW d
    PROVE  /\ [[k \in 1 .. 1 |-> c] EXCEPT ![1] = d] = [k \in 1 .. 1 |-> d]
           /\ [k \in 1 .. 1 |-> c][1] = c
           /\ 1 \in 1 .. 1
<1>1. 1 .. 1 = {1}
  OBVIOUS
<1>2. [[k \in {1} |-> c] EXCEPT ![1] = d] = [k \in {1} |-> d]
  OBVIOUS
<1>3. QED
  BY <1>1, <1>2

(* A step of the baseline is one of the contract.                          *)
LEMMA StepShared ==
    ASSUME Overlap, [Next]_vars
    PROVE  [Shared!SharedNext]_(Shared!sharedVars)
<1>1. /\ turnCount \in Nat /\ total \in Nat \ {0}
      /\ Questions \in Nat /\ InFlight \in Nat
  BY ContractFacts
<1> DEFINE f(c) == [k \in 1 .. 1 |-> c]
<1>2. /\ \A c, d : [f(c) EXCEPT ![1] = d] = f(d)
      /\ \A c : f(c)[1] = c
      /\ 1 \in 1 .. 1
  BY OneRound
<1>3. total' = total
  BY StepMoves DEF Earns, EndsNow, EndedBefore, Settles, Keeps
<1>4. Shared!Keeps
  BY <1>3 DEF Shared!Keeps
<1>5. ASSUME \/ Shared!Earn(1) \/ Shared!Settle(1) \/ Shared!End
             \/ UNCHANGED Shared!standing
      PROVE  Shared!SharedNext
  BY <1>2, <1>4, <1>5 DEF Shared!SharedNext
<1>6. CASE Earns
  <2>1. Shared!Earn(1)
    BY <1>1, <1>2, <1>6 DEF Earns, Shared!Earn, InFlight
  <2>2. QED
    BY <1>5, <2>1
<1>7. CASE EndsNow
  <2>1. Shared!End
    BY <1>1, <1>7 DEF EndsNow, Shared!End, InFlight
  <2>2. QED
    BY <1>5, <2>1
<1>8. CASE EndedBefore
  <2>1. UNCHANGED Shared!standing
    BY <1>1, <1>8 DEF EndedBefore, Shared!standing, InFlight
  <2>2. QED
    BY <1>5, <2>1
<1>9. CASE Settles
  <2>1. Shared!Settle(1)
    BY <1>1, <1>2, <1>9 DEF Settles, Shared!Settle, InFlight
  <2>2. QED
    BY <1>5, <2>1
<1>10. CASE Keeps
  <2>1. UNCHANGED Shared!standing
    BY <1>10 DEF Keeps, Shared!standing, InFlight
  <2>2. QED
    BY <1>5, <2>1
<1>11. QED
  BY <1>6, <1>7, <1>8, <1>9, <1>10, StepMoves

LEMMA SharedStart == Init => Shared!SharedInit
<1> SUFFICES ASSUME Init PROVE Shared!SharedInit
  OBVIOUS
<1>1. total \in Nat \ {0} /\ turnCount = 0
  BY TotalsAssumption DEF Init
<1>2. Questions = 0
  BY DEF Init, Questions, Positions, Last
<1>3. Pending = {}
  BY DEF Init, Idle, Pending, Busy, IsIdle
<1>4. Cardinality(Pending) = 0
  BY <1>3, FS_EmptySet
<1>5. /\ (turnCount < total) = TRUE
      /\ (IF turnCount < total THEN total - turnCount ELSE 0) = total
  BY <1>1
<1>6. QED
  BY <1>1, <1>2, <1>4, <1>5 DEF Shared!SharedInit, Shared!None, Shared!Place

(* With any number of threads and no lock the baseline keeps the contract   *)
(* the crew keeps on its event loop: one question at most for an answer,    *)
(* a turn spent for each, nothing earned once the report is due.            *)
THEOREM SingleAgentImplementsContract == Spec => ImplementsSharedContract
<1>1. Overlap /\ [Next]_vars => [Shared!SharedNext]_(Shared!sharedVars)
  BY StepShared
<1>2. QED
  BY <1>1, SharedStart, OverlapInvariance, PTL
     DEF Spec, ImplementsSharedContract, Shared!SharedSpec
=============================================================================
