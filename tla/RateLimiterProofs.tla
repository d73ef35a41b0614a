-------------------------- MODULE RateLimiterProofs --------------------------
(* Proofs about module RateLimiter, for every rate, capacity, cost, number   *)
(* of sessions and clock.                                                    *)
EXTENDS RateLimiter, TLAPS

(***************************************************************************)
(* The inductive invariant: what a bucket granted in the window, together  *)
(* with what it would hold now, is covered by its capacity and what the    *)
(* window brought in.  WindowBound alone is not inductive: it forgets that *)
(* what is still in the bucket is part of the same budget.                 *)
(***************************************************************************)
Covered ==
    \A b \in Buckets :
        count[b] * Cost + Available(b) <= Capacity(b) + Rate(b) * (waited + ahead)

IInv == TypeOK /\ Covered /\ WindowBound /\ DebtBounded

(* A product with a sum, and the sign of a product.                        *)
LEMMA Distributes ==
    ASSUME NEW r \in Int, NEW x \in Int, NEW y \in Int
    PROVE  r * (x + y) = r * x + r * y /\ r * x \in Int
OBVIOUS

LEMMA ProductNat ==
    ASSUME NEW r \in Nat, NEW x \in Nat
    PROVE  r * x \in Nat
OBVIOUS

LEMMA Constants ==
    ASSUME NEW b \in Buckets
    PROVE  Rate(b) \in Nat /\ Capacity(b) \in Nat /\ Cost \in Nat
BY RateAssumption DEF Rate, Capacity

LEMMA Types ==
    ASSUME TypeOK, NEW b \in Buckets
    PROVE  /\ bucket[b].tokens \in Int /\ bucket[b].last \in Int
           /\ bucket[b] = [tokens |-> bucket[b].tokens, last |-> bucket[b].last]
           /\ clock \in Int /\ count[b] \in Nat
           /\ Rate(b) * (clock - bucket[b].last) \in Int
           /\ Refreshed(b) \in [tokens : Int, last : Int]
           /\ Available(b) \in Int /\ Available(b) <= Capacity(b)
           /\ waited \in Nat /\ ahead \in Nat /\ back \in Nat
<1>1. /\ bucket[b] \in [tokens : Int, last : Int] /\ clock \in Int /\ count[b] \in Nat
      /\ waited \in Nat /\ ahead \in Nat /\ back \in Nat
  BY DEF TypeOK
<1>2. Rate(b) \in Nat /\ Capacity(b) \in Nat
  BY Constants
<1>3. Rate(b) * (clock - bucket[b].last) \in Int
  BY <1>1, <1>2
<1>4. Refreshed(b) \in [tokens : Int, last : Int] /\ Refreshed(b).tokens <= Capacity(b)
  <2>1. Filled(b) \in Int /\ Filled(b) <= Capacity(b)
    BY <1>1, <1>2, <1>3 DEF Filled, Least
  <2>2. QED
    BY <1>1, <1>2, <2>1 DEF Refreshed, Full
<1>5. QED
  BY <1>1, <1>3, <1>4 DEF Available

----------------------------------------------------------------------------
(* What a refresh leaves is what was available, and asking again at once   *)
(* finds the same.                                                         *)
LEMMA Afterwards ==
    ASSUME TypeOK, NEW b \in Buckets, NEW n \in Int,
           b \in known', clock' = clock,
           bucket'[b] = [tokens |-> n, last |-> clock], n <= Capacity(b)
    PROVE  Available(b)' = n
<1>1. Rate(b) * (clock - clock) = 0 /\ clock \in Int
  <2>1. clock \in Int /\ Rate(b) \in Nat
    BY Constants DEF TypeOK
  <2>2. QED
    BY <2>1
<1>2. Filled(b)' = n
  BY <1>1, Constants DEF Filled, Least, Rate, Capacity
<1>3. QED
  BY <1>2 DEF Available, Refreshed

(* What a request takes from a bucket.                                      *)
LEMMA ChargeTakes ==
    ASSUME TypeOK, NEW S \in SUBSET Buckets, NEW b \in Buckets,
           bucket' = Charged(S), known' = known \cup S, clock' = clock
    PROVE  Available(b)' =
               IF b \in S /\ Grants(b) THEN Available(b) - Cost ELSE Available(b)
<1>1. CASE b \notin S
  <2>1. bucket'[b] = bucket[b] /\ (b \in known' <=> b \in known)
    BY <1>1 DEF Charged
  <2>2. QED
    BY <1>1, <2>1 DEF Available, Refreshed, Filled, Full, Rate, Capacity
<1>2. CASE b \in S
  <2>1. b \in known' /\ Refreshed(b) = [tokens |-> Available(b), last |-> clock]
    BY <1>2 DEF Refreshed, Available, Full
  <2>2. /\ Cost \in Nat /\ Capacity(b) \in Nat
        /\ Available(b) \in Int /\ Available(b) <= Capacity(b)
    BY Constants, Types
  <2>3. CASE Grants(b)
    <3>1. bucket'[b] = [tokens |-> Available(b) - Cost, last |-> clock]
      BY <1>2, <2>1, <2>3 DEF Charged, Consumed
    <3>2. Available(b) - Cost \in Int /\ Available(b) - Cost <= Capacity(b)
      BY <2>2
    <3>3. QED
      BY <1>2, <2>1, <2>3, <3>1, <3>2, Afterwards
  <2>4. CASE ~Grants(b)
    <3>1. bucket'[b] = [tokens |-> Available(b), last |-> clock]
      BY <1>2, <2>1, <2>4 DEF Charged, Consumed
    <3>2. QED
      BY <2>1, <2>2, <2>4, <3>1, Afterwards
  <2>5. QED
    BY <2>3, <2>4
<1>3. QED
  BY <1>1, <1>2

(* A bucket that a request charges.                                        *)
LEMMA ChargeKeeps ==
    ASSUME IInv, NEW S \in SUBSET Buckets, NEW b \in Buckets,
           bucket' = Charged(S), count' = Counted(S), known' = known \cup S,
           UNCHANGED <<clock, waited, ahead, back>>
    PROVE  /\ bucket'[b] \in [tokens : Int, last : Int]
           /\ bucket'[b].tokens <= Capacity(b)
           /\ count'[b] \in Nat
           /\ count'[b] * Cost + Available(b)' <= Capacity(b) + Rate(b) * (waited + ahead)
           /\ count'[b] * Cost <= Capacity(b) + Rate(b) * (waited + ahead)
           /\ Available(b)' >= -(Rate(b) * back)
<1> DEFINE budget == Capacity(b) + Rate(b) * (waited + ahead)
           debt   == Rate(b) * back
<1>1. /\ TypeOK /\ Cost \in Nat /\ Capacity(b) \in Nat
      /\ budget \in Int /\ debt \in Nat
  <2>1. Rate(b) \in Nat /\ Capacity(b) \in Nat /\ waited \in Nat /\ ahead \in Nat /\ back \in Nat
    BY Constants, Types DEF IInv
  <2>2. Rate(b) * (waited + ahead) \in Nat /\ Rate(b) * back \in Nat
    BY <2>1, ProductNat
  <2>3. QED
    BY <2>1, <2>2, Constants DEF IInv
<1>2. /\ count[b] \in Nat /\ Available(b) \in Int /\ Available(b) <= Capacity(b)
      /\ Refreshed(b) \in [tokens : Int, last : Int]
      /\ bucket[b] \in [tokens : Int, last : Int] /\ bucket[b].tokens <= Capacity(b)
  BY <1>1, Types DEF TypeOK
<1>3. /\ count[b] * Cost + Available(b) <= budget
      /\ count[b] * Cost <= budget
      /\ Available(b) >= -debt
  BY DEF IInv, Covered, WindowBound, DebtBounded
<1>4. count[b] * Cost \in Int /\ (count[b] + 1) * Cost = count[b] * Cost + Cost
  BY <1>1, <1>2
<1> HIDE DEF budget, debt
<1>5. Available(b)' = IF b \in S /\ Grants(b) THEN Available(b) - Cost ELSE Available(b)
  BY <1>1, ChargeTakes
<1>6. CASE b \in S /\ Grants(b)
  <2>1. Available(b) >= Cost
    BY <1>6 DEF Grants, Available
  <2>2. /\ bucket'[b] = [tokens |-> Available(b) - Cost, last |-> clock]
        /\ count'[b] = count[b] + 1
    BY <1>6 DEF Charged, Counted, Consumed, Refreshed, Available, Full
  <2>3. clock \in Int
    BY <1>1 DEF TypeOK
  <2>4. QED
    BY <1>1, <1>2, <1>3, <1>4, <1>5, <1>6, <2>1, <2>2, <2>3 DEF budget, debt
<1>7. CASE ~(b \in S /\ Grants(b))
  <2>1. count'[b] = count[b]
    BY <1>7 DEF Counted
  <2>2. bucket'[b] \in {bucket[b], Refreshed(b)}
    BY <1>7 DEF Charged, Consumed
  <2>3. bucket'[b] \in [tokens : Int, last : Int] /\ bucket'[b].tokens <= Capacity(b)
    BY <1>2, <2>2 DEF Available
  <2>4. QED
    BY <1>1, <1>2, <1>3, <1>5, <1>7, <2>1, <2>3 DEF budget, debt
<1>8. QED
  BY <1>6, <1>7

(* When the clock moves by d, what is available moves by at most Rate * d,  *)
(* and never against d.                                                     *)
LEMMA ClockMoves ==
    ASSUME TypeOK, NEW b \in Buckets, NEW d \in Int,
           clock' = clock + d, UNCHANGED <<bucket, known>>
    PROVE  /\ Rate(b) * d \in Int
           /\ d >= 0 => /\ Rate(b) * d >= 0
                        /\ Available(b)' >= Available(b)
                        /\ Available(b)' <= Available(b) + Rate(b) * d
                        /\ Available(b)' = Least(Capacity(b), Available(b) + Rate(b) * d)
           /\ d <= 0 => /\ Available(b)' <= Available(b)
                        /\ Available(b)' >= Available(b) + Rate(b) * d
           /\ Available(b)' \in Int /\ Available(b) \in Int
<1> DEFINE r == Rate(b)
           gap == clock - bucket[b].last
           held == bucket[b].tokens
<1>1. /\ r \in Nat /\ gap \in Int /\ held \in Int /\ clock \in Int
      /\ Capacity(b) \in Nat /\ Available(b) \in Int
  <2>1. bucket[b].tokens \in Int /\ bucket[b].last \in Int /\ clock \in Int
    BY Types
  <2>2. clock - bucket[b].last \in Int
    BY <2>1
  <2>3. Available(b) \in Int
    BY Types
  <2>4. QED
    BY <2>1, <2>2, <2>3, Constants
<1>2. r * (gap + d) = r * gap + r * d /\ r * d \in Int /\ r * gap \in Int
  BY <1>1, Distributes
<1>3. (d >= 0 => r * d >= 0) /\ (d <= 0 => r * d <= 0)
  <2>1. CASE d >= 0
    BY <2>1, <1>1, ProductNat
  <2>2. CASE d <= 0
    <3>1. r * (-d) \in Nat
      BY <2>2, <1>1, ProductNat
    <3>2. r * (-d) = -(r * d)
      BY <1>1
    <3>3. QED
      BY <3>1, <3>2, <1>2, <2>2
  <2>3. QED
    BY <2>1, <2>2
<1>4. clock' - bucket'[b].last = gap + d
  <2>1. bucket[b].last \in Int /\ clock \in Int /\ bucket'[b] = bucket[b]
    BY Types
  <2>2. (clock + d) - bucket[b].last = (clock - bucket[b].last) + d
    BY <2>1
  <2>3. QED
    BY <2>1, <2>2
<1>5. CASE b \in known
  <2>1. Available(b) = Least(Capacity(b), held + r * gap)
    BY <1>5 DEF Available, Refreshed, Filled
  <2>2. Available(b)' = Least(Capacity(b), held + r * (gap + d))
    BY <1>4, <1>5 DEF Available, Refreshed, Filled, Rate, Capacity
  <2> HIDE DEF r, gap, held
  <2>3. /\ d >= 0 => Available(b)' >= Available(b) /\ Available(b)' <= Available(b) + r * d
        /\ d <= 0 => Available(b)' <= Available(b) /\ Available(b)' >= Available(b) + r * d
        /\ Available(b)' \in Int
    BY <1>1, <1>2, <1>3, <2>1, <2>2 DEF Least
  <2>4. d >= 0 => Available(b)' = Least(Capacity(b), Available(b) + r * d)
    BY <1>1, <1>2, <1>3, <2>1, <2>2 DEF Least
  <2>5. QED
    BY <1>1, <1>2, <1>3, <2>3, <2>4 DEF r
<1>6. CASE b \notin known
  <2>1. Available(b) = Capacity(b) /\ Available(b)' = Capacity(b)
    BY <1>6 DEF Available, Refreshed, Full, Capacity
  <2>2. QED
    BY <1>1, <1>2, <1>3, <2>1 DEF Least
<1>7. QED
  BY <1>5, <1>6

----------------------------------------------------------------------------
LEMMA InitIInv == Init => IInv
<1> SUFFICES ASSUME Init PROVE IInv
  OBVIOUS
<1>1. ASSUME NEW b \in Buckets
      PROVE  /\ bucket[b] = [tokens |-> Capacity(b), last |-> 0]
             /\ Capacity(b) \in Nat /\ Rate(b) \in Nat
             /\ Available(b) = Capacity(b)
             /\ count[b] * Cost = 0
             /\ Rate(b) * (waited + ahead) = 0 /\ Rate(b) * back = 0
  <2>1. bucket[b] = [tokens |-> Capacity(b), last |-> 0] /\ clock = 0
    BY DEF Init, Full
  <2>2. Capacity(b) \in Nat /\ Rate(b) \in Nat /\ Cost \in Nat
    BY Constants
  <2>3. Rate(b) * (0 - 0) = 0 /\ 0 * Cost = 0 /\ Rate(b) * (0 + 0) = 0 /\ Rate(b) * 0 = 0
    BY <2>2
  <2>4. Filled(b) = Capacity(b)
    BY <2>1, <2>2, <2>3 DEF Filled, Least
  <2>5. Available(b) = Capacity(b)
    BY <2>1, <2>4 DEF Available, Refreshed, Full
  <2>6. QED
    BY <2>1, <2>2, <2>3, <2>5 DEF Init
<1>2. TypeOK
  <2>1. bucket \in [Buckets -> [tokens : Int, last : Int]]
    BY <1>1 DEF Init, Full
  <2>2. ASSUME NEW b \in Buckets PROVE bucket[b].tokens <= Capacity(b)
    <3>1. Capacity(b) <= Capacity(b)
      BY Constants
    <3>2. bucket[b].tokens = Capacity(b)
      BY DEF Init, Full
    <3>3. QED
      BY <3>1, <3>2
  <2>3. count \in [Buckets -> Nat]
    BY DEF Init
  <2>4. known \in SUBSET Buckets /\ Global \in known
    BY DEF Init, Buckets
  <2>5. QED
    BY <2>1, <2>2, <2>3, <2>4 DEF Init, TypeOK
<1>3. Covered /\ WindowBound /\ DebtBounded
  <2>1. ASSUME NEW b \in Buckets
        PROVE  /\ count[b] * Cost + Available(b) <= Capacity(b) + Rate(b) * (waited + ahead)
               /\ count[b] * Cost <= Capacity(b) + Rate(b) * (waited + ahead)
               /\ Available(b) >= -(Rate(b) * back)
    <3>1. 0 + Capacity(b) <= Capacity(b) + 0 /\ 0 <= Capacity(b) + 0 /\ Capacity(b) >= -0
      BY Constants
    <3>2. QED
      BY <1>1, <3>1
  <2>2. QED
    BY <2>1 DEF Covered, WindowBound, DebtBounded
<1>4. QED
  BY <1>2, <1>3 DEF IInv

(* A request, whatever it names.                                            *)
LEMMA ChargeIInv ==
    ASSUME IInv, NEW S \in SUBSET Buckets,
           bucket' = Charged(S), count' = Counted(S), known' = known \cup S,
           UNCHANGED <<clock, waited, ahead, back>>
    PROVE  IInv'
<1>1. TypeOK'
  <2>1. bucket' \in [Buckets -> [tokens : Int, last : Int]]
    BY ChargeKeeps DEF Charged
  <2>2. count' \in [Buckets -> Nat]
    BY ChargeKeeps DEF Counted
  <2>3. QED
    BY <2>1, <2>2, ChargeKeeps DEF IInv, TypeOK, Capacity
<1>2. Covered' /\ WindowBound' /\ DebtBounded'
  BY ChargeKeeps DEF Covered, WindowBound, DebtBounded, Rate, Capacity
<1>3. QED
  BY <1>1, <1>2 DEF IInv

LEMMA StepIInv == IInv /\ [Next]_vars => IInv'
<1> SUFFICES ASSUME IInv, [Next]_vars PROVE IInv'
  OBVIOUS
<1> USE DEF IInv
<1>1. ASSUME NEW s \in Sessions, SessionRequest(s) PROVE IInv'
  <2> DEFINE S == IF Grants(Global) THEN {Global, s} ELSE {Global}
  <2>1. S \in SUBSET Buckets
    BY DEF Buckets
  <2>2. /\ bucket' = Charged(S) /\ count' = Counted(S) /\ known' = known \cup S
        /\ UNCHANGED <<clock, waited, ahead, back>>
    BY <1>1 DEF SessionRequest
  <2> HIDE DEF S
  <2>3. QED
    BY <2>1, <2>2, ChargeIInv
<1>2. CASE OtherRequest
  <2>1. /\ {Global} \in SUBSET Buckets
        /\ known' = known \cup {Global}
    BY <1>2 DEF OtherRequest, Buckets, TypeOK
  <2>2. QED
    BY <1>2, <2>1, ChargeIInv DEF OtherRequest
<1>3. ASSUME NEW b \in Buckets
      PROVE  /\ count[b] \in Nat /\ Cost \in Nat /\ count[b] * Cost \in Int
             /\ Capacity(b) \in Nat /\ Rate(b) \in Nat /\ Available(b) \in Int
             /\ Rate(b) * (waited + ahead) \in Int /\ Rate(b) * back \in Int
             /\ waited \in Nat /\ ahead \in Nat /\ back \in Nat
             /\ count[b] * Cost + Available(b) <= Capacity(b) + Rate(b) * (waited + ahead)
             /\ count[b] * Cost <= Capacity(b) + Rate(b) * (waited + ahead)
             /\ Available(b) >= -(Rate(b) * back)
  <2>1. /\ count[b] \in Nat /\ Cost \in Nat
        /\ Capacity(b) \in Nat /\ Rate(b) \in Nat /\ Available(b) \in Int
        /\ waited \in Nat /\ ahead \in Nat /\ back \in Nat
    BY Constants, Types
  <2>2. count[b] * Cost \in Int /\ Rate(b) * (waited + ahead) \in Int /\ Rate(b) * back \in Int
    BY <2>1, Distributes
  <2>3. QED
    BY <2>1, <2>2 DEF Covered, WindowBound, DebtBounded
<1>4. CASE Tick
  <2>1. TypeOK'
    BY <1>4 DEF Tick, TypeOK, Capacity
  <2>2. ASSUME NEW b \in Buckets
        PROVE  /\ count[b] * Cost + Available(b)' <= Capacity(b) + Rate(b) * (waited' + ahead)
               /\ count[b] * Cost <= Capacity(b) + Rate(b) * (waited' + ahead)
               /\ Available(b)' >= -(Rate(b) * back)
    <3>1. /\ Available(b)' <= Available(b) + Rate(b) * 1 /\ Available(b)' \in Int
          /\ Rate(b) * 1 >= 0
      BY <1>4, ClockMoves DEF Tick
    <3>2. Available(b)' >= Available(b)
      BY <1>4, ClockMoves DEF Tick
    <3>3. /\ Rate(b) * (waited' + ahead) = Rate(b) * (waited + ahead) + Rate(b) * 1
          /\ Rate(b) * 1 \in Int
      <4>1. waited' + ahead = (waited + ahead) + 1
        BY <1>3, <1>4 DEF Tick
      <4>2. QED
        BY <4>1, <1>3, Distributes
    <3>4. QED
      BY <3>1, <3>2, <3>3, <1>3
  <2>3. Covered' /\ WindowBound' /\ DebtBounded'
    BY <1>4, <2>2 DEF Tick, Covered, WindowBound, DebtBounded, Rate, Capacity
  <2>4. QED
    BY <2>1, <2>3
<1>5. ASSUME NEW d \in Adjustments, Adjust(d) PROVE IInv'
  <2>1. /\ d \in Int /\ clock' = clock + d
        /\ ahead' = IF d > 0 THEN ahead + d ELSE ahead
        /\ back' = IF d < 0 THEN back - d ELSE back
        /\ UNCHANGED <<bucket, known, waited, count>>
    BY <1>5, ClockAssumption DEF Adjust
  <2>2. TypeOK'
    BY <2>1 DEF TypeOK, Capacity
  <2>3. ASSUME NEW b \in Buckets
        PROVE  /\ count[b] * Cost + Available(b)' <= Capacity(b) + Rate(b) * (waited + ahead')
               /\ count[b] * Cost <= Capacity(b) + Rate(b) * (waited + ahead')
               /\ Available(b)' >= -(Rate(b) * back')
    <3>1. /\ Rate(b) * d \in Int
          /\ d >= 0 => Rate(b) * d >= 0 /\ Available(b)' <= Available(b) + Rate(b) * d
          /\ d <= 0 => /\ Available(b)' <= Available(b)
                       /\ Available(b)' >= Available(b) + Rate(b) * d
          /\ Available(b)' \in Int
      BY <2>1, ClockMoves
    <3>2. CASE d > 0
      <4>1. Rate(b) * (waited + ahead') = Rate(b) * (waited + ahead) + Rate(b) * d
        <5>1. waited + ahead' = (waited + ahead) + d
          BY <1>3, <2>1, <3>2
        <5>2. QED
          BY <5>1, <1>3, <2>1, Distributes
      <4>2. Available(b)' >= Available(b)
        BY <2>1, <3>2, ClockMoves
      <4>3. back' = back
        BY <2>1, <3>2
      <4>4. QED
        BY <2>1, <3>1, <3>2, <4>1, <4>2, <4>3, <1>3
    <3>3. CASE ~(d > 0)
      <4>1. Rate(b) * back' = Rate(b) * back - Rate(b) * d
        <5>1. back' = back + (-d)
          BY <1>3, <2>1, <3>3
        <5>2. Rate(b) * (back + (-d)) = Rate(b) * back + Rate(b) * (-d)
          BY <1>3, <2>1, Distributes
        <5>3. Rate(b) * (-d) = -(Rate(b) * d)
          BY <1>3, <2>1
        <5>4. QED
          BY <5>1, <5>2, <5>3, <1>3, <3>1
      <4>2. ahead' = ahead
        BY <2>1, <3>3
      <4>3. QED
        BY <2>1, <3>1, <3>3, <4>1, <4>2, <1>3
    <3>4. QED
      BY <3>2, <3>3
  <2>4. Covered' /\ WindowBound' /\ DebtBounded'
    BY <2>1, <2>3 DEF Covered, WindowBound, DebtBounded, Rate, Capacity
  <2>5. QED
    BY <2>2, <2>4
<1>6. CASE Mark
  <2>1. TypeOK'
    BY <1>6 DEF Mark, TypeOK, Capacity
  <2>2. ASSUME NEW b \in Buckets
        PROVE  /\ count'[b] * Cost = 0 /\ Rate(b) * (waited' + ahead') = 0
               /\ Available(b)' = Available(b) /\ Available(b) <= Capacity(b)
    <3>1. count'[b] = 0 /\ waited' = 0 /\ ahead' = 0
      BY <1>6 DEF Mark
    <3>2. Available(b)' = Available(b)
      BY <1>6 DEF Mark, Available, Refreshed, Filled, Full, Rate, Capacity
    <3>3. Available(b) <= Capacity(b)
      BY Types
    <3>4. 0 * Cost = 0 /\ Rate(b) * (0 + 0) = 0
      BY <1>3
    <3>5. QED
      BY <3>1, <3>2, <3>3, <3>4
  <2>3. Covered' /\ WindowBound' /\ DebtBounded'
    BY <1>3, <1>6, <2>2 DEF Mark, Covered, WindowBound, DebtBounded, Rate, Capacity
  <2>4. QED
    BY <2>1, <2>3
<1>7. CASE UNCHANGED vars
  BY <1>7 DEF vars, TypeOK, Covered, WindowBound, DebtBounded, Available, Refreshed,
              Filled, Full, Rate, Capacity
<1>8. QED
  BY <1>1, <1>2, <1>4, <1>5, <1>6, <1>7 DEF Next

LEMMA SpecIInv == Spec => []IInv
BY InitIInv, StepIInv, PTL DEF Spec

----------------------------------------------------------------------------
(* The theorems.                                                           *)

(* No bucket ever holds more than its capacity.                             *)
THEOREM BucketsWithinCapacity == Spec => []TypeOK
BY SpecIInv, PTL DEF IInv

(* In any window a bucket grants at most its capacity and what accrues.     *)
THEOREM WindowsAreBounded == Spec => []WindowBound
BY SpecIInv, PTL DEF IInv

(* A bucket's debt is bounded by the time the clock was set back.           *)
THEOREM DebtsAreBounded == Spec => []DebtBounded
BY SpecIInv, PTL DEF IInv

----------------------------------------------------------------------------
(***************************************************************************)
(* The limiter implements the buckets of TokenBuckets.                     *)
(***************************************************************************)
LEMMA PromiseHolders == Promise!Holders = Buckets
BY DEF Promise!Holders, Buckets

LEMMA PromisePays ==
    ASSUME NEW b \in Buckets
    PROVE  Promise!Pays(b) <=> Grants(b)
BY DEF Promise!Pays, Grants, Available

(* The buckets of S are asked.                                              *)
LEMMA ChargeAsks ==
    ASSUME TypeOK, NEW S \in SUBSET Buckets,
           bucket' = Charged(S), count' = Counted(S), known' = known \cup S, clock' = clock
    PROVE  Promise!Ask(S)
<1>1. ASSUME NEW b \in Buckets
      PROVE  Available(b)' = IF b \in S /\ Promise!Pays(b) THEN Available(b) - Cost
                                                          ELSE Available(b)
  BY ChargeTakes, PromisePays
<1>2. ASSUME NEW b \in Buckets
      PROVE  count'[b] = IF b \in S /\ Promise!Pays(b) THEN count[b] + 1 ELSE count[b]
  BY PromisePays DEF Counted
<1>3. count' = [b \in Buckets |-> count'[b]]
  BY DEF Counted
<1>4. QED
  BY <1>1, <1>2, <1>3, PromiseHolders DEF Promise!Ask

(* Time goes on by d, or seems to.                                          *)
LEMMA ClockAccrues ==
    ASSUME TypeOK, NEW d \in Int, d >= 0,
           clock' = clock + d, UNCHANGED <<bucket, known, count>>
    PROVE  Promise!Accrue(d)
<1>1. ASSUME NEW b \in Buckets
      PROVE  Available(b)' = Promise!AtMost(Available(b) + Rate(b) * d, Capacity(b))
  BY ClockMoves DEF Least, Promise!AtMost
<1>2. QED
  BY <1>1, PromiseHolders DEF Promise!Accrue

LEMMA ClockGoesBack ==
    ASSUME TypeOK, NEW d \in Int, d < 0,
           clock' = clock + d, UNCHANGED <<bucket, known, count>>
    PROVE  Promise!SetBack(-d)
<1>1. ASSUME NEW b \in Buckets
      PROVE  /\ Available(b)' \in Int
             /\ Available(b) - Rate(b) * (-d) <= Available(b)'
             /\ Available(b)' <= Available(b)
  <2>1. /\ Available(b)' <= Available(b) /\ Available(b)' >= Available(b) + Rate(b) * d
        /\ Rate(b) * d \in Int /\ Available(b)' \in Int /\ Available(b) \in Int
    BY ClockMoves
  <2>2. Rate(b) \in Int
    BY Constants
  <2>3. Rate(b) * (-d) = -(Rate(b) * d)
    BY <2>2
  <2>4. QED
    BY <2>1, <2>3
<1>2. QED
  BY <1>1, PromiseHolders DEF Promise!SetBack

LEMMA InitPromised == Init => Promise!BucketsInit
<1> SUFFICES ASSUME Init PROVE Promise!BucketsInit
  OBVIOUS
<1>1. ASSUME NEW b \in Buckets PROVE Available(b) = Capacity(b)
  <2>1. bucket[b] = [tokens |-> Capacity(b), last |-> 0] /\ clock = 0
    BY DEF Init, Full
  <2>2. Capacity(b) \in Nat /\ Rate(b) \in Nat
    BY Constants
  <2>3. Rate(b) * (0 - 0) = 0
    BY <2>2
  <2>4. Filled(b) = Capacity(b)
    BY <2>1, <2>2, <2>3 DEF Filled, Least
  <2>5. QED
    BY <2>1, <2>4 DEF Available, Refreshed, Full
<1>2. QED
  BY <1>1, PromiseHolders DEF Init, Promise!BucketsInit

LEMMA StepPromised ==
    IInv /\ [Next]_vars => [Promise!BucketsNext]_(Promise!bucketVars)
<1> SUFFICES ASSUME TypeOK, [Next]_vars
             PROVE  Promise!BucketsNext \/ UNCHANGED Promise!bucketVars
  BY DEF IInv
<1>1. ASSUME NEW s \in Sessions, SessionRequest(s) PROVE Promise!Request
  <2> DEFINE S == IF Grants(Global) THEN {Global, s} ELSE {Global}
  <2>1. S \in SUBSET Buckets /\ Global \in Buckets
    BY DEF Buckets
  <2>2. /\ bucket' = Charged(S) /\ count' = Counted(S) /\ known' = known \cup S
        /\ clock' = clock
    BY <1>1 DEF SessionRequest
  <2>3. S = IF Promise!Pays(Global) THEN {Global, s} ELSE {Global}
    BY <2>1, PromisePays
  <2> HIDE DEF S
  <2>4. Promise!Ask(S)
    BY <2>1, <2>2, ChargeAsks
  <2>5. QED
    BY <2>3, <2>4 DEF Promise!Request
<1>2. CASE OtherRequest
  <2>1. /\ {Global} \in SUBSET Buckets
        /\ known' = known \cup {Global}
    BY <1>2 DEF OtherRequest, Buckets, TypeOK
  <2>2. Promise!Ask({Global})
    BY <1>2, <2>1, ChargeAsks DEF OtherRequest
  <2>3. QED
    BY <2>2 DEF Promise!BucketsNext, Promise!Request
<1>3. CASE Tick
  <2>1. Promise!Accrue(1)
    BY <1>3, ClockAccrues DEF Tick
  <2>2. QED
    BY <2>1 DEF Promise!BucketsNext
<1>4. ASSUME NEW d \in Adjustments, Adjust(d) PROVE Promise!BucketsNext
  <2>1. d \in Int /\ clock' = clock + d /\ UNCHANGED <<bucket, known, count>>
    BY <1>4, ClockAssumption DEF Adjust
  <2>2. IF d < 0 THEN Promise!SetBack(-d) ELSE Promise!Accrue(d)
    BY <2>1, ClockAccrues, ClockGoesBack
  <2>3. QED
    BY <2>2 DEF Promise!BucketsNext
<1>5. ASSUME UNCHANGED <<clock, bucket, known>>, NEW b \in Buckets
      PROVE  Available(b)' = Available(b)
  BY <1>5 DEF Available, Refreshed, Filled, Full, Rate, Capacity
<1>6. CASE Mark
  <2>1. Promise!NewWindow
    BY <1>5, <1>6, PromiseHolders DEF Mark, Promise!NewWindow
  <2>2. QED
    BY <2>1 DEF Promise!BucketsNext
<1>7. CASE UNCHANGED vars
  BY <1>5, <1>7 DEF vars, Promise!bucketVars
<1>8. QED
  BY <1>1, <1>2, <1>3, <1>4, <1>6, <1>7 DEF Next, Promise!BucketsNext

(* The buckets of the code, filled when they are asked and made when they   *)
(* are named, let through and refuse exactly what buckets filled by the     *)
(* passing of time would (TokenBucket.consume, dispatch).                   *)
THEOREM LimiterImplementsBuckets == Spec => ImplementsBuckets
BY SpecIInv, InitPromised, StepPromised, PTL DEF Spec, ImplementsBuckets, Promise!BucketsSpec
=============================================================================
