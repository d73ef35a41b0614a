----------------------------- MODULE RateLimiter -----------------------------
(***************************************************************************)
(* The token buckets of middleware/rate_limiter.py: one for all requests   *)
(* and one per session, created by the first request that names it and     *)
(* never removed.  A bucket measures time with the system clock, which may *)
(* be set forwards or backwards while it runs.  Dispatching a request does *)
(* not wait between its two checks, so it is one action.  Amounts are      *)
(* integers: Cost units make one token, and a rate is in units per tick.   *)
(***************************************************************************)
EXTENDS Integers

CONSTANTS
    Sessions,         \* the session ids that requests may name
    Global,           \* the bucket of all requests
    Cost,             \* what one request takes from a bucket
    GlobalRate, GlobalCapacity,
    SessionRate, SessionCapacity,
    Adjustments,      \* by how much the clock may be set
    MaxClock, MaxWait, MaxBack    \* bounds on the clock, the window, the settings back

ASSUME RateAssumption ==
    /\ Cost \in Nat
    /\ GlobalRate \in Nat /\ GlobalCapacity \in Nat
    /\ SessionRate \in Nat /\ SessionCapacity \in Nat

ASSUME GlobalAssumption == Global \notin Sessions
ASSUME ClockAssumption ==
    /\ Adjustments \subseteq Int
    /\ MaxClock \in Nat /\ MaxWait \in Nat /\ MaxBack \in Nat

VARIABLES
    clock,     \* time.time()
    bucket,    \* global_bucket and session_buckets
    known,     \* the buckets that exist
    \* History, for the properties: a window of time, and what happened in it.
    waited,    \* the ticks since the window began
    count,     \* the requests each bucket granted since
    ahead,     \* by how much the clock was set forwards since
    back       \* by how much the clock was set backwards, ever

vars == <<clock, bucket, known, waited, count, ahead, back>>

Buckets     == Sessions \cup {Global}
Rate(b)     == IF b = Global THEN GlobalRate ELSE SessionRate
Capacity(b) == IF b = Global THEN GlobalCapacity ELSE SessionCapacity

Least(x, y) == IF x < y THEN x ELSE y

Full(b) == [tokens |-> Capacity(b), last |-> clock]

\* Faulty variant: nothing caps a bucket.
FilledOver(b) == bucket[b].tokens + Rate(b) * (clock - bucket[b].last)

\* min(capacity, tokens + elapsed * rate)
Filled(b) == Least(Capacity(b), bucket[b].tokens + Rate(b) * (clock - bucket[b].last))

\* Faulty variant: the refill forgets when it happened.
RefreshedKeepingTime(b) ==
    IF b \in known THEN [tokens |-> Filled(b), last |-> bucket[b].last] ELSE Full(b)

\* The bucket a request finds, refilled; a new one is full.
Refreshed(b) == IF b \in known THEN [tokens |-> Filled(b), last |-> clock] ELSE Full(b)

\* Faulty variant: a fraction of a token is enough.
GrantsAny(b) == Refreshed(b).tokens > 0

Grants(b) == Refreshed(b).tokens >= Cost

\* TokenBucket.consume
Consumed(b) == IF Grants(b) THEN [Refreshed(b) EXCEPT !.tokens = @ - Cost] ELSE Refreshed(b)

Charged(S) == [b \in Buckets |-> IF b \in S THEN Consumed(b) ELSE bucket[b]]
Counted(S) == [b \in Buckets |-> IF b \in S /\ Grants(b) THEN count[b] + 1 ELSE count[b]]

----------------------------------------------------------------------------
Init ==
    /\ clock = 0
    /\ known = {Global}
    /\ bucket = [b \in Buckets |-> Full(b)]
    /\ waited = 0
    /\ count = [b \in Buckets |-> 0]
    /\ ahead = 0
    /\ back = 0

\* Faulty variant: the session's bucket is charged whatever the global one says.
SessionRequestBoth(s) ==
    /\ bucket' = Charged({Global, s})
    /\ count' = Counted({Global, s})
    /\ known' = known \cup {s}
    /\ UNCHANGED <<clock, waited, ahead, back>>

\* dispatch of a request that names session s: refused by the global bucket
\* it reaches no other; let through by it, it is charged there whatever the
\* session's bucket says.
SessionRequest(s) ==
    LET charged == IF Grants(Global) THEN {Global, s} ELSE {Global}
    IN  /\ bucket' = Charged(charged)
        /\ count' = Counted(charged)
        /\ known' = known \cup charged
        /\ UNCHANGED <<clock, waited, ahead, back>>

\* dispatch of a request that names none, like the creation of a session.
\* (Health checks, metrics and static files are not limited.)
OtherRequest ==
    /\ bucket' = Charged({Global})
    /\ count' = Counted({Global})
    /\ UNCHANGED <<clock, known, waited, ahead, back>>

Tick ==
    /\ clock < MaxClock /\ waited < MaxWait
    /\ clock' = clock + 1
    /\ waited' = waited + 1
    /\ UNCHANGED <<bucket, known, count, ahead, back>>

\* The system clock is set.
Adjust(d) ==
    /\ clock + d <= MaxClock
    /\ clock' = clock + d
    /\ ahead' = IF d > 0 THEN ahead + d ELSE ahead
    /\ back' = IF d < 0 THEN back - d ELSE back
    /\ back' <= MaxBack
    /\ UNCHANGED <<bucket, known, waited, count>>

\* Another window is looked at.
Mark ==
    /\ waited' = 0
    /\ count' = [b \in Buckets |-> 0]
    /\ ahead' = 0
    /\ UNCHANGED <<clock, bucket, known, back>>

Next ==
    \/ \E s \in Sessions : SessionRequest(s)
    \/ OtherRequest
    \/ Tick
    \/ \E d \in Adjustments : Adjust(d)
    \/ Mark

Spec == Init /\ [][Next]_vars

----------------------------------------------------------------------------
(* What a bucket would hold if it were asked now.                          *)
Available(b) == Refreshed(b).tokens

(* The tokens of a bucket never exceed its capacity, and only the buckets  *)
(* some request named exist (TokenBucket.consume, dispatch).               *)
TypeOK ==
    /\ clock \in Int
    /\ bucket \in [Buckets -> [tokens : Int, last : Int]]
    /\ \A b \in Buckets : bucket[b].tokens <= Capacity(b)
    /\ known \in SUBSET Buckets /\ Global \in known
    /\ waited \in Nat /\ ahead \in Nat /\ back \in Nat
    /\ count \in [Buckets -> Nat]

(* In any window of time a bucket grants its capacity and what accrues at  *)
(* its rate, and no more than the clock was set forwards adds to that:     *)
(* setting it back, or to and fro, and idling give nothing away.           *)
WindowBound ==
    \A b \in Buckets :
        count[b] * Cost <= Capacity(b) + Rate(b) * (waited + ahead)

(* A bucket in debt owes no more than the time the clock was set back:     *)
(* a client locked out by a clock adjustment is let in again after it, and *)
(* without one no bucket is ever in debt.                                  *)
DebtBounded ==
    \A b \in Buckets : Available(b) >= -(Rate(b) * back)

(***************************************************************************)
(* The limiter implements the buckets it stands for: a bucket is refilled  *)
(* only when it is asked, and one no request has named does not exist, yet *)
(* what each would hold if asked now is what a bucket holds that exists    *)
(* from the beginning and is filled as time passes.                        *)
(***************************************************************************)
Promise == INSTANCE TokenBuckets WITH
    rate     <- [b \in Buckets |-> Rate(b)],
    capacity <- [b \in Buckets |-> Capacity(b)],
    tokens   <- [b \in Buckets |-> Available(b)],
    granted  <- count

(* Requests, ticks and settings of the clock are steps of these buckets:   *)
(* neither filling late (TokenBucket.consume) nor creating late (dispatch) *)
(* lets a request through, or refuses one, that they would not.            *)
ImplementsBuckets == Promise!BucketsSpec
=============================================================================
