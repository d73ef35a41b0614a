---------------------------- MODULE TokenBuckets ----------------------------
(***************************************************************************)
(* What the rate limiter promises: one bucket for all requests and one per *)
(* session, there from the beginning, each of which gains its rate as time *)
(* passes, up to its capacity.  A request takes its cost from the global   *)
(* bucket, and only then from its session's.  A clock that is set back     *)
(* may cost a bucket what it gained in that time, and gains it nothing.    *)
(***************************************************************************)
EXTENDS Integers

CONSTANTS Sessions, Global, Cost, Adjustments,
          rate, capacity     \* functions on the buckets

VARIABLES
    tokens,    \* what each bucket holds
    granted    \* the requests each bucket let through in the present window

bucketVars == <<tokens, granted>>

Holders == Sessions \cup {Global}

AtMost(n, limit) == IF limit < n THEN limit ELSE n

BucketsInit ==
    /\ tokens = capacity
    /\ granted = [b \in Holders |-> 0]

Pays(b) == tokens[b] >= Cost

\* Each bucket of S is asked; those that can pay do.
Ask(S) ==
    /\ tokens' = [b \in Holders |-> IF b \in S /\ Pays(b) THEN tokens[b] - Cost ELSE tokens[b]]
    /\ granted' = [b \in Holders |-> IF b \in S /\ Pays(b) THEN granted[b] + 1 ELSE granted[b]]

Request == Ask({Global}) \/ \E s \in Sessions : Ask(IF Pays(Global) THEN {Global, s} ELSE {Global})

\* n ticks pass, or the clock is set forwards by n.
Accrue(n) ==
    /\ tokens' = [b \in Holders |-> AtMost(tokens[b] + rate[b] * n, capacity[b])]
    /\ UNCHANGED granted

SetBack(n) ==
    /\ tokens' \in [Holders -> Int]
    /\ \A b \in Holders : tokens[b] - rate[b] * n <= tokens'[b] /\ tokens'[b] <= tokens[b]
    /\ UNCHANGED granted

NewWindow == granted' = [b \in Holders |-> 0] /\ UNCHANGED tokens

BucketsNext ==
    \/ Request
    \/ Accrue(1)
    \/ \E d \in Adjustments : IF d < 0 THEN SetBack(-d) ELSE Accrue(d)
    \/ NewWindow

BucketsSpec == BucketsInit /\ [][BucketsNext]_bucketVars
=============================================================================
