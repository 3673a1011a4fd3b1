---------------------------- MODULE TokenBucket ----------------------------
(***************************************************************************)
(* What a token bucket promises to whoever waits at it: `acquire` of       *)
(* engine/rate_limiter.rs and of engine/bandwidth.rs are two instances of  *)
(* it. Both buckets hold what one second refills, so one unit of tokens is *)
(* what one tick brings, and Cap is at once the capacity of the bucket and *)
(* the number of ticks in a second. The f64 arithmetic of the code is      *)
(* exact here: nothing is rounded.                                         *)
(*                                                                         *)
(* `age` is the time since last_refill. It stops at Cap, for a bucket left *)
(* alone for a second is full. `elapsed` and `spent` watch one window of   *)
(* time, which may begin at any moment.                                    *)
(***************************************************************************)
EXTENDS Naturals

CONSTANTS
    Cap,      \* ticks in a second: max_rps or limit_bps, in units
    Sizes     \* what one acquire may ask for, in units

\* What the theorems about the bucket assume of it.
BucketAssumption == Cap \in Nat \ {0} /\ Sizes \subseteq Nat

VARIABLES
    tokens,   \* BucketState.tokens, RateState.tokens
    age,      \* now - last_refill
    elapsed,  \* history: length of the window watched
    spent     \* history: tokens granted in the window

vars == <<tokens, age, elapsed, spent>>

AtMostCap(n) == IF n > Cap THEN Cap ELSE n

\* Tokens after the refill at the head of acquire.
Refilled == AtMostCap(tokens + age)

TypeOK ==
    /\ tokens \in 0..Cap /\ age \in 0..Cap
    /\ elapsed \in Nat /\ spent \in Nat

Init == tokens = Cap /\ age = 0 /\ elapsed = 0 /\ spent = 0

Elapse ==
    /\ age' = AtMostCap(age + 1)
    /\ elapsed' = elapsed + 1
    /\ UNCHANGED <<tokens, spent>>

\* Enough tokens: they are taken.
Grant(n) ==
    /\ Refilled >= n
    /\ tokens' = Refilled - n
    /\ age' = 0
    /\ spent' = spent + n
    /\ UNCHANGED elapsed

\* Not enough: the refill is kept, and the caller sleeps for the rest.
Refuse(n) ==
    /\ Refilled < n
    /\ tokens' = Refilled
    /\ age' = 0
    /\ UNCHANGED <<elapsed, spent>>

\* Another window begins.
Watch ==
    /\ elapsed' = 0 /\ spent' = 0
    /\ UNCHANGED <<tokens, age>>

Next ==
    \/ Elapse
    \/ \E n \in Sizes : Grant(n) \/ Refuse(n)
    \/ Watch

Spec == Init /\ [][Next]_vars

-----------------------------------------------------------------------------

\* In any window of time the bucket grants what it holds, one second's worth, and
\* what the window refills: never more, whoever asks and in whatever order
\* (bandwidth.rs:246-274, rate_limiter.rs:68-96).
WindowBound == spent <= Cap + elapsed

\* What is granted, and what can still be granted at once, stays within the bound.
Allowance == spent + Refilled <= Cap + elapsed
=============================================================================
