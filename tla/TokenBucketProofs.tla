------------------------- MODULE TokenBucketProofs -------------------------
(***************************************************************************)
(* The bound of module TokenBucket, for every capacity and all sizes. What *)
(* the window has spent is bounded by induction together with what the     *)
(* bucket could still grant at once (Allowance): a grant moves tokens from *)
(* the one to the other, a tick adds one unit to both sides at most.       *)
(***************************************************************************)
EXTENDS TokenBucket, TLAPS

LEMMA AtMostCapFacts ==
    ASSUME Cap \in Nat, NEW n \in Nat
    PROVE  AtMostCap(n) \in 0..Cap /\ AtMostCap(n) <= n
BY DEF AtMostCap

\* Types and bounds of the bucket: it never holds more than a second's worth.
THEOREM BucketTypes == BucketAssumption => (Spec => []TypeOK)
<1> SUFFICES ASSUME BucketAssumption PROVE Spec => []TypeOK
  OBVIOUS
<1> USE DEF BucketAssumption
<1>1. Init => TypeOK
  BY DEF Init, TypeOK
<1>2. TypeOK /\ [Next]_vars => TypeOK'
  <2> SUFFICES ASSUME TypeOK, [Next]_vars PROVE TypeOK'
    OBVIOUS
  <2>1. CASE Elapse
    BY <2>1, AtMostCapFacts, age + 1 \in Nat DEF TypeOK, Elapse
  <2>2. ASSUME NEW n \in Sizes, Grant(n) PROVE TypeOK'
    <3>1. n \in Nat /\ Refilled \in 0..Cap
      BY AtMostCapFacts, tokens + age \in Nat DEF TypeOK, Refilled
    <3> QED
      BY <2>2, <3>1 DEF TypeOK, Grant
  <2>3. ASSUME NEW n \in Sizes, Refuse(n) PROVE TypeOK'
    BY <2>3, AtMostCapFacts, tokens + age \in Nat DEF TypeOK, Refuse, Refilled
  <2>4. CASE Watch
    BY <2>4 DEF TypeOK, Watch
  <2>5. CASE UNCHANGED vars
    BY <2>5 DEF TypeOK, vars
  <2> QED
    BY <2>1, <2>2, <2>3, <2>4, <2>5 DEF Next
<1> QED
  BY <1>1, <1>2, PTL DEF Spec

\* In any window of time a bucket grants at most one second's worth and what the
\* window refills.
THEOREM BucketWindow == BucketAssumption => (Spec => []WindowBound)
<1> SUFFICES ASSUME BucketAssumption PROVE Spec => []WindowBound
  OBVIOUS
<1> USE DEF BucketAssumption
<1>1. Init => Allowance
  BY DEF Init, Allowance, Refilled, AtMostCap
<1>2. TypeOK /\ Allowance /\ [Next]_vars => Allowance'
  <2> SUFFICES ASSUME TypeOK, Allowance, [Next]_vars PROVE Allowance'
    OBVIOUS
  <2> USE DEF TypeOK, Allowance, Refilled, AtMostCap
  <2>1. CASE Elapse
    BY <2>1 DEF Elapse
  <2>2. ASSUME NEW n \in Sizes, Grant(n) PROVE Allowance'
    BY <2>2, n \in Nat DEF Grant
  <2>3. ASSUME NEW n \in Sizes, Refuse(n) PROVE Allowance'
    BY <2>3, n \in Nat DEF Refuse
  <2>4. CASE Watch
    BY <2>4 DEF Watch
  <2>5. CASE UNCHANGED vars
    BY <2>5 DEF vars
  <2> QED
    BY <2>1, <2>2, <2>3, <2>4, <2>5 DEF Next
<1>3. TypeOK /\ Allowance => WindowBound
  BY DEF TypeOK, Allowance, WindowBound, Refilled, AtMostCap
<1> QED
  BY <1>1, <1>2, <1>3, BucketTypes, PTL DEF Spec
=============================================================================
