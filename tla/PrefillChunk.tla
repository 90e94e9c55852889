----------------------------- MODULE PrefillChunk -----------------------------
(***************************************************************************)
(* The bisection that finds how many prompt tokens a step can afford       *)
(* (engine/scheduler/iteration_plan.py, max_chunk_for_attention_pairs), as *)
(* a loop, and the proof that it finds the largest such number: what       *)
(* PagedScheduler takes LargestChunk to be.                                *)
(***************************************************************************)
EXTENDS Integers, TLAPS

VARIABLES
  prefix, most, budget,  \* prefix_length, max_chunk, pair_budget
  low, high              \* the loop's locals

vars == <<prefix, most, budget, low, high>>

\* prefill_attention_pairs
Pairs(p, c) == (c * (2 * p + c + 1)) \div 2

Candidate == (low + high + 1) \div 2
Affordable(c) == Pairs(prefix, c) <= budget

Init ==
  /\ prefix \in Nat /\ most \in Nat /\ budget \in Nat
  /\ low = 0
  /\ high = most

Raise == /\ low < high /\ Affordable(Candidate)
         /\ low' = Candidate
         /\ UNCHANGED <<prefix, most, budget, high>>

Lower == /\ low < high /\ ~Affordable(Candidate)
         /\ high' = Candidate - 1
         /\ UNCHANGED <<prefix, most, budget, low>>

Next == Raise \/ Lower

Spec == Init /\ [][Next]_vars

-----------------------------------------------------------------------------

\* What the loop returns is affordable, and nothing larger up to max_chunk is,
\* although it looked at a few candidates only: "Largest integer chunk whose
\* causal attention work fits pair_budget".
FindsLargest ==
  low >= high => /\ low \in 0 .. most
                 /\ Affordable(low)
                 /\ \A c \in 0 .. most : Affordable(c) => c <= low

\* Every iteration narrows the interval: the loop ends.
Narrows == [][high' - low' < high - low]_vars

-----------------------------------------------------------------------------

\* A longer chunk costs no less.
LEMMA PairsMonotone ==
  ASSUME NEW p \in Nat, NEW c \in Nat, NEW d \in Nat, c <= d
  PROVE  Pairs(p, c) \in Nat /\ Pairs(p, c) <= Pairs(p, d)
<1> DEFINE x == 2 * p + c + 1
           y == 2 * p + d + 1
<1>1. x \in Nat /\ y \in Nat /\ x <= y
  OBVIOUS
<1> HIDE DEF x, y
<1>2. c * x <= d * x
  BY <1>1
<1>3. d * x <= d * y
  BY <1>1
<1>4. c * x \in Nat /\ d * x \in Nat /\ d * y \in Nat
  BY <1>1
<1> DEFINE u == c * x
           v == d * y
<1>5. u \in Nat /\ v \in Nat /\ u <= v
  BY <1>2, <1>3, <1>4
<1> HIDE DEF u, v
<1>6. u \div 2 \in Nat /\ u \div 2 <= v \div 2
  BY <1>5
<1>7. QED
  BY <1>6 DEF Pairs, u, v, x, y

\* The answer is between low and high: low is affordable, and what is beyond
\* high is not.
Between ==
  /\ prefix \in Nat /\ most \in Nat /\ budget \in Nat
  /\ low \in Nat /\ high \in Nat /\ low <= high /\ high <= most
  /\ Affordable(low)
  /\ \A c \in 0 .. most : Affordable(c) => c <= high

LEMMA CandidateBetween ==
  ASSUME Between, low < high
  PROVE  Candidate \in Nat /\ low < Candidate /\ Candidate <= high
BY DEF Between, Candidate

LEMMA BetweenStep ==
  ASSUME Between, [Next]_vars
  PROVE  Between'
<1>1. CASE Raise
  <2>1. Candidate \in Nat /\ low < Candidate /\ Candidate <= high
    BY <1>1, CandidateBetween DEF Raise
  <2>2. /\ prefix' = prefix /\ most' = most /\ budget' = budget /\ high' = high
        /\ low' = Candidate /\ Affordable(Candidate)
    BY <1>1 DEF Raise
  <2>3. QED
    BY <2>1, <2>2 DEF Between, Affordable
<1>2. CASE Lower
  <2>1. Candidate \in Nat /\ low < Candidate /\ Candidate <= high
    BY <1>2, CandidateBetween DEF Lower
  <2>2. /\ prefix' = prefix /\ most' = most /\ budget' = budget /\ low' = low
        /\ high' = Candidate - 1 /\ ~Affordable(Candidate)
    BY <1>2 DEF Lower
  <2>3. ASSUME NEW c \in 0 .. most, Affordable(c)
        PROVE  c <= Candidate - 1
    <3>1. SUFFICES ASSUME Candidate <= c
                   PROVE  FALSE
      BY <2>1
    <3>2. Pairs(prefix, Candidate) <= Pairs(prefix, c)
      BY <2>1, <3>1, PairsMonotone DEF Between
    <3>3. Pairs(prefix, Candidate) \in Nat /\ Pairs(prefix, c) \in Nat /\ budget \in Nat
      <4>1. prefix \in Nat /\ c \in Nat /\ budget \in Nat /\ Candidate <= Candidate /\ c <= c
        BY <2>1, <3>1 DEF Between
      <4>2. Pairs(prefix, Candidate) \in Nat
        BY <2>1, <4>1, PairsMonotone
      <4>3. Pairs(prefix, c) \in Nat
        BY <4>1, PairsMonotone
      <4>4. QED
        BY <4>1, <4>2, <4>3
    <3>4. QED
      BY <2>2, <2>3, <3>2, <3>3 DEF Affordable
  <2>4. QED
    BY <2>1, <2>2, <2>3 DEF Between, Affordable
<1>3. CASE UNCHANGED vars
  BY <1>3 DEF vars, Between, Affordable
<1>4. QED
  BY <1>1, <1>2, <1>3 DEF Next

LEMMA AlwaysBetween == Spec => []Between
<1>1. Init => Between
  <2>1. SUFFICES ASSUME Init
                 PROVE  Between
    OBVIOUS
  <2>2. Pairs(prefix, 0) = 0
    BY <2>1 DEF Init, Pairs
  <2>3. QED
    BY <2>1, <2>2 DEF Init, Between, Affordable
<1>2. QED
  BY <1>1, BetweenStep, PTL DEF Spec

\* For every prefix, limit and budget, the bisection returns the largest chunk
\* that the budget affords.
THEOREM BisectionFindsLargest == Spec => []FindsLargest
<1>1. Between => FindsLargest
  BY DEF Between, FindsLargest
<1>2. QED
  BY <1>1, AlwaysBetween, PTL

\* The bisection narrows with every iteration, down to the answer.
THEOREM BisectionNarrows == Spec => Narrows
<1>1. Between /\ [Next]_vars => [high' - low' < high - low]_vars
  <2>1. SUFFICES ASSUME Between, Next
                 PROVE  high' - low' < high - low
    OBVIOUS
  <2>2. low < high
    BY <2>1 DEF Next, Raise, Lower
  <2>3. Candidate \in Nat /\ low < Candidate /\ Candidate <= high /\ low \in Nat /\ high \in Nat
    BY <2>1, <2>2, CandidateBetween DEF Between
  <2>4. QED
    BY <2>1, <2>3 DEF Next, Raise, Lower
<1>2. QED
  BY <1>1, AlwaysBetween, PTL DEF Spec, Narrows

=============================================================================
