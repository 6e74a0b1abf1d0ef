---------------------------- MODULE FrameProofs ----------------------------
(***************************************************************************)
(* Theorems about the frame corrections, for every budget, cadence and     *)
(* chunk size.                                                             *)
(***************************************************************************)
EXTENDS FrameCorrection, FiniteSetTheorems, TLAPS

-----------------------------------------------------------------------------
(***************************************************************************)
(* Arithmetic of the budget.                                               *)
(***************************************************************************)
\* Rounding up covers the whole interval: MaxCorrections times MinInterval is
\* at least TickFrames.
LEMMA CeilCovers ==
  ASSUME NEW a \in Nat \ {0}, NEW b \in Nat \ {0}
  PROVE  /\ CeilDiv(a, b) \in Nat \ {0}
         /\ a <= b * CeilDiv(a, b)
<1> DEFINE q == (a + b - 1) \div b
           r == (a + b - 1) % b
<1>1. /\ q \in Int /\ r \in 0 .. b - 1
      /\ a + b - 1 = b * q + r
  OBVIOUS
<1>2. a <= b * q
  BY <1>1
<1>3. q >= 1
  <2>1. CASE q >= 1
    BY <2>1
  <2>2. CASE q <= 0
    <3>1. b * q <= 0
      BY <1>1, <2>2
    <3> QED
      BY <3>1, <1>2
  <2> QED
    BY <1>1, <2>1, <2>2
<1> QED
  BY <1>1, <1>2, <1>3 DEF CeilDiv

\* A number below m * k is in one of m stretches of length k.
LEMMA StretchOf ==
  ASSUME NEW x \in Nat, NEW k \in Nat \ {0}, NEW m \in Nat, x < m * k
  PROVE  (x \div k) \in 0 .. m - 1
<1> DEFINE q == x \div k
           r == x % k
<1>1. /\ q \in Int /\ r \in 0 .. k - 1
      /\ x = k * q + r
  OBVIOUS
<1>2. q >= 0
  <2>1. CASE q <= -1
    <3>1. k * q <= -k
      BY <1>1, <2>1
    <3> QED
      BY <3>1, <1>1
  <2> QED
    BY <1>1, <2>1
<1>3. q <= m - 1
  <2>1. CASE q >= m
    <3>1. k * q >= k * m
      BY <1>1, <2>1
    <3> QED
      BY <3>1, <1>1
  <2> QED
    BY <1>1, <2>1
<1> QED
  BY <1>1, <1>2, <1>3

\* Two numbers in the same stretch are less than its length apart.
LEMMA SameStretch ==
  ASSUME NEW x \in Nat, NEW y \in Nat, NEW k \in Nat \ {0},
         x \div k = y \div k
  PROVE  x - y < k
<1> DEFINE q == x \div k
<1>1. /\ q \in Int /\ (x % k) \in 0 .. k - 1 /\ (y % k) \in 0 .. k - 1
      /\ x = k * q + (x % k)
      /\ y = k * q + (y % k)
  OBVIOUS
<1> QED
  BY <1>1

\* Numbers that are k apart: at most m of them lie in a window of m * k.
LEMMA SpacedCount ==
  ASSUME NEW k \in Nat \ {0}, NEW m \in Nat, NEW w \in Nat, NEW n \in Nat,
         n <= m * k,
         NEW S \in SUBSET Nat,
         \A c \in S : w <= c /\ c < w + n,
         \A c, e \in S : c < e => e - c >= k
  PROVE  Cardinality(S) <= m
<1> DEFINE f == [c \in S |-> (c - w) \div k]
<1>1. ASSUME NEW c \in S
      PROVE  /\ c - w \in Nat
             /\ f[c] \in 0 .. m - 1
  <2>1. c - w \in Nat /\ c - w < m * k
    BY <1>1
  <2>2. ((c - w) \div k) \in 0 .. m - 1
    BY <2>1, StretchOf
  <2> QED
    BY <2>1, <2>2
<1>2. f \in [S -> 0 .. m - 1]
  BY <1>1
<1>3. ASSUME NEW c \in S, NEW e \in S, f[c] = f[e]
      PROVE  c = e
  <2>1. (c - w) - (e - w) < k /\ (e - w) - (c - w) < k
    BY <1>1, <1>3, SameStretch
  <2> QED
    BY <2>1
<1>4. f \in Injection(S, 0 .. m - 1)
  BY <1>2, <1>3 DEF Injection, IsInjective
<1>5. IsFiniteSet(0 .. m - 1) /\ Cardinality(0 .. m - 1) = m
  BY FS_Interval
<1> QED
  BY <1>4, <1>5, FS_Injection

-----------------------------------------------------------------------------
(***************************************************************************)
(* The invariant.                                                          *)
(***************************************************************************)
\* Without an anchor there is nothing to correct and no frame to repeat.
Anchoring ==
  /\ ~anchored => lastFrame = NoFrame
  /\ left > 0 => anchored

\* One direction at a time, within the budget and within the longest cadence.
Cadence ==
  /\ ~(every["insert"] > 0 /\ every["drop"] > 0)
  /\ \A d \in Directions : every[d] > 0 =>
        /\ MaxCorrections > 0
        /\ MinInterval <= every[d] /\ every[d] <= LongestInterval

\* Two corrections are an interval apart, and so is the next one, which is
\* due when its counter runs out, from all before it.
Spacing ==
  /\ corrected # {} => MaxCorrections > 0
  /\ \A c \in corrected : c < source
  /\ \A c, e \in corrected : c < e => e - c >= MinInterval
  /\ \A c \in corrected : \A d \in Directions :
        every[d] > 0 => source + counter[d] - 1 - c >= MinInterval

\* The wait so far and the wait to come make up one cadence at most.
Waiting ==
  \A d \in Directions : every[d] > 0 => waited[d] + counter[d] <= LongestInterval

\* The interval of a budget that is not zero.
LEMMA IntervalType ==
  ASSUME MaxCorrections > 0
  PROVE  /\ MinInterval \in Nat \ {0}
         /\ TickFrames <= MaxCorrections * MinInterval
         /\ LongestInterval \in Nat
         /\ MinInterval <= LongestInterval /\ MaxCadence <= LongestInterval
<1>1. TickFrames \in Nat \ {0} /\ MaxCorrections \in Nat \ {0}
  BY BudgetAssumption
<1>2. /\ MinInterval \in Nat \ {0}
      /\ TickFrames <= MaxCorrections * MinInterval
  BY <1>1, CeilCovers DEF MinInterval
<1> QED
  BY <1>2, StreamAssumption DEF LongestInterval

\* What the drift check may put in force.
LEMMA BudgetedPlan ==
  ASSUME NEW plan \in Plans
  PROVE  /\ Budgeted(plan) \in [Directions -> Nat]
         /\ ~(Budgeted(plan)["insert"] > 0 /\ Budgeted(plan)["drop"] > 0)
         /\ \A d \in Directions : Budgeted(plan)[d] > 0 =>
               /\ MaxCorrections > 0
               /\ MinInterval <= Budgeted(plan)[d]
               /\ Budgeted(plan)[d] <= LongestInterval
<1>1. CASE MaxCorrections = 0
  BY <1>1 DEF Budgeted, Off, Directions
<1>2. CASE MaxCorrections > 0
  <2>1. /\ plan \in [Directions -> Nat]
        /\ ~(plan["insert"] > 0 /\ plan["drop"] > 0)
        /\ \A d \in Directions : plan[d] <= MaxCadence
    <3>1. CASE plan = Off
      BY <3>1, StreamAssumption DEF Off, Directions
    <3>2. CASE plan # Off
      <4>1. PICK d \in Directions, n \in Cadences : plan = [Off EXCEPT ![d] = n]
        BY <3>2 DEF Plans
      <4>2. n \in Nat /\ n <= MaxCadence
        BY StreamAssumption
      <4> QED
        BY <4>1, <4>2, StreamAssumption DEF Off, Directions
    <3> QED
      BY <3>1, <3>2
  <2>2. /\ MinInterval \in Nat \ {0} /\ LongestInterval \in Nat
        /\ MinInterval <= LongestInterval /\ MaxCadence <= LongestInterval
    BY <1>2, IntervalType
  <2>3. Budgeted(plan) = [d \in Directions |->
                            IF plan[d] = 0 THEN 0
                            ELSE IF plan[d] >= MinInterval THEN plan[d] ELSE MinInterval]
    BY <1>2 DEF Budgeted
  <2> HIDE DEF MinInterval, LongestInterval, Budgeted
  <2> QED
    BY <1>2, <2>1, <2>2, <2>3, StreamAssumption DEF Directions
<1> QED
  BY <1>1, <1>2, BudgetAssumption

-----------------------------------------------------------------------------
(***************************************************************************)
(* Each part is preserved by every step.                                   *)
(***************************************************************************)
LEMMA TypeStep ==
  ASSUME TypeOK, [Next]_vars
  PROVE  TypeOK'
<1> USE StreamAssumption DEF TypeOK
<1>1. CASE SetSchedule
  <2>1. PICK plan \in Plans :
          /\ every' = Budgeted(plan)
          /\ counter' = [d \in Directions |-> NextCounter(d, Budgeted(plan))]
          /\ waited' = [d \in Directions |-> IF every[d] > 0 /\ Budgeted(plan)[d] > 0
                                                THEN waited[d] ELSE 0]
    BY <1>1 DEF SetSchedule
  <2>2. Budgeted(plan) \in [Directions -> Nat]
    BY BudgetedPlan
  <2>3. \A d \in Directions :
          /\ NextCounter(d, Budgeted(plan)) \in Nat
          /\ Budgeted(plan)[d] > 0 =>
                NextCounter(d, Budgeted(plan)) \in 1 .. Budgeted(plan)[d]
    BY <2>2 DEF NextCounter
  <2>4. waited' \in [Directions -> Nat]
    BY <2>1
  <2> QED
    BY <1>1, <2>1, <2>2, <2>3, <2>4 DEF SetSchedule
<1>2. CASE Reset
  <2>1. Off \in [Directions -> Nat] /\ \A d \in Directions : ~(Off[d] > 0)
    BY DEF Off
  <2> QED
    BY <1>2, <2>1 DEF Reset, NoFrame
<1>3. CASE SetAnchor
  BY <1>3 DEF SetAnchor, ghosts
<1>4. CASE WriteSequential
  BY <1>4 DEF WriteSequential, Arrives, config, ghosts
<1>5. CASE DropStale
  BY <1>5 DEF DropStale, Arrives, config, ghosts
<1>6. CASE TrimStale
  BY <1>6 DEF TrimStale, Arrives, config, ghosts
<1>7. CASE WriteUncorrected
  BY <1>7 DEF WriteUncorrected, Arrives, config, ghosts
<1>8. CASE BeginCorrected
  BY <1>8 DEF BeginCorrected, Arrives, config, ghosts
<1>9. CASE DropFrame
  <2>1. counter' \in [Directions -> Nat] /\ waited' \in [Directions -> Nat]
    BY <1>9 DEF DropFrame
  <2>2. \A d \in Directions : every'[d] > 0 => counter'[d] \in 1 .. every'[d]
    BY <1>9 DEF DropFrame, Directions
  <2> QED
    BY <1>9, <2>1, <2>2 DEF DropFrame, NextFrame
<1>10. CASE WriteFrame
  <2>1. \A d \in Directions :
          /\ Counted(d) \in Nat
          /\ every[d] > 0 => Counted(d) \in 1 .. every[d]
    BY DEF Counted, Due
  <2>2. /\ counter' = [d \in Directions |-> Counted(d)]
        /\ every' = every
    BY <1>10 DEF WriteFrame
  <2>3. /\ counter' \in [Directions -> Nat]
        /\ \A d \in Directions : every'[d] > 0 => counter'[d] \in 1 .. every'[d]
    BY <2>1, <2>2
  <2>4. waited' \in [Directions -> Nat]
    BY <1>10 DEF WriteFrame
  <2>5. corrected' \subseteq Nat
    BY <1>10 DEF WriteFrame
  <2> QED
    BY <1>10, <2>3, <2>4, <2>5 DEF WriteFrame, NextFrame
<1>11. CASE UNCHANGED vars
  BY <1>11 DEF vars, ghosts
<1> QED
  BY <1>1, <1>2, <1>3, <1>4, <1>5, <1>6, <1>7, <1>8, <1>9, <1>10, <1>11 DEF Next

LEMMA AnchoringStep ==
  ASSUME TypeOK, Anchoring, RepeatsWhatSounded, [Next]_vars
  PROVE  Anchoring' /\ RepeatsWhatSounded'
<1> USE StreamAssumption DEF Anchoring, RepeatsWhatSounded
<1>1. CASE SetSchedule
  BY <1>1 DEF SetSchedule
<1>2. CASE Reset
  BY <1>2 DEF Reset
<1>3. CASE SetAnchor
  BY <1>3 DEF SetAnchor
<1>4. CASE WriteSequential
  BY <1>4 DEF WriteSequential, Arrives, config
<1>5. CASE DropStale
  BY <1>5 DEF DropStale, Arrives, config
<1>6. CASE TrimStale
  BY <1>6 DEF TrimStale, Arrives, config
<1>7. CASE WriteUncorrected
  BY <1>7 DEF WriteUncorrected, Arrives, config
<1>8. CASE BeginCorrected
  BY <1>8 DEF BeginCorrected, Arrives, config
<1>9. CASE DropFrame
  BY <1>9 DEF DropFrame, NextFrame, TypeOK
<1>10. CASE WriteFrame
  BY <1>10 DEF WriteFrame, NextFrame, TypeOK
<1>11. CASE UNCHANGED vars
  BY <1>11 DEF vars
<1> QED
  BY <1>1, <1>2, <1>3, <1>4, <1>5, <1>6, <1>7, <1>8, <1>9, <1>10, <1>11 DEF Next

LEMMA CadenceStep ==
  ASSUME TypeOK, Cadence, [Next]_vars
  PROVE  Cadence'
<1>1. CASE SetSchedule
  <2>1. PICK plan \in Plans : every' = Budgeted(plan)
    BY <1>1 DEF SetSchedule
  <2>2. /\ ~(every'["insert"] > 0 /\ every'["drop"] > 0)
        /\ \A d \in Directions : every'[d] > 0 =>
              /\ MaxCorrections > 0
              /\ MinInterval <= every'[d] /\ every'[d] <= LongestInterval
    BY <2>1, BudgetedPlan
  <2> QED
    BY <2>2 DEF Cadence, MinInterval, LongestInterval
<1>2. CASE Reset
  <2>1. every' = [d \in Directions |-> 0]
    BY <1>2 DEF Reset, Off
  <2> QED
    BY <2>1 DEF Cadence, Directions
<1>3. CASE UNCHANGED every
  BY <1>3 DEF Cadence, MinInterval, LongestInterval
<1> QED
  BY <1>1, <1>2, <1>3 DEF Next, vars, config, SetAnchor, WriteSequential, DropStale,
     TrimStale, WriteUncorrected, BeginCorrected, DropFrame, WriteFrame

\* The parts of Spacing that hold for frames that pass without a correction.
LEMMA SpacingKept ==
  ASSUME TypeOK, Spacing, UNCHANGED corrected, source' \in Nat, source' >= source,
         every' \in [Directions -> Nat],
         counter' \in [Directions -> Nat],
         MaxCorrections > 0 => MinInterval \in Nat,
         \A d \in Directions : every'[d] > 0 =>
            \/ counter'[d] >= MinInterval
            \/ every[d] > 0 /\ source' + counter'[d] >= source + counter[d]
  PROVE  Spacing'
<1>1. \A c \in corrected : c \in Nat /\ c < source
  BY DEF TypeOK, Spacing
<1>2. source \in Nat /\ counter \in [Directions -> Nat]
  BY DEF TypeOK
<1>3. ASSUME NEW c \in corrected, NEW d \in Directions, every'[d] > 0
      PROVE  source' + counter'[d] - 1 - c >= MinInterval
  <2>0. MinInterval \in Nat
    BY <1>3 DEF Spacing
  <2>1. CASE counter'[d] >= MinInterval
    BY <1>1, <1>2, <2>0, <2>1
  <2>2. CASE every[d] > 0 /\ source' + counter'[d] >= source + counter[d]
    <3>1. source + counter[d] - 1 - c >= MinInterval
      BY <2>2 DEF Spacing
    <3> QED
      BY <1>1, <1>2, <2>0, <2>2, <3>1
  <2> QED
    BY <1>3, <2>1, <2>2
<1>4. \A c \in corrected' : c < source'
  BY <1>1, <1>2
<1> QED
  BY <1>3, <1>4 DEF Spacing, MinInterval

\* A frame is corrected when the counter of its direction has run out.
LEMMA SpacingAtCorrection ==
  ASSUME TypeOK, Cadence, Spacing,
         NEW d \in Directions, every[d] > 0, counter[d] <= 1,
         corrected' = corrected \cup {source}, source' = source + 1,
         UNCHANGED every,
         counter' \in [Directions -> Nat], counter'[d] = every[d]
  PROVE  Spacing'
<1>1. MaxCorrections > 0 /\ MinInterval \in Nat /\ every[d] >= MinInterval
  BY IntervalType DEF Cadence
<1>2. /\ corrected \subseteq Nat /\ source \in Nat
      /\ counter \in [Directions -> Nat] /\ every \in [Directions -> Nat]
  BY DEF TypeOK
<1>3. \A c \in corrected : c < source /\ source - c >= MinInterval
  <2> SUFFICES ASSUME NEW c \in corrected
               PROVE  c < source /\ source - c >= MinInterval
    OBVIOUS
  <2>1. c < source /\ source + counter[d] - 1 - c >= MinInterval
    BY DEF Spacing
  <2> QED
    BY <1>1, <1>2, <2>1
<1>4. ASSUME NEW e \in Directions, every'[e] > 0
      PROVE  e = d
  BY <1>2, <1>4 DEF Cadence, Directions
<1>5. ASSUME NEW c \in corrected', NEW e \in Directions, every'[e] > 0
      PROVE  source' + counter'[e] - 1 - c >= MinInterval
  <2>1. e = d /\ c \in Nat /\ c <= source
    BY <1>2, <1>3, <1>4, <1>5
  <2> QED
    BY <1>1, <1>2, <2>1
<1>6. ASSUME NEW c \in corrected', NEW e \in corrected', c < e
      PROVE  e - c >= MinInterval
  <2>1. CASE e = source
    BY <1>2, <1>3, <1>6, <2>1
  <2>2. CASE e # source
    <3>1. e \in corrected /\ e < source
      BY <1>3, <2>2
    <3>2. c \in corrected
      BY <1>2, <1>6, <3>1
    <3> QED
      BY <1>6, <3>1, <3>2 DEF Spacing
  <2> QED
    BY <2>1, <2>2
<1>7. \A c \in corrected' : c < source'
  BY <1>2, <1>3
<1> QED
  BY <1>1, <1>5, <1>6, <1>7 DEF Spacing, MinInterval

LEMMA SpacingStep ==
  ASSUME TypeOK, Cadence, Spacing, [Next]_vars
  PROVE  Spacing'
<1>1. TypeOK' /\ Cadence'
  BY TypeStep, CadenceStep
<1>2. /\ source \in Nat /\ source' \in Nat
      /\ every \in [Directions -> Nat] /\ every' \in [Directions -> Nat]
      /\ counter \in [Directions -> Nat] /\ counter' \in [Directions -> Nat]
  BY <1>1 DEF TypeOK
<1>3. MaxCorrections > 0 => MinInterval \in Nat
  BY IntervalType
<1>4. CASE SetSchedule
  <2>1. PICK plan \in Plans :
          /\ every' = Budgeted(plan)
          /\ counter' = [d \in Directions |-> NextCounter(d, Budgeted(plan))]
    BY <1>4 DEF SetSchedule
  <2>2. UNCHANGED <<corrected, source>>
    BY <1>4 DEF SetSchedule
  <2>3. ASSUME NEW d \in Directions, every'[d] > 0
        PROVE  \/ counter'[d] >= MinInterval
               \/ every[d] > 0 /\ source' + counter'[d] >= source + counter[d]
    <3>1. MinInterval \in Nat /\ every'[d] >= MinInterval
      BY <1>1, <1>3, <2>3 DEF Cadence
    <3>2. counter'[d] = NextCounter(d, every')
      BY <2>1
    <3>3. every[d] > 0 => counter[d] >= 1
      BY DEF TypeOK
    <3> QED
      BY <1>2, <2>2, <2>3, <3>1, <3>2, <3>3 DEF NextCounter
  <2> QED
    BY <1>2, <1>3, <2>2, <2>3, SpacingKept
<1>5. CASE Reset
  <2>1. UNCHANGED <<corrected, source>> /\ \A d \in Directions : ~(every'[d] > 0)
    BY <1>5 DEF Reset, Off
  <2> QED
    BY <1>2, <1>3, <2>1, SpacingKept
<1>6. CASE SetAnchor \/ WriteSequential \/ DropStale \/ TrimStale
             \/ WriteUncorrected \/ BeginCorrected
  <2>1. UNCHANGED <<every, counter, corrected>> /\ source' >= source
    BY <1>2, <1>6, StreamAssumption DEF SetAnchor, WriteSequential, DropStale,
       TrimStale, WriteUncorrected, BeginCorrected, Arrives, config, ghosts
  <2>2. \A d \in Directions : every'[d] > 0 =>
          every[d] > 0 /\ source' + counter'[d] >= source + counter[d]
    BY <1>2, <2>1
  <2> QED
    BY <1>2, <1>3, <2>1, <2>2, SpacingKept
<1>7. CASE DropFrame
  <2>1. /\ every["drop"] > 0 /\ counter["drop"] <= 1
        /\ corrected' = corrected \cup {source} /\ source' = source + 1
        /\ UNCHANGED every /\ counter'["drop"] = every["drop"]
    BY <1>2, <1>7 DEF DropFrame, NextFrame, Due, Directions
  <2>2. "drop" \in Directions
    BY DEF Directions
  <2> QED
    BY <1>2, <2>1, <2>2, SpacingAtCorrection
<1>8. CASE WriteFrame
  <2>1. /\ source' = source + 1 /\ UNCHANGED every
        /\ counter' = [d \in Directions |-> Counted(d)]
    BY <1>8 DEF WriteFrame, NextFrame
  <2>2. CASE corrected' # corrected
    <3>1. /\ every["insert"] > 0 /\ counter["insert"] <= 1
          /\ corrected' = corrected \cup {source}
      BY <1>8, <2>2 DEF WriteFrame, Due
    <3>2. "insert" \in Directions
      BY DEF Directions
    <3>3. counter'["insert"] = every["insert"]
      BY <1>2, <2>1, <3>1, <3>2 DEF Counted, Due
    <3> QED
      BY <1>2, <2>1, <3>1, <3>2, <3>3, SpacingAtCorrection
  <2>3. CASE corrected' = corrected
    <3>1. ASSUME NEW d \in Directions, every'[d] > 0
          PROVE  \/ counter'[d] >= MinInterval
                 \/ every[d] > 0 /\ source' + counter'[d] >= source + counter[d]
      <4>1. MinInterval \in Nat /\ every[d] >= MinInterval
        BY <1>1, <1>3, <2>1, <3>1 DEF Cadence
      <4> QED
        BY <1>2, <2>1, <3>1, <4>1 DEF Counted, Due
    <3> QED
      BY <1>2, <1>3, <2>1, <2>3, <3>1, SpacingKept
  <2> QED
    BY <2>2, <2>3
<1>9. CASE UNCHANGED vars
  <2>1. UNCHANGED <<every, counter, corrected, source>>
    BY <1>9 DEF vars, ghosts
  <2> QED
    BY <1>2, <1>3, <2>1, SpacingKept
<1> QED
  BY <1>4, <1>5, <1>6, <1>7, <1>8, <1>9 DEF Next

LEMMA WaitingStep ==
  ASSUME TypeOK, Cadence, Waiting, [Next]_vars
  PROVE  Waiting'
<1>1. TypeOK' /\ Cadence'
  BY TypeStep, CadenceStep
<1>2. /\ every \in [Directions -> Nat] /\ every' \in [Directions -> Nat]
      /\ counter \in [Directions -> Nat] /\ counter' \in [Directions -> Nat]
      /\ waited \in [Directions -> Nat] /\ waited' \in [Directions -> Nat]
  BY <1>1 DEF TypeOK
<1> SUFFICES ASSUME NEW d \in Directions, every'[d] > 0
             PROVE  waited'[d] + counter'[d] <= LongestInterval
  BY DEF Waiting, LongestInterval, MinInterval
<1>3. LongestInterval \in Nat /\ every'[d] <= LongestInterval
  BY <1>1, IntervalType DEF Cadence
<1>4. counter'[d] <= every'[d]
  BY <1>1 DEF TypeOK
<1>5. every[d] > 0 => counter[d] >= 1 /\ waited[d] + counter[d] <= LongestInterval
  BY DEF TypeOK, Waiting
<1>6. CASE SetSchedule
  <2>1. PICK plan \in Plans :
          /\ every' = Budgeted(plan)
          /\ counter' = [e \in Directions |-> NextCounter(e, Budgeted(plan))]
          /\ waited' = [e \in Directions |-> IF every[e] > 0 /\ Budgeted(plan)[e] > 0
                                                THEN waited[e] ELSE 0]
    BY <1>6 DEF SetSchedule
  <2>2. CASE every[d] > 0
    <3>1. counter'[d] <= counter[d] /\ waited'[d] = waited[d]
      BY <1>2, <1>5, <2>1, <2>2 DEF NextCounter
    <3> QED
      BY <1>2, <1>3, <1>5, <2>2, <3>1
  <2>3. CASE ~(every[d] > 0)
    <3>1. waited'[d] = 0
      BY <2>1, <2>3
    <3> QED
      BY <1>2, <1>3, <1>4, <3>1
  <2> QED
    BY <2>2, <2>3
<1>7. CASE Reset
  BY <1>7 DEF Reset, Off
<1>8. CASE UNCHANGED <<every, counter, waited>>
  BY <1>5, <1>8
<1>9. CASE DropFrame
  <2>1. /\ every' = every
        /\ counter' = [counter EXCEPT !["drop"] = every["drop"]]
        /\ waited' = [waited EXCEPT !["drop"] = 0]
    BY <1>9 DEF DropFrame
  <2>2. CASE d = "drop"
    <3>1. waited'[d] = 0
      BY <1>2, <2>1, <2>2
    <3> QED
      BY <1>2, <1>3, <1>4, <3>1
  <2>3. CASE d # "drop"
    <3>1. waited'[d] = waited[d] /\ counter'[d] = counter[d]
      BY <1>2, <2>1, <2>3
    <3> QED
      BY <1>5, <2>1, <3>1
  <2> QED
    BY <2>2, <2>3
<1>10. CASE WriteFrame
  <2>1. /\ every' = every
        /\ counter'[d] = Counted(d)
        /\ waited'[d] = IF every[d] = 0 \/ Due(d) THEN 0 ELSE waited[d] + 1
    BY <1>10 DEF WriteFrame
  <2>2. CASE Due(d)
    BY <1>2, <1>3, <1>4, <2>1, <2>2
  <2>3. CASE ~Due(d)
    <3>1. every[d] > 0 /\ counter'[d] = counter[d] - 1 /\ waited'[d] = waited[d] + 1
      BY <1>2, <2>1, <2>3 DEF Counted
    <3> QED
      BY <1>2, <1>3, <1>5, <3>1
  <2> QED
    BY <2>2, <2>3
<1> QED
  BY <1>6, <1>7, <1>8, <1>9, <1>10 DEF Next, vars, config, ghosts, SetAnchor,
     WriteSequential, DropStale, TrimStale, WriteUncorrected, BeginCorrected

-----------------------------------------------------------------------------
(***************************************************************************)
(* The theorems.                                                           *)
(***************************************************************************)
Invariant == TypeOK /\ Anchoring /\ RepeatsWhatSounded /\ Cadence /\ Spacing /\ Waiting

LEMMA Initially == Init => Invariant
<1> SUFFICES ASSUME Init PROVE Invariant
  OBVIOUS
<1>1. Off \in [Directions -> Nat] /\ \A d \in Directions : Off[d] = 0
  BY DEF Off
<1>2. TypeOK
  <2>1. /\ anchored \in BOOLEAN /\ corrected \subseteq Nat
        /\ {lastFrame, heard} \subseteq Nat \cup {NoFrame}
        /\ left \in Nat /\ source \in Nat
    BY DEF Init
  <2>2. every = Off /\ counter = Off /\ waited = Off
    BY DEF Init
  <2>3. \A d \in Directions : every[d] > 0 => counter[d] \in 1 .. every[d]
    BY <1>1, <2>2
  <2> QED
    BY <1>1, <2>1, <2>2, <2>3 DEF TypeOK
<1>3. Anchoring /\ RepeatsWhatSounded
  BY DEF Init, Anchoring, RepeatsWhatSounded
<1>4. Cadence
  BY <1>1 DEF Init, Cadence, Directions
<1>5. Spacing
  BY DEF Init, Spacing
<1>6. Waiting
  BY <1>1 DEF Init, Waiting
<1> QED
  BY <1>2, <1>3, <1>4, <1>5, <1>6 DEF Invariant

LEMMA InvariantHolds == Spec => []Invariant
<1>1. Invariant /\ [Next]_vars => Invariant'
  BY TypeStep, AnchoringStep, CadenceStep, SpacingStep, WaitingStep DEF Invariant
<1> QED
  BY Initially, <1>1, PTL DEF Spec

\* The variables of CorrectionState stay in their ranges: a counter in use is
\* never zero and never beyond its cadence.
THEOREM TypeCorrect == Spec => []TypeOK
<1>1. Invariant => TypeOK
  BY DEF Invariant
<1> QED
  BY <1>1, InvariantHolds, PTL

\* A repeated frame repeats the frame that sounds just before it.
THEOREM RepeatSound == Spec => []RepeatsWhatSounded
<1>1. Invariant => RepeatsWhatSounded
  BY DEF Invariant
<1> QED
  BY <1>1, InvariantHolds, PTL

\* No schedule that changes its cadence keeps a correction waiting for more
\* than the longest cadence.
THEOREM TurnsComeRound == Spec => []CorrectionsKeepComing
<1>1. Invariant => CorrectionsKeepComing
  <2> SUFFICES ASSUME Invariant, NEW d \in Directions, every[d] > 0
               PROVE  waited[d] < LongestInterval
    BY DEF CorrectionsKeepComing
  <2>1. LongestInterval \in Nat
    BY IntervalType DEF Invariant, Cadence
  <2>2. counter[d] \in Nat /\ counter[d] >= 1 /\ waited[d] \in Nat
    BY DEF Invariant, TypeOK
  <2>3. waited[d] + counter[d] <= LongestInterval
    BY DEF Invariant, Waiting
  <2> QED
    BY <2>1, <2>2, <2>3
<1> QED
  BY <1>1, InvariantHolds, PTL

\* The command line's budget holds for every stretch of the stream as long as
\* a drift check interval, across every change and reset of the schedule.
THEOREM Budget == Spec => []BudgetKept
<1>1. Invariant => BudgetKept
  <2> SUFFICES ASSUME Invariant, NEW w \in 0 .. source
               PROVE  Cardinality({c \in corrected : w <= c /\ c < w + TickFrames})
                        <= MaxCorrections
    BY DEF BudgetKept
  <2> DEFINE S == {c \in corrected : w <= c /\ c < w + TickFrames}
  <2>1. TypeOK /\ Spacing
    BY DEF Invariant
  <2>2. /\ corrected \subseteq Nat /\ source \in Nat
        /\ S \subseteq corrected /\ w \in Nat
    <3>1. corrected \subseteq Nat /\ source \in Nat
      BY <2>1 DEF TypeOK
    <3> QED
      BY <3>1
  <2>3. CASE corrected = {}
    <3>1. S = {}
      BY <2>3
    <3> QED
      BY <3>1, FS_EmptySet, BudgetAssumption
  <2>4. CASE corrected # {}
    <3>1. /\ MinInterval \in Nat \ {0} /\ MaxCorrections \in Nat
          /\ TickFrames \in Nat /\ TickFrames <= MaxCorrections * MinInterval
      BY <2>1, <2>4, IntervalType, BudgetAssumption DEF Spacing
    <3>2. \A c, e \in S : c < e => e - c >= MinInterval
      BY <2>1 DEF Spacing
    <3>3. \A c \in S : w <= c /\ c < w + TickFrames
      OBVIOUS
    <3>4. S \in SUBSET Nat
      BY <2>2
    <3> HIDE DEF S
    <3>5. Cardinality(S) <= MaxCorrections
      BY <2>2, <3>1, <3>2, <3>3, <3>4, SpacedCount
    <3> QED
      BY <3>5 DEF S
  <2> QED
    BY <2>3, <2>4
<1> QED
  BY <1>1, InvariantHolds, PTL
=============================================================================
