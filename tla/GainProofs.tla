----------------------------- MODULE GainProofs -----------------------------
(***************************************************************************)
(* Theorems about the gain ramp, for every taper, ramp length and chunk.   *)
(***************************************************************************)
EXTENDS GainRamp, TLAPS

-----------------------------------------------------------------------------
(***************************************************************************)
(* The arithmetic of a ramp.                                               *)
(***************************************************************************)
\* Every command asks for a gain in range.
LEMMA TargetType ==
  ASSUME NEW v \in Volumes, NEW m \in BOOLEAN
  PROVE  GainOf(v, m) \in 0 .. Unity
  BY RampAssumption DEF GainOf

\* A ramp's steps are rounded toward zero, so they never lead past its target.
LEMMA StepsStayBetween ==
  ASSUME NEW g \in 0 .. Unity, NEW t \in 0 .. Unity, NEW k \in 0 .. RampFrames
  PROVE  /\ TruncDiv(t - g, RampFrames) \in -Unity .. Unity
         /\ g + TruncDiv(t - g, RampFrames) * k \in 0 .. Unity
<1>1. RampFrames \in Nat \ {0} /\ Unity \in Nat
  BY RampAssumption
<1>2. CASE t - g >= 0
  <2> DEFINE q == (t - g) \div RampFrames
  <2>1. /\ q \in Int /\ (t - g) % RampFrames \in 0 .. RampFrames - 1
        /\ t - g = RampFrames * q + ((t - g) % RampFrames)
    BY <1>1
  <2>2. q >= 0
    <3>1. CASE q <= -1
      <4>1. RampFrames * q <= -RampFrames
        BY <1>1, <2>1, <3>1
      <4> QED
        BY <1>1, <1>2, <2>1, <4>1
    <3> QED
      BY <2>1, <3>1
  <2>3. q * k >= 0 /\ q * k <= RampFrames * q
    BY <1>1, <2>1, <2>2
  <2>4. q <= RampFrames * q
    BY <1>1, <2>1, <2>2
  <2>5. TruncDiv(t - g, RampFrames) = q
    BY <1>2 DEF TruncDiv
  <2> HIDE DEF q
  <2> QED
    BY <1>1, <1>2, <2>1, <2>2, <2>3, <2>4, <2>5
<1>3. CASE t - g < 0
  <2> DEFINE q == (-(t - g)) \div RampFrames
  <2>1. /\ q \in Int /\ (-(t - g)) % RampFrames \in 0 .. RampFrames - 1
        /\ -(t - g) = RampFrames * q + ((-(t - g)) % RampFrames)
    BY <1>1
  <2>2. q >= 0
    <3>1. CASE q <= -1
      <4>1. RampFrames * q <= -RampFrames
        BY <1>1, <2>1, <3>1
      <4> QED
        BY <1>1, <1>3, <2>1, <4>1
    <3> QED
      BY <2>1, <3>1
  <2>3. q * k >= 0 /\ q * k <= RampFrames * q
    BY <1>1, <2>1, <2>2
  <2>4. q <= RampFrames * q
    BY <1>1, <2>1, <2>2
  <2>5. TruncDiv(t - g, RampFrames) = -q
    BY <1>3 DEF TruncDiv
  <2>6. (-q) * k = -(q * k)
    BY <1>1, <2>1
  <2> HIDE DEF q
  <2> QED
    BY <1>1, <1>3, <2>1, <2>2, <2>3, <2>4, <2>5, <2>6
<1> QED
  BY <1>1, <1>2, <1>3

-----------------------------------------------------------------------------
(***************************************************************************)
(* The operations on a ramp.  A good ramp is one in the ranges of its      *)
(* fields that stays in range to its end and, out of a ramp, is at its     *)
(* target.                                                                 *)
(***************************************************************************)
Good(r) ==
  /\ r \in Ramps
  /\ \A k \in 0 .. r.remaining : r.gain + r.step * k \in 0 .. Unity
  /\ r.remaining = 0 => r.gain = r.target

LEMMA RetargetedGood ==
  ASSUME NEW r, Good(r), NEW t \in 0 .. Unity
  PROVE  /\ Good(Retargeted(r, t))
         /\ Retargeted(r, t).target = t
         /\ \/ t = r.target /\ Retargeted(r, t) = r
            \/ t # r.target /\ Retargeted(r, t).remaining = RampFrames
<1>1. CASE t = r.target
  BY <1>1 DEF Retargeted
<1>2. CASE t # r.target
  <2>1. PICK g \in 0 .. Unity : g = r.gain
    BY DEF Good, Ramps
  <2> DEFINE s == TruncDiv(t - g, RampFrames)
             n == [gain |-> g, remaining |-> RampFrames, step |-> s, target |-> t]
  <2>2. Retargeted(r, t) = n
    BY <1>2, <2>1 DEF Retargeted
  <2>3. RampFrames \in Nat \ {0} /\ Unity \in Nat
    BY RampAssumption
  <2>4. s \in -Unity .. Unity /\ \A k \in 0 .. RampFrames : g + s * k \in 0 .. Unity
    BY <2>3, StepsStayBetween
  <2> HIDE DEF s
  <2>5. n \in Ramps
    BY <2>3, <2>4 DEF Ramps
  <2>6. n.remaining = RampFrames /\ n.gain = g /\ n.step = s /\ n.target = t
    OBVIOUS
  <2> HIDE DEF n
  <2> QED
    BY <1>2, <2>2, <2>3, <2>4, <2>5, <2>6 DEF Good
<1> QED
  BY <1>1, <1>2

\* A ramp is its four fields.
LEMMA FieldsOf ==
  ASSUME NEW r \in Ramps
  PROVE  \E g \in 0 .. Unity, m \in 0 .. RampFrames, s \in -Unity .. Unity, t \in 0 .. Unity :
            r = [gain |-> g, remaining |-> m, step |-> s, target |-> t]
  BY DEF Ramps

\* What advance makes of the fields of a good ramp: it never has to clamp.
LEMMA AdvancedFields ==
  ASSUME NEW g \in 0 .. Unity, NEW m \in 0 .. RampFrames,
         NEW s \in -Unity .. Unity, NEW t \in 0 .. Unity,
         Good([gain |-> g, remaining |-> m, step |-> s, target |-> t]),
         NEW n \in Nat
  PROVE  Advanced([gain |-> g, remaining |-> m, step |-> s, target |-> t], n) =
           [gain |-> IF n >= m THEN t ELSE g + s * n,
            remaining |-> IF n >= m THEN 0 ELSE m - n,
            step |-> s, target |-> t]
<1> DEFINE r == [gain |-> g, remaining |-> m, step |-> s, target |-> t]
           k == Fewer(n, m)
<1>1. RampFrames \in Nat /\ Unity \in Nat
  BY RampAssumption
<1>2. /\ \A j \in 0 .. m : g + s * j \in 0 .. Unity
      /\ m = 0 => g = t
  BY DEF Good
<1>3. Advanced(r, n) = [gain |-> IF k = 0 THEN g ELSE IF k = m THEN t ELSE Clamp(g + s * k),
                        remaining |-> m - k, step |-> s, target |-> t]
  BY DEF Advanced
<1>4. CASE n >= m
  <2>1. k = m
    BY <1>1, <1>4 DEF Fewer
  <2>2. m - k = 0 /\ (IF k = 0 THEN g ELSE IF k = m THEN t ELSE Clamp(g + s * k)) = t
    BY <1>1, <1>2, <2>1
  <2> QED
    BY <1>3, <1>4, <2>2
<1>5. CASE n < m
  <2>1. k = n /\ ~(n >= m)
    BY <1>1, <1>5 DEF Fewer
  <2>2. g + s * n \in 0 .. Unity /\ (n = 0 => g + s * n = g)
    BY <1>1, <1>2, <1>5
  <2>3. Clamp(g + s * n) = g + s * n
    BY <1>1, <2>2 DEF Clamp
  <2>4. (IF k = 0 THEN g ELSE IF k = m THEN t ELSE Clamp(g + s * k)) = g + s * n
    BY <1>1, <1>5, <2>1, <2>2, <2>3
  <2> QED
    BY <1>3, <2>1, <2>4
<1> QED
  BY <1>1, <1>4, <1>5

LEMMA AdvancedGood ==
  ASSUME NEW r, Good(r), NEW n \in Nat
  PROVE  /\ Good(Advanced(r, n))
         /\ Advanced(r, n).target = r.target
         /\ Advanced(r, n).remaining = IF n >= r.remaining THEN 0 ELSE r.remaining - n
<1>1. PICK g \in 0 .. Unity, m \in 0 .. RampFrames, s \in -Unity .. Unity, t \in 0 .. Unity :
         r = [gain |-> g, remaining |-> m, step |-> s, target |-> t]
  BY FieldsOf DEF Good
<1>2. RampFrames \in Nat /\ Unity \in Nat
  BY RampAssumption
<1>3. /\ \A j \in 0 .. m : g + s * j \in 0 .. Unity
      /\ m = 0 => g = t
  BY <1>1 DEF Good
<1>4. Advanced(r, n) = [gain |-> IF n >= m THEN t ELSE g + s * n,
                        remaining |-> IF n >= m THEN 0 ELSE m - n,
                        step |-> s, target |-> t]
  BY <1>1, AdvancedFields
<1>5. CASE n >= m
  <2>1. Advanced(r, n) = [gain |-> t, remaining |-> 0, step |-> s, target |-> t]
    BY <1>4, <1>5
  <2>2. \A k \in 0 .. 0 : t + s * k \in 0 .. Unity
    BY <1>2
  <2>3. Good(Advanced(r, n))
    BY <1>2, <2>1, <2>2 DEF Good, Ramps
  <2> QED
    BY <1>1, <1>5, <2>1, <2>3
<1>6. CASE n < m
  <2>1. /\ Advanced(r, n) = [gain |-> g + s * n, remaining |-> m - n, step |-> s, target |-> t]
        /\ ~(n >= m)
    BY <1>2, <1>4, <1>6
  <2>2. ASSUME NEW k \in 0 .. m - n
        PROVE  (g + s * n) + s * k \in 0 .. Unity
    <3>1. n + k \in 0 .. m /\ s * (n + k) = s * n + s * k
      BY <1>2, <1>6
    <3>2. g + s * (n + k) \in 0 .. Unity
      BY <1>3, <3>1
    <3>3. s * n \in Int /\ s * k \in Int
      BY <1>2
    <3> QED
      BY <1>2, <3>1, <3>2, <3>3
  <2>3. g + s * n \in 0 .. Unity /\ m - n \in 0 .. RampFrames /\ m - n # 0
    BY <1>2, <1>3, <1>6
  <2>4. Good(Advanced(r, n))
    BY <2>1, <2>2, <2>3 DEF Good, Ramps
  <2> QED
    BY <1>1, <2>1, <2>4
<1> QED
  BY <1>2, <1>5, <1>6

\* A turn of the loop advances a ramp by one frame.
LEMMA OneFrameMore ==
  ASSUME NEW r, Good(r), NEW n \in Nat
  PROVE  NextFrame(Advanced(r, n)) = Advanced(r, n + 1)
<1>1. PICK g \in 0 .. Unity, m \in 0 .. RampFrames, s \in -Unity .. Unity, t \in 0 .. Unity :
         r = [gain |-> g, remaining |-> m, step |-> s, target |-> t]
  BY FieldsOf DEF Good
<1>2. RampFrames \in Nat /\ Unity \in Nat
  BY RampAssumption
<1>3. \A i \in Nat : Advanced(r, i) = [gain |-> IF i >= m THEN t ELSE g + s * i,
                                       remaining |-> IF i >= m THEN 0 ELSE m - i,
                                       step |-> s, target |-> t]
  BY <1>1, AdvancedFields
<1>4. CASE n >= m
  <2>1. /\ Advanced(r, n) = [gain |-> t, remaining |-> 0, step |-> s, target |-> t]
        /\ Advanced(r, n + 1) = [gain |-> t, remaining |-> 0, step |-> s, target |-> t]
    BY <1>2, <1>3, <1>4
  <2> QED
    BY <2>1 DEF NextFrame
<1>5. CASE n + 1 = m
  <2>1. /\ Advanced(r, n) = [gain |-> g + s * n, remaining |-> 1, step |-> s, target |-> t]
        /\ Advanced(r, n + 1) = [gain |-> t, remaining |-> 0, step |-> s, target |-> t]
    <3>1. ~(n >= m) /\ m - n = 1 /\ n + 1 >= m /\ n + 1 \in Nat
      BY <1>2, <1>5
    <3> QED
      BY <1>3, <3>1
  <2> QED
    BY <2>1 DEF NextFrame
<1>6. CASE n + 1 < m
  <2>1. /\ Advanced(r, n) = [gain |-> g + s * n, remaining |-> m - n, step |-> s, target |-> t]
        /\ Advanced(r, n + 1) =
              [gain |-> g + s * (n + 1), remaining |-> m - (n + 1), step |-> s, target |-> t]
    <3>1. ~(n >= m) /\ ~(n + 1 >= m) /\ n + 1 \in Nat
      BY <1>2, <1>6
    <3> QED
      BY <1>3, <3>1
  <2>2. /\ m - n # 0 /\ m - n # 1 /\ (m - n) - 1 = m - (n + 1)
        /\ (g + s * n) + s = g + s * (n + 1)
    BY <1>2, <1>6
  <2> QED
    BY <2>1, <2>2 DEF NextFrame
<1> QED
  BY <1>2, <1>4, <1>5, <1>6

LEMMA AdvancedByNone ==
  ASSUME NEW r, Good(r)
  PROVE  Advanced(r, 0) = r
<1>1. PICK g \in 0 .. Unity, m \in 0 .. RampFrames, s \in -Unity .. Unity, t \in 0 .. Unity :
         r = [gain |-> g, remaining |-> m, step |-> s, target |-> t]
  BY FieldsOf DEF Good
<1>2. Advanced(r, 0) = [gain |-> IF 0 >= m THEN t ELSE g + s * 0,
                        remaining |-> IF 0 >= m THEN 0 ELSE m - 0,
                        step |-> s, target |-> t]
  BY <1>1, AdvancedFields
<1>3. /\ m = 0 => g = t
      /\ g + s * 0 = g /\ m - 0 = m
      /\ 0 >= m => m = 0
  BY <1>1, RampAssumption DEF Good
<1> QED
  BY <1>1, <1>2, <1>3

-----------------------------------------------------------------------------
(***************************************************************************)
(* The invariant.                                                          *)
(***************************************************************************)
\* The last target is the gain commanded, unless no frame has passed since the
\* command; a ramp ends no later than RampFrames frames after the command.
Following ==
  /\ lastTarget = Target \/ (since = 0 /\ left = 0)
  /\ remaining = 0 \/ remaining + since <= RampFrames

\* The chunk that is being written has left the ramp where advancing over as
\* many frames would.
InChunk ==
  /\ Good(began) /\ done \in Nat
  /\ left > 0 => Ramp = Advanced(began, done)

Ranges ==
  /\ volume \in Volumes /\ muted \in BOOLEAN
  /\ left \in Nat /\ since \in 0 .. RampFrames /\ skipped \in 0 .. RampFrames
  /\ heardGain \in 0 .. Unity \cup {NoGain}
  /\ fresh \in BOOLEAN /\ told \in BOOLEAN /\ unheard \in BOOLEAN
  /\ commands \in Nat /\ streams \in Nat

Invariant == Ranges /\ Good(Ramp) /\ Following /\ InChunk

LEMMA InvariantTypes ==
  ASSUME Invariant
  PROVE  TypeOK
  BY DEF Invariant, Ranges, InChunk, Good, TypeOK

\* The fields of the ramp, and what the next ramp will be.
LEMMA RampFields ==
  ASSUME Good(Ramp)
  PROVE  /\ currentGain \in 0 .. Unity /\ remaining \in 0 .. RampFrames
         /\ lastTarget \in 0 .. Unity
         /\ remaining = 0 => currentGain = lastTarget
         /\ Ramp.gain = currentGain /\ Ramp.remaining = remaining
         /\ Ramp.target = lastTarget
<1>1. /\ Ramp.gain = currentGain /\ Ramp.remaining = remaining
      /\ Ramp.target = lastTarget
  BY DEF Ramp
<1>2. /\ Ramp.gain \in 0 .. Unity /\ Ramp.remaining \in 0 .. RampFrames
      /\ Ramp.target \in 0 .. Unity
      /\ Ramp.remaining = 0 => Ramp.gain = Ramp.target
  BY DEF Good, Ramps
<1> QED
  BY <1>1, <1>2

LEMMA Becomes ==
  ASSUME NEW r \in Ramps, RampBecomes(r)
  PROVE  /\ Ramp' = r
         /\ currentGain' = r.gain /\ remaining' = r.remaining /\ lastTarget' = r.target
  BY DEF Ramps, Ramp, RampBecomes

\* A ramp that learns of the target keeps to the time it has.
LEMMA RetargetedInTime ==
  ASSUME Invariant
  PROVE  /\ Good(Retargeted(Ramp, Target))
         /\ Retargeted(Ramp, Target).target = Target
         /\ \/ Retargeted(Ramp, Target).remaining = 0
            \/ Retargeted(Ramp, Target).remaining + since <= RampFrames
<1>1. Target \in 0 .. Unity
  BY TargetType DEF Invariant, Ranges, Target
<1>2. Good(Ramp) /\ Ramp.target = lastTarget /\ Ramp.remaining = remaining
  BY RampFields DEF Invariant
<1>3. /\ Good(Retargeted(Ramp, Target))
      /\ Retargeted(Ramp, Target).target = Target
      /\ \/ Target = lastTarget /\ Retargeted(Ramp, Target) = Ramp
         \/ Target # lastTarget /\ Retargeted(Ramp, Target).remaining = RampFrames
  BY <1>1, <1>2, RetargetedGood
<1>4. CASE Target = lastTarget
  BY <1>2, <1>3, <1>4 DEF Invariant, Following
<1>5. CASE Target # lastTarget
  <2>1. since = 0 /\ RampFrames \in Nat
    BY <1>5, RampAssumption DEF Invariant, Following
  <2> QED
    BY <1>3, <1>5, <2>1
<1> QED
  BY <1>4, <1>5

\* The frame that is written next.
LEMMA FrameWritten ==
  ASSUME Invariant, WriteFrame
  PROVE  /\ Ramp' = NextFrame(Ramp) /\ Ramp' = Advanced(began, done + 1)
         /\ Good(Ramp')
         /\ heardGain' = NextFrame(Ramp).gain
         /\ lastTarget' = lastTarget /\ lastTarget = Target
         /\ remaining' = IF remaining = 0 THEN 0 ELSE remaining - 1
         /\ heardGain' \in 0 .. Unity
         /\ remaining <= 1 => heardGain' = lastTarget
<1>1. /\ left > 0 /\ left \in Nat /\ Good(began) /\ done \in Nat
      /\ Ramp = Advanced(began, done) /\ Good(Ramp)
  BY DEF Invariant, Ranges, InChunk, WriteFrame
<1> DEFINE r == NextFrame(Ramp)
<1>2. r = Advanced(began, done + 1)
  BY <1>1, OneFrameMore
<1>3. Good(r)
  BY <1>1, <1>2, AdvancedGood
<1>4. /\ currentGain \in 0 .. Unity /\ remaining \in 0 .. RampFrames
      /\ remaining = 0 => currentGain = lastTarget
      /\ Ramp.gain = currentGain /\ Ramp.remaining = remaining
      /\ Ramp.target = lastTarget
  BY <1>1, RampFields
<1>5. /\ r.target = lastTarget
      /\ r.remaining = IF remaining = 0 THEN 0 ELSE remaining - 1
      /\ remaining <= 1 => r.gain = lastTarget
  <2>1. CASE remaining = 0
    BY <1>4, <2>1 DEF NextFrame
  <2>2. CASE remaining # 0
    <3>1. r = [gain |-> IF remaining = 1 THEN lastTarget ELSE currentGain + Ramp.step,
               remaining |-> remaining - 1, step |-> Ramp.step, target |-> lastTarget]
      BY <1>4, <2>2 DEF NextFrame
    <3>2. remaining <= 1 => remaining = 1
      BY <1>4, <2>2, RampAssumption
    <3> QED
      BY <2>2, <3>1, <3>2
  <2> QED
    BY <2>1, <2>2
<1>6. r \in Ramps /\ r.gain \in 0 .. Unity
  BY <1>3 DEF Good, Ramps
<1>7. heardGain' = r.gain /\ RampBecomes(r)
  <2>1. Clamp(r.gain) = r.gain
    BY <1>6, RampAssumption DEF Clamp
  <2>2. [r EXCEPT !.gain = Clamp(r.gain)] = r
    BY <1>6, <2>1 DEF Ramps
  <2> QED
    BY <2>2, Zenon DEF WriteFrame
<1>8. Ramp' = r /\ remaining' = r.remaining /\ lastTarget' = r.target
  BY <1>6, <1>7, Becomes
<1>9. lastTarget = Target
  BY <1>1 DEF Invariant, Following
<1> QED
  BY <1>2, <1>3, <1>5, <1>6, <1>7, <1>8, <1>9

-----------------------------------------------------------------------------
(***************************************************************************)
(* Every step keeps the invariant.                                         *)
(***************************************************************************)
LEMMA Initially == Init => Invariant
<1> SUFFICES ASSUME Init PROVE Invariant
  OBVIOUS
<1>1. Target \in 0 .. Unity /\ RampFrames \in Nat \ {0} /\ Unity \in Nat
  BY TargetType, RampAssumption DEF Init, Target
<1>2. Ranges
  <2>1. volume \in Volumes /\ muted \in BOOLEAN /\ fresh \in BOOLEAN
        /\ told \in BOOLEAN /\ unheard \in BOOLEAN
    BY DEF Init
  <2>2. since \in 0 .. RampFrames /\ skipped \in 0 .. RampFrames
    BY <1>1 DEF Init
  <2>3. heardGain = NoGain /\ left = 0 /\ commands = 0 /\ streams = 0
    BY DEF Init
  <2> QED
    BY <2>1, <2>2, <2>3 DEF Ranges
<1>3. Ramp = [gain |-> Target, remaining |-> 0, step |-> 0, target |-> Target]
  BY DEF Init, Ramp
<1>4. \A k \in 0 .. 0 : Target + 0 * k \in 0 .. Unity
  BY <1>1
<1> HIDE DEF Target
<1>5. Good(Ramp)
  BY <1>1, <1>3, <1>4 DEF Good, Ramps
<1>6. Following /\ InChunk
  BY <1>5 DEF Init, Following, InChunk
<1> QED
  BY <1>2, <1>5, <1>6 DEF Invariant

LEMMA CommandStep ==
  ASSUME Invariant, Command
  PROVE  Invariant'
<1>1. Ramp' = Ramp /\ UNCHANGED <<ramp, left, began, done>>
  BY DEF Command, Ramp, ramp
<1>2. Ranges'
  <2>1. volume' \in Volumes /\ muted' \in BOOLEAN
    BY Zenon DEF Invariant, Ranges, Command
  <2>2. since' \in 0 .. RampFrames /\ commands' \in Nat
    BY RampAssumption DEF Invariant, Ranges, Command
  <2> QED
    BY <2>1, <2>2 DEF Invariant, Ranges, Command
<1>3. Good(Ramp)'
  BY <1>1 DEF Invariant
<1>4. InChunk'
  BY <1>1 DEF Invariant, InChunk, Command
<1>5. remaining \in 0 .. RampFrames /\ RampFrames \in Nat
  BY RampFields, RampAssumption DEF Invariant
<1>6. UNCHANGED <<lastTarget, remaining, left>> /\ left = 0
  BY <1>1 DEF ramp, Command
<1>7. CASE Target' = Target
  <2>1. since' = since
    BY <1>7 DEF Command, Target
  <2> QED
    BY <1>2, <1>3, <1>4, <1>6, <1>7, <2>1 DEF Invariant, Following
<1>8. CASE Target' # Target
  <2>1. since' = 0
    BY <1>8 DEF Command, Target
  <2> QED
    BY <1>2, <1>3, <1>4, <1>5, <1>6, <2>1 DEF Invariant, Following
<1> QED
  BY <1>7, <1>8

LEMMA TransitionStep ==
  ASSUME Invariant, Transition
  PROVE  Invariant'
<1>1. lastTarget \in 0 .. Unity /\ RampFrames \in Nat /\ Unity \in Nat
  BY RampFields, RampAssumption DEF Invariant
<1>2. Ramp' = [gain |-> lastTarget, remaining |-> 0, step |-> 0, target |-> lastTarget]
  BY DEF Transition, Ramp
<1>3. \A k \in 0 .. 0 : lastTarget + 0 * k \in 0 .. Unity
  BY <1>1
<1>4. Good(Ramp)'
  BY <1>1, <1>2, <1>3 DEF Good, Ramps
<1>5. Ranges'
  <2>1. /\ fresh' \in BOOLEAN /\ told' \in BOOLEAN /\ unheard' \in BOOLEAN
        /\ heardGain' = NoGain
    BY DEF Invariant, Ranges, Transition
  <2>2. skipped' \in 0 .. RampFrames /\ streams' \in Nat
    BY <1>1 DEF Invariant, Ranges, Transition
  <2>3. UNCHANGED <<volume, muted, left, since, commands>>
    BY DEF Transition
  <2> QED
    BY <2>1, <2>2, <2>3 DEF Invariant, Ranges
<1>6. Following'
  BY DEF Invariant, Following, Transition, Target
<1>7. InChunk'
  BY DEF Invariant, InChunk, Transition
<1> QED
  BY <1>4, <1>5, <1>6, <1>7 DEF Invariant

LEMMA AdvanceStep ==
  ASSUME Invariant, Advance
  PROVE  Invariant'
<1> DEFINE r == Retargeted(Ramp, Target)
<1>1. PICK n \in ChunkSizes :
        /\ RampBecomes(Advanced(r, n))
        /\ since' = Aged(n)
        /\ skipped' = Fewer(skipped + n, RampFrames)
  BY DEF Advance
<1>2. n \in Nat \ {0} /\ RampFrames \in Nat /\ since \in 0 .. RampFrames
      /\ skipped \in 0 .. RampFrames
  BY RampAssumption DEF Invariant, Ranges
<1>3. /\ Good(r) /\ r.target = Target
      /\ r.remaining = 0 \/ r.remaining + since <= RampFrames
  BY RetargetedInTime
<1> HIDE DEF r
<1>4. /\ Good(Advanced(r, n)) /\ Advanced(r, n).target = Target
      /\ Advanced(r, n).remaining = IF n >= r.remaining THEN 0 ELSE r.remaining - n
  BY <1>2, <1>3, AdvancedGood
<1>5. Advanced(r, n) \in Ramps
  BY <1>4 DEF Good
<1>6. /\ Ramp' = Advanced(r, n)
      /\ remaining' = Advanced(r, n).remaining /\ lastTarget' = Target
  BY <1>1, <1>4, <1>5, Becomes
<1>7. Target' = Target
  BY DEF Advance, Target
<1>8. since' \in 0 .. RampFrames /\ since' <= since + n /\ skipped' \in 0 .. RampFrames
  BY <1>1, <1>2 DEF Aged, Fewer
<1>9. r.remaining \in 0 .. RampFrames
  BY <1>3 DEF Good, Ramps
<1>10. remaining' = 0 \/ remaining' + since' <= RampFrames
  BY <1>2, <1>3, <1>4, <1>6, <1>8, <1>9
<1>11. Ranges'
  BY <1>8 DEF Invariant, Ranges, Advance, bounds
<1>12. Following'
  BY <1>6, <1>7, <1>10 DEF Following
<1>13. InChunk'
  BY DEF Invariant, InChunk, Advance
<1> QED
  BY <1>4, <1>6, <1>11, <1>12, <1>13 DEF Invariant

LEMMA BeginStep ==
  ASSUME Invariant, BeginWrite
  PROVE  Invariant'
<1> DEFINE r == Retargeted(Ramp, Target)
<1>1. /\ RampBecomes(r) /\ began' = r /\ done' = 0
      /\ left' \in Nat /\ left' > 0
  BY RampAssumption DEF BeginWrite
<1>2. /\ Good(r) /\ r.target = Target
      /\ r.remaining = 0 \/ r.remaining + since <= RampFrames
  BY RetargetedInTime
<1> HIDE DEF r
<1>3. r \in Ramps /\ Advanced(r, 0) = r
  BY <1>2, AdvancedByNone DEF Good
<1>4. Ramp' = r /\ remaining' = r.remaining /\ lastTarget' = Target
  BY <1>1, <1>2, <1>3, Becomes
<1>5. Target' = Target /\ since' = since
  BY DEF BeginWrite, Target
<1>6. Ranges'
  BY <1>1 DEF Invariant, Ranges, BeginWrite, bounds
<1>7. Following'
  BY <1>2, <1>4, <1>5 DEF Following
<1>8. InChunk'
  BY <1>1, <1>2, <1>3, <1>4 DEF InChunk
<1> QED
  BY <1>2, <1>4, <1>6, <1>7, <1>8 DEF Invariant

\* A frame less to go for a frame that has passed.
LEMMA OneLess ==
  ASSUME NEW m \in Int, NEW a \in Int, NEW b \in Int, NEW n \in Int,
         m + a <= n, b <= a + 1
  PROVE  (m - 1) + b <= n
  OBVIOUS

LEMMA WriteStep ==
  ASSUME Invariant, WriteFrame
  PROVE  Invariant'
<1>1. /\ Ramp' = Advanced(began, done + 1) /\ Good(Ramp')
      /\ lastTarget' = Target
      /\ remaining' = IF remaining = 0 THEN 0 ELSE remaining - 1
      /\ heardGain' \in 0 .. Unity
  BY FrameWritten
<1>2. remaining \in 0 .. RampFrames /\ RampFrames \in Nat /\ since \in 0 .. RampFrames
  BY RampFields, RampAssumption DEF Invariant, Ranges
<1>3. Target' = Target /\ began' = began /\ done' = done + 1
  BY DEF WriteFrame, Target
<1>4. since' \in 0 .. RampFrames /\ since' <= since + 1
  BY <1>2 DEF WriteFrame, Aged, Fewer
<1>5. left' \in Nat /\ skipped' \in 0 .. RampFrames
  BY <1>2 DEF WriteFrame, Invariant, Ranges
<1>6. Ranges'
  BY <1>1, <1>4, <1>5 DEF Invariant, Ranges, WriteFrame, bounds
<1>7. remaining' = 0 \/ remaining' + since' <= RampFrames
  <2>1. /\ remaining' = IF remaining = 0 THEN 0 ELSE remaining - 1
        /\ remaining = 0 \/ remaining + since <= RampFrames
    BY <1>1 DEF Invariant, Following
  <2>2. CASE remaining = 0
    BY <2>1, <2>2
  <2>3. CASE remaining # 0
    <3>1. remaining' = remaining - 1 /\ remaining + since <= RampFrames
      BY <2>1, <2>3
    <3>2. /\ remaining \in Int /\ since \in Int /\ RampFrames \in Int
          /\ since' \in Int /\ since' <= since + 1
      BY <1>2, <1>4
    <3> QED
      BY <3>1, <3>2, OneLess
  <2> QED
    BY <2>2, <2>3
<1>8. Following'
  BY <1>1, <1>3, <1>7 DEF Following
<1>9. InChunk'
  BY <1>1, <1>3 DEF Invariant, InChunk
<1> QED
  BY <1>1, <1>6, <1>8, <1>9 DEF Invariant

LEMMA InvariantHolds == Spec => []Invariant
<1>1. Invariant /\ UNCHANGED vars => Invariant'
  <2> SUFFICES ASSUME Invariant, UNCHANGED vars
               PROVE  Invariant'
    OBVIOUS
  <2>1. /\ UNCHANGED <<volume, muted, left, began, done, since, heardGain, skipped,
                        fresh, told, unheard, commands, streams, lastTarget, remaining>>
        /\ Ramp' = Ramp
    BY DEF vars, ramp, ghosts, bounds, Ramp
  <2>2. Ranges' /\ Good(Ramp)'
    BY <2>1 DEF Invariant, Ranges
  <2>3. Following' /\ InChunk'
    BY <2>1 DEF Invariant, Following, InChunk, Target
  <2> QED
    BY <2>2, <2>3 DEF Invariant
<1>2. Invariant /\ [Next]_vars => Invariant'
  BY <1>1, CommandStep, TransitionStep, AdvanceStep, BeginStep, WriteStep DEF Next
<1> QED
  BY Initially, <1>2, PTL DEF Spec

-----------------------------------------------------------------------------
(***************************************************************************)
(* The theorems.                                                           *)
(***************************************************************************)
\* No gain is ever below silence or above unity, wherever in a ramp the volume
\* is changed, the ramp reset or advanced.
THEOREM TypeCorrect == Spec => []TypeOK
<1>1. Invariant => TypeOK
  BY InvariantTypes
<1> QED
  BY <1>1, InvariantHolds, PTL

\* One ramp after a command, audio is written at exactly the gain commanded.
THEOREM TakesEffect == Spec => VolumeTakesEffect
<1>1. ASSUME Invariant, [Next]_vars
      PROVE  [left > 0 /\ since >= RampFrames - 1 => heardGain' = Target]_vars
  <2> SUFFICES ASSUME left > 0, since >= RampFrames - 1, ~UNCHANGED vars
               PROVE  heardGain' = Target
    OBVIOUS
  <2>1. WriteFrame
    BY <1>1 DEF Next, Command, Transition, Advance, BeginWrite, Invariant, Ranges
  <2>2. /\ lastTarget = Target
        /\ remaining <= 1 => heardGain' = lastTarget
    BY <1>1, <2>1, FrameWritten
  <2>3. /\ remaining \in 0 .. RampFrames /\ RampFrames \in Nat
        /\ since \in 0 .. RampFrames
        /\ remaining = 0 \/ remaining + since <= RampFrames
    BY <1>1, RampFields, RampAssumption DEF Invariant, Ranges, Following
  <2>4. remaining <= 1
    BY <2>3
  <2> QED
    BY <2>2, <2>4
<1> QED
  BY <1>1, InvariantHolds, PTL DEF Spec, VolumeTakesEffect

\* Writing a chunk frame by frame and advancing over it lead to the same ramp.
THEOREM AdvanceIsApply == Spec => AdvanceMatchesApply
<1>1. ASSUME Invariant, [Next]_vars
      PROVE  [left > 0 => Ramp' = Advanced(began', done')]_vars
  <2> SUFFICES ASSUME left > 0, ~UNCHANGED vars
               PROVE  Ramp' = Advanced(began', done')
    OBVIOUS
  <2>1. WriteFrame
    BY <1>1 DEF Next, Command, Transition, Advance, BeginWrite, Invariant, Ranges
  <2>2. Ramp' = Advanced(began, done + 1)
    BY <1>1, <2>1, FrameWritten
  <2> QED
    BY <2>1, <2>2 DEF WriteFrame
<1> QED
  BY <1>1, InvariantHolds, PTL DEF Spec, AdvanceMatchesApply

-----------------------------------------------------------------------------
(***************************************************************************)
(* What the ramp knows of the latest command.                              *)
(***************************************************************************)
\* Audio that follows a command tells the ramp; a transition that nothing has
\* happened since leaves it at rest at the gain commanded.
Knowing ==
  /\ told => lastTarget = Target
  /\ fresh /\ ~unheard => lastTarget = Target /\ remaining = 0

LEMMA KnowingKept ==
  ASSUME Invariant, Knowing, [Next]_vars
  PROVE  Knowing'
<1>1. /\ remaining \in 0 .. RampFrames
      /\ Ramp.remaining = remaining /\ Ramp.target = lastTarget
  BY RampFields DEF Invariant
<1> DEFINE r == Retargeted(Ramp, Target)
<1>2. /\ Good(r) /\ r.target = Target
      /\ Target = lastTarget => r.remaining = remaining
  BY <1>1, RetargetedInTime DEF Retargeted
<1> HIDE DEF r
<1>3. CASE Command
  BY <1>3 DEF Command, Knowing
<1>4. CASE Transition
  <2>1. Target' = Target
    BY <1>4 DEF Transition, Target
  <2> QED
    BY <1>4, <2>1 DEF Transition, Knowing
<1>5. CASE Advance
  <2>1. PICK n \in ChunkSizes : RampBecomes(Advanced(r, n))
    BY <1>5 DEF Advance, r
  <2>2. n \in Nat \ {0}
    BY RampAssumption
  <2>3. /\ Good(Advanced(r, n)) /\ Advanced(r, n).target = Target
        /\ Advanced(r, n).remaining = IF n >= r.remaining THEN 0 ELSE r.remaining - n
    BY <1>2, <2>2, AdvancedGood
  <2>4. Advanced(r, n) \in Ramps
    BY <2>3 DEF Good
  <2>5. lastTarget' = Target /\ remaining' = Advanced(r, n).remaining
    BY <2>1, <2>3, <2>4, Becomes
  <2>6. r.remaining = 0 => remaining' = 0
    BY <2>2, <2>3, <2>5
  <2>7. Target' = Target /\ UNCHANGED <<fresh, unheard>>
    BY <1>5 DEF Advance, Target
  <2> QED
    BY <1>2, <2>5, <2>6, <2>7 DEF Knowing
<1>6. CASE BeginWrite
  <2>1. RampBecomes(r) /\ r \in Ramps
    BY <1>2, <1>6 DEF BeginWrite, r, Good
  <2>2. lastTarget' = Target /\ remaining' = r.remaining
    BY <1>2, <2>1, Becomes
  <2>3. Target' = Target /\ UNCHANGED <<fresh, unheard>>
    BY <1>6 DEF BeginWrite, Target
  <2> QED
    BY <1>2, <2>2, <2>3 DEF Knowing
<1>7. CASE WriteFrame
  <2>1. lastTarget' = lastTarget
    BY <1>7, FrameWritten
  <2>2. Target' = Target /\ told' = told /\ ~fresh'
    BY <1>7 DEF WriteFrame, Target
  <2> QED
    BY <2>1, <2>2 DEF Knowing
<1>8. CASE UNCHANGED vars
  BY <1>8 DEF vars, ramp, ghosts, Knowing, Target
<1> QED
  BY <1>3, <1>4, <1>5, <1>6, <1>7, <1>8 DEF Next

\* Once audio has followed a command, the first frame written after the next
\* transition is at the gain commanded: no ramp is carried over.
THEOREM NewAudio == Spec => NewAudioAtItsGain
<1>1. Init => Knowing
  BY DEF Init, Knowing
<1>2. Invariant /\ Knowing /\ [Next]_vars => Knowing'
  BY KnowingKept
<1>3. ASSUME Invariant, Knowing, [Next]_vars
      PROVE  [fresh /\ ~fresh' /\ ~unheard => heardGain' = Target]_vars
  <2> SUFFICES ASSUME fresh, ~fresh', ~unheard, ~UNCHANGED vars
               PROVE  heardGain' = Target
    OBVIOUS
  <2>1. WriteFrame
    BY <1>3 DEF Next, Command, Transition, Advance, BeginWrite
  <2>2. lastTarget = Target /\ remaining = 0
    BY <1>3 DEF Knowing
  <2> QED
    BY <1>3, <2>1, <2>2, FrameWritten
<1> QED
  BY <1>1, <1>2, <1>3, InvariantHolds, PTL DEF Spec, NewAudioAtItsGain

-----------------------------------------------------------------------------
(***************************************************************************)
(* How far the gain moves in a frame.                                      *)
(***************************************************************************)
\* The step of a ramp over the full range, rounded toward zero.
WholeStep == Unity \div RampFrames

\* No step is larger, and the steps left lead to the target but for rounding.
Gentle(r) ==
  /\ -WholeStep <= r.step /\ r.step <= WholeStep
  /\ Gap(r.gain + r.step * r.remaining, r.target) <= RampFrames

LEMMA WholeStepType ==
  /\ WholeStep \in Nat /\ LargestStep = WholeStep + RampFrames
  /\ RampFrames \in Nat \ {0} /\ Unity \in Nat
  /\ RampFrames * WholeStep <= Unity /\ Unity < RampFrames * WholeStep + RampFrames
<1>1. RampFrames \in Nat \ {0} /\ Unity \in Nat
  BY RampAssumption
<1> DEFINE q == Unity \div RampFrames
<1>2. q \in Int /\ Unity % RampFrames \in 0 .. RampFrames - 1
      /\ Unity = RampFrames * q + (Unity % RampFrames)
  BY <1>1
<1>3. q >= 0
  <2>1. CASE q <= -1
    <3>1. RampFrames * q <= -RampFrames
      BY <1>1, <1>2, <2>1
    <3> QED BY <1>1, <1>2, <3>1
  <2> QED BY <1>2, <2>1
<1>4. WholeStep = q
  BY DEF WholeStep
<1> HIDE DEF q
<1>5. RampFrames * q <= Unity /\ Unity < RampFrames * q + RampFrames
  BY <1>1, <1>2
<1> QED BY <1>1, <1>2, <1>3, <1>4, <1>5 DEF LargestStep, WholeStep

\* A quotient rounded toward zero is no more than that of a larger number, and
\* less than one divisor short.
LEMMA RoundedStep ==
  ASSUME NEW a \in Nat, a <= Unity
  PROVE  /\ a \div RampFrames \in 0 .. WholeStep
         /\ RampFrames * (a \div RampFrames) <= a
         /\ a < RampFrames * (a \div RampFrames) + RampFrames
<1>1. PICK n \in Nat \ {0}, u \in Nat, w \in Nat :
        n = RampFrames /\ u = Unity /\ w = WholeStep /\ u < n * w + n
  BY WholeStepType
<1> DEFINE q == a \div n
<1>2. q \in Int /\ a % n \in 0 .. n - 1 /\ a = n * q + (a % n)
  BY <1>1
<1>3. a \div RampFrames = q
  BY <1>1
<1> HIDE DEF q
<1>4. n * q <= a /\ a < n * q + n
  BY <1>2
<1>5. q >= 0
  <2>1. CASE q <= -1
    <3>1. n * q <= -n
      BY <1>2, <2>1
    <3> QED BY <1>4, <3>1, <1>2
  <2> QED BY <1>2, <2>1
<1>6. q <= w
  <2>1. CASE q >= w + 1
    <3>1. n * q >= n * (w + 1)
      BY <1>2, <2>1
    <3>2. n * (w + 1) = n * w + n
      OBVIOUS
    <3> QED BY <1>1, <1>2, <1>4, <3>1, <3>2
  <2> QED BY <1>2, <2>1
<1> QED BY <1>1, <1>2, <1>3, <1>4, <1>5, <1>6

LEMMA RetargetedGently ==
  ASSUME NEW r, Good(r), Gentle(r), NEW t \in 0 .. Unity
  PROVE  Gentle(Retargeted(r, t))
<1>1. CASE t = r.target
  BY <1>1 DEF Retargeted
<1>2. CASE t # r.target
  <2>1. PICK g \in 0 .. Unity : g = r.gain
    BY DEF Good, Ramps
  <2>2. PICK n \in Nat \ {0}, u \in Nat, w \in Nat : n = RampFrames /\ u = Unity /\ w = WholeStep
    BY WholeStepType
  <2>3. PICK s : s = TruncDiv(t - g, n)
    OBVIOUS
  <2>4. Retargeted(r, t) = [gain |-> g, remaining |-> n, step |-> s, target |-> t]
    BY <1>2, <2>1, <2>2, <2>3 DEF Retargeted
  <2>5. s \in Int /\ -w <= s /\ s <= w /\ Gap(g + s * n, t) <= n
    <3>1. CASE t - g >= 0
      <4>1. s = (t - g) \div RampFrames /\ t - g \in Nat /\ t - g <= Unity
        BY <2>2, <2>3, <3>1 DEF TruncDiv
      <4>2. s \in 0 .. w /\ n * s <= t - g /\ t - g < n * s + n
        BY <2>2, <4>1, RoundedStep
      <4>3. PICK ns \in Int : ns = n * s /\ ns = s * n
        BY <4>2
      <4>4. Gap(g + ns, t) <= n
        BY <2>2, <4>2, <4>3 DEF Gap
      <4> QED BY <4>2, <4>3, <4>4
    <3>2. CASE t - g < 0
      <4>1. PICK p : p = (-(t - g)) \div RampFrames
        OBVIOUS
      <4>2. s = -p /\ -(t - g) \in Nat /\ -(t - g) <= Unity
        BY <2>2, <2>3, <3>2, <4>1 DEF TruncDiv
      <4>3. p \in 0 .. w /\ n * p <= -(t - g) /\ -(t - g) < n * p + n
        BY <2>2, <4>1, <4>2, RoundedStep
      <4>4. PICK np \in Int : np = n * p
        BY <4>3
      <4>5. s * n = -np
        BY <4>2, <4>3, <4>4
      <4>6. Gap(g + (-np), t) <= n
        BY <2>2, <4>3, <4>4 DEF Gap
      <4> QED BY <4>2, <4>3, <4>5, <4>6
    <3> QED BY <3>1, <3>2, <2>2
  <2> QED BY <2>2, <2>4, <2>5 DEF Gentle
<1> QED BY <1>1, <1>2

\* Over n frames the gain moves by no more than n largest steps.
LEMMA AdvancedGently ==
  ASSUME NEW r, Good(r), Gentle(r), NEW n \in Nat
  PROVE  /\ Gentle(Advanced(r, n))
         /\ Gap(Advanced(r, n).gain, r.gain) <= LargestStep * n
<1>1. PICK g \in 0 .. Unity, m \in 0 .. RampFrames, s \in -Unity .. Unity, t \in 0 .. Unity :
         r = [gain |-> g, remaining |-> m, step |-> s, target |-> t]
  BY FieldsOf DEF Good
<1>2. PICK f \in Nat \ {0}, u \in Nat, w \in Nat :
        f = RampFrames /\ u = Unity /\ w = WholeStep /\ LargestStep = w + f
  BY WholeStepType
<1>3. m \in Nat /\ g \in Int /\ s \in Int /\ t \in Int /\ (m = 0 => g = t)
  BY <1>1, <1>2 DEF Good
<1>4. -w <= s /\ s <= w /\ Gap(g + s * m, t) <= f
  BY <1>1, <1>2 DEF Gentle
<1>5. Advanced(r, n) = [gain |-> IF n >= m THEN t ELSE g + s * n,
                        remaining |-> IF n >= m THEN 0 ELSE m - n,
                        step |-> s, target |-> t]
  BY <1>1, AdvancedFields
<1>6. \A k \in Nat : s * k \in Int /\ -(w * k) <= s * k /\ s * k <= w * k /\ w * k \in Nat
  <2> SUFFICES ASSUME NEW k \in Nat
               PROVE  s * k \in Int /\ -(w * k) <= s * k /\ s * k <= w * k /\ w * k \in Nat
    OBVIOUS
  <2>1. s * k <= w * k
    BY <1>3, <1>4
  <2>2. (-w) * k <= s * k /\ (-w) * k = -(w * k)
    BY <1>3, <1>4
  <2>3. s * k \in Int /\ w * k \in Nat
    BY <1>3
  <2> QED BY <2>1, <2>2, <2>3
<1>7. (w + f) * n = w * n + f * n /\ f * n \in Nat /\ (n >= 1 => f * n >= f)
  BY <1>2
<1>8. CASE n >= m
  <2>1. Advanced(r, n) = [gain |-> t, remaining |-> 0, step |-> s, target |-> t]
    BY <1>5, <1>8
  <2>2. Gap(t + s * 0, t) <= f
    <3>1. t + s * 0 = t
      BY <1>3
    <3> QED BY <1>3, <3>1 DEF Gap
  <2>3. Gap(t, g) <= (w + f) * n
    <3>1. CASE m = 0
      BY <1>3, <1>6, <1>7, <3>1 DEF Gap
    <3>2. CASE m >= 1
      <4>1. PICK a \in Int, b \in Nat, c \in Nat, d \in Nat :
              a = s * m /\ b = w * m /\ c = w * n /\ d = f * n
        BY <1>3, <1>6, <1>7
      <4>2. b <= c
        BY <1>3, <1>8, <4>1
      <4>3. -b <= a /\ a <= b /\ d >= f /\ Gap(g + a, t) <= f
        BY <1>3, <1>4, <1>6, <1>7, <1>8, <3>2, <4>1
      <4>4. Gap(t, g) <= c + d
        BY <1>3, <4>2, <4>3 DEF Gap
      <4> QED BY <1>7, <4>1, <4>4
    <3> QED BY <1>3, <3>1, <3>2
  <2> QED BY <1>1, <1>2, <1>4, <2>1, <2>2, <2>3 DEF Gentle
<1>9. CASE n < m
  <2>1. Advanced(r, n) = [gain |-> g + s * n, remaining |-> m - n, step |-> s, target |-> t]
    BY <1>3, <1>5, <1>9
  <2>2. (g + s * n) + s * (m - n) = g + s * m
    BY <1>3
  <2>3. Gap(g + s * n, g) <= (w + f) * n
    <3>1. PICK a \in Int, c \in Nat, d \in Nat : a = s * n /\ c = w * n /\ d = f * n
      BY <1>6, <1>7
    <3>2. -c <= a /\ a <= c
      BY <1>6, <3>1
    <3>3. Gap(g + a, g) <= c + d
      BY <1>3, <3>2 DEF Gap
    <3> QED BY <1>7, <3>1, <3>3
  <2> QED BY <1>1, <1>2, <1>4, <2>1, <2>2, <2>3 DEF Gentle
<1> QED BY <1>3, <1>8, <1>9

\* Two gains near a third are near each other.
LEMMA GapsAdd ==
  ASSUME NEW a \in Int, NEW b \in Int, NEW c \in Int, NEW m \in Int, NEW n \in Int,
         Gap(a, c) <= m, Gap(b, c) <= n
  PROVE  Gap(a, b) <= m + n
BY DEF Gap

\* The ramp moves gently, and is as far from the last frame heard as it may
\* have moved over the frames dropped since.
Smooth ==
  /\ Gentle(Ramp)
  /\ heardGain # NoGain => Gap(heardGain, currentGain) <= LargestStep * skipped

LEMMA SmoothInit == Init => Smooth
<1> SUFFICES ASSUME Init PROVE Smooth
  OBVIOUS
<1>1. PICK t \in 0 .. Unity : t = Target
  BY TargetType DEF Init, Target
<1>2. Ramp = [gain |-> t, remaining |-> 0, step |-> 0, target |-> t]
  BY <1>1 DEF Init, Ramp
<1>3. Gap(t + 0 * 0, t) <= RampFrames /\ -WholeStep <= 0 /\ 0 <= WholeStep
  BY WholeStepType DEF Gap
<1>4. heardGain = NoGain
  BY DEF Init
<1> QED BY <1>2, <1>3, <1>4 DEF Smooth, Gentle

\* The frame that is written next.
LEMMA FrameWrittenGently ==
  ASSUME Invariant, Smooth, WriteFrame
  PROVE  /\ Gentle(Ramp)' /\ heardGain' = currentGain'
         /\ heardGain' \in Int /\ currentGain \in Int
         /\ Gap(heardGain', currentGain) <= LargestStep
<1>1. Good(Ramp) /\ Ramp.gain = currentGain /\ currentGain \in Int
  BY RampFields DEF Invariant
<1>2. NextFrame(Ramp) = Advanced(Ramp, 1)
  <2>1. Advanced(Ramp, 0) = Ramp
    BY <1>1, AdvancedByNone
  <2>2. NextFrame(Advanced(Ramp, 0)) = Advanced(Ramp, 0 + 1)
    BY <1>1, OneFrameMore
  <2> QED BY <2>1, <2>2
<1>3. Ramp' = Advanced(Ramp, 1) /\ heardGain' = Advanced(Ramp, 1).gain /\ heardGain' \in Int
  BY <1>2, FrameWritten
<1>4. Ramp'.gain = currentGain'
  BY DEF Ramp
<1>5. Gentle(Advanced(Ramp, 1)) /\ Gap(Advanced(Ramp, 1).gain, Ramp.gain) <= LargestStep * 1
  BY <1>1, AdvancedGently DEF Smooth
<1>6. LargestStep * 1 = LargestStep
  BY WholeStepType
<1> QED BY <1>1, <1>3, <1>4, <1>5, <1>6

LEMMA SmoothStep ==
  ASSUME Invariant, Smooth, [Next]_vars
  PROVE  Smooth'
<1> DEFINE r == Retargeted(Ramp, Target)
<1>1. /\ Good(Ramp) /\ Ramp.gain = currentGain /\ currentGain \in 0 .. Unity
      /\ Target \in 0 .. Unity /\ Good(r) /\ Gentle(r) /\ r.gain = currentGain
  <2>1. Target \in 0 .. Unity
    BY TargetType DEF Invariant, Ranges, Target
  <2>2. Good(Ramp) /\ Ramp.gain = currentGain /\ currentGain \in 0 .. Unity
    BY RampFields DEF Invariant
  <2>3. Good(r) /\ Gentle(r)
    BY <2>1, <2>2, RetargetedGood, RetargetedGently DEF Smooth
  <2>4. r.gain = Ramp.gain
    BY DEF Retargeted
  <2> QED BY <2>1, <2>2, <2>3, <2>4
<1> HIDE DEF r
<1>2. CASE Command \/ UNCHANGED vars
  <2>1. UNCHANGED <<currentGain, heardGain, skipped>> /\ Ramp' = Ramp
    BY <1>2 DEF Command, vars, ramp, ghosts, Ramp
  <2> QED BY <2>1 DEF Smooth
<1>3. CASE Transition
  <2>1. PICK t \in 0 .. Unity : t = lastTarget
    BY RampFields DEF Invariant
  <2>2. Ramp' = [gain |-> t, remaining |-> 0, step |-> 0, target |-> t]
    BY <1>3, <2>1 DEF Transition, Ramp
  <2>3. Gap(t + 0 * 0, t) <= RampFrames /\ -WholeStep <= 0 /\ 0 <= WholeStep
    BY WholeStepType DEF Gap
  <2>4. heardGain' = NoGain
    BY <1>3 DEF Transition
  <2> QED BY <2>2, <2>3, <2>4 DEF Smooth, Gentle
<1>4. CASE Advance
  <2>1. PICK n \in ChunkSizes :
          RampBecomes(Advanced(r, n)) /\ skipped' = Fewer(skipped + n, RampFrames)
    BY <1>4 DEF Advance, r
  <2>2. n \in Nat
    BY RampAssumption
  <2>3. Good(Advanced(r, n))
    BY <1>1, <2>2, AdvancedGood
  <2>4. Gentle(Advanced(r, n)) /\ Gap(Advanced(r, n).gain, currentGain) <= LargestStep * n
    BY <1>1, <2>2, AdvancedGently
  <2>5. Advanced(r, n) \in Ramps
    BY <2>3 DEF Good
  <2>6. Ramp' = Advanced(r, n) /\ currentGain' = Advanced(r, n).gain /\ currentGain' \in 0 .. Unity
    <3>1. Advanced(r, n).gain \in 0 .. Unity
      BY <2>5 DEF Ramps
    <3> QED BY <2>1, <2>5, <3>1, Becomes
  <2>7. ASSUME heardGain # NoGain PROVE Gap(heardGain, currentGain') <= LargestStep * skipped'
    <3>1. PICK h \in Int, c \in Int, d \in Int, k \in Nat, l \in Nat, f \in Nat \ {0}, u \in Nat :
            /\ h = heardGain /\ c = currentGain /\ d = currentGain' /\ k = skipped
            /\ l = LargestStep /\ f = RampFrames /\ u = Unity
            /\ h \in 0 .. u /\ d \in 0 .. u
      <4>1. heardGain \in 0 .. Unity /\ skipped \in Nat
        BY <2>7, RampAssumption DEF Invariant, Ranges
      <4>2. LargestStep \in Nat /\ RampFrames \in Nat \ {0} /\ Unity \in Nat
        BY WholeStepType
      <4> QED BY <1>1, <2>6, <4>1, <4>2
    <3>2. Gap(h, c) <= l * k /\ Gap(d, c) <= l * n
      BY <2>4, <2>6, <2>7, <3>1 DEF Smooth
    <3>3. Gap(h, d) <= l * (k + n)
      <4>1. PICK a \in Int, b \in Int : a = l * k /\ b = l * n
        BY <2>2, <3>1
      <4>2. Gap(h, d) <= a + b
        BY <3>1, <3>2, <4>1, GapsAdd
      <4>3. l * (k + n) = a + b
        BY <2>2, <3>1, <4>1
      <4> QED BY <4>2, <4>3
    <3>4. Gap(h, d) <= l * f
      <4>1. PICK w \in Nat : w = WholeStep /\ l = w + f /\ u < f * w + f
        BY <3>1, WholeStepType
      <4>2. l * f = f * w + f * f /\ f * f >= f
        BY <3>1, <4>1
      <4>3. PICK a \in Int, b \in Int : a = f * w /\ b = f * f
        BY <3>1, <4>1
      <4>4. u <= l * f
        BY <4>1, <4>2, <4>3
      <4>5. Gap(h, d) <= u
        <5>1. h >= 0 /\ h <= u /\ d >= 0 /\ d <= u
          BY <3>1
        <5>2. h - d <= u /\ d - h <= u
          BY <5>1
        <5> QED BY <5>2 DEF Gap
      <4>6. PICK e \in Int : e = l * f
        BY <3>1
      <4>7. Gap(h, d) \in Int
        BY <3>1 DEF Gap
      <4> QED BY <4>4, <4>5, <4>6, <4>7
    <3>5. skipped' = k + n \/ skipped' = f
      BY <2>1, <3>1 DEF Fewer
    <3> QED BY <3>1, <3>3, <3>4, <3>5
  <2>8. heardGain' = heardGain
    BY <1>4 DEF Advance
  <2> QED BY <2>4, <2>6, <2>7, <2>8 DEF Smooth
<1>5. CASE BeginWrite
  <2>1. RampBecomes(r) /\ r \in Ramps
    BY <1>1, <1>5 DEF BeginWrite, r, Good
  <2>2. Ramp' = r /\ currentGain' = currentGain
    BY <1>1, <2>1, Becomes
  <2>3. UNCHANGED <<heardGain, skipped>>
    BY <1>5 DEF BeginWrite
  <2> QED BY <1>1, <2>2, <2>3 DEF Smooth
<1>6. CASE WriteFrame
  <2>1. Gentle(Ramp)' /\ heardGain' = currentGain' /\ heardGain' \in Int
    BY <1>6, FrameWrittenGently
  <2>2. Gap(heardGain', currentGain') <= LargestStep * skipped'
    <3>1. skipped' = 0 /\ LargestStep \in Nat
      BY <1>6, WholeStepType DEF WriteFrame
    <3>2. PICK d \in Int : d = heardGain' /\ d = currentGain'
      BY <2>1
    <3>3. Gap(d, d) = 0
      BY DEF Gap
    <3>4. LargestStep * 0 = 0
      BY <3>1
    <3> QED BY <3>1, <3>2, <3>3, <3>4
  <2> QED BY <2>1, <2>2 DEF Smooth
<1> QED BY <1>2, <1>3, <1>4, <1>5, <1>6 DEF Next

\* From a frame to the next one written the gain moves by no more than a ramp
\* over the full range does in as many frames, wherever in another ramp it is
\* begun, advanced over dropped audio or kept within its range.
THEOREM Clickless == Spec => NoClicks
<1>1. ASSUME Invariant, Smooth, [Next]_vars
      PROVE  [heardGain' # NoGain /\ heardGain # NoGain =>
                Gap(heardGain', heardGain) <= LargestStep * (skipped + 1)]_vars
  <2> SUFFICES ASSUME heardGain' # NoGain, heardGain # NoGain
               PROVE  Gap(heardGain', heardGain) <= LargestStep * (skipped + 1)
    OBVIOUS
  <2>1. PICK h \in Int, c \in Int, k \in Nat, l \in Nat :
          h = heardGain /\ c = currentGain /\ k = skipped /\ l = LargestStep
    <3>1. heardGain \in Int /\ skipped \in Nat
      BY <1>1, RampAssumption DEF Invariant, Ranges
    <3>2. currentGain \in Int
      BY <1>1, RampFields DEF Invariant
    <3> QED BY <3>1, <3>2, WholeStepType
  <2>2. PICK a \in Nat : a = l * k /\ l * (k + 1) = a + l
    BY <2>1
  <2>3. CASE WriteFrame
    <3>1. heardGain' \in Int /\ Gap(heardGain', c) <= l
      BY <1>1, <2>1, <2>3, FrameWrittenGently
    <3>2. Gap(h, c) <= a
      BY <1>1, <2>1, <2>2 DEF Smooth
    <3>3. PICK d \in Int : d = heardGain' /\ Gap(d, c) <= l
      BY <3>1
    <3>4. Gap(d, h) <= a + l
      <4>1. Gap(d, h) <= l + a
        BY <2>1, <2>2, <3>2, <3>3, GapsAdd
      <4>2. l + a = a + l
        BY <2>1, <2>2
      <4> QED BY <4>1, <4>2
    <3> QED BY <2>1, <2>2, <3>3, <3>4
  <2>4. CASE ~WriteFrame
    <3>1. heardGain' = heardGain
      BY <1>1, <2>4
      DEF Next, Command, Transition, Advance, BeginWrite, vars, ghosts
    <3>2. Gap(h, h) = 0
      BY <2>1 DEF Gap
    <3>3. a + l >= 0
      BY <2>2, <2>1
    <3> QED BY <2>1, <2>2, <3>1, <3>2, <3>3
  <2> QED BY <2>3, <2>4
<1> QED
  BY <1>1, SmoothInit, SmoothStep, InvariantHolds, PTL DEF Spec, NoClicks
=============================================================================
