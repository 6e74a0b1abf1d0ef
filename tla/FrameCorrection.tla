-------------------------- MODULE FrameCorrection --------------------------
(***************************************************************************)
(* CorrectionState of src/bridge.rs: single frames of the audio are        *)
(* repeated or dropped at a cadence the drift check sets, so that the      *)
(* bridge follows the server's clock.                                      *)
(*                                                                         *)
(* PlayoutScheduler leaves open which chunks a correction falls into.      *)
(* This module has the counters that decide it, and the handlers of the    *)
(* scheduler as far as they touch them: what each write does to the frame  *)
(* that a repeat would sound again, and when schedule and counters start   *)
(* over.  The apply loop is one action per frame of a chunk.               *)
(*                                                                         *)
(* Frames of the stream are numbered.  A frame stands for its samples,     *)
(* one for each channel, which are always treated alike.                   *)
(***************************************************************************)
EXTENDS Integers, FiniteSets

CONSTANTS
  TickFrames,      \* frames that play in one drift_check_interval
  MaxCorrections,  \* max_correction_samples, per drift check
  Cadences,        \* frames per correction the planner may ask for
  MaxCadence,      \* the longest of them
  ChunkSizes,      \* frames of the chunks the server sends
  MaxSource        \* bound of an instance: frames of the stream

ASSUME BudgetAssumption == TickFrames \in Nat \ {0} /\ MaxCorrections \in Nat

ASSUME StreamAssumption ==
  /\ MaxCadence \in Nat /\ Cadences \subseteq 1 .. MaxCadence
  /\ ChunkSizes \subseteq Nat \ {0} /\ MaxSource \in Nat

VARIABLES
  anchored,   \* the scheduler has an anchor
  every,      \* frames per correction in each direction, 0 when off
  counter,    \* frames until the next correction in each direction
  lastFrame,  \* what a repeat would sound again
  left,       \* frames of the current chunk that apply has yet to see
  source,     \* the stream's next frame
  \* What a listener would know.
  heard,      \* the last frame written to the ring
  corrected,  \* the frames before which one was repeated, and the dropped
  waited      \* frames since each direction was due, or was turned on

config == <<anchored, every, counter>>
ghosts == <<corrected, waited>>
vars == <<anchored, every, counter, lastFrame, left, source, heard, ghosts>>

Directions == {"insert", "drop"}
NoFrame == -1
Off == [d \in Directions |-> 0]

Correcting == \E d \in Directions : every[d] > 0

-----------------------------------------------------------------------------
(***************************************************************************)
(* The schedule.                                                           *)
(***************************************************************************)
CeilDiv(a, b) == (a + b - 1) \div b

\* At most MaxCorrections of TickFrames frames may be corrected.
MinInterval == CeilDiv(TickFrames, MaxCorrections)

\* Mutant: the budget is divided by rounding down.
RoundedBudget(plan) ==
  IF MaxCorrections = 0 THEN Off
  ELSE [d \in Directions |->
          IF plan[d] = 0 THEN 0
          ELSE LET least == TickFrames \div MaxCorrections
               IN  IF plan[d] >= least THEN plan[d] ELSE least]

\* The planner's cadence, slowed down to the budget of the command line.
Budgeted(plan) ==
  IF MaxCorrections = 0 THEN Off
  ELSE [d \in Directions |->
          IF plan[d] = 0 THEN 0
          ELSE IF plan[d] >= MinInterval THEN plan[d] ELSE MinInterval]

\* sendspin's CorrectionPlanner, external: a plan repeats frames, drops
\* frames, or does neither.
Plans == {Off} \cup {[Off EXCEPT ![d] = n] : d \in Directions, n \in Cadences}

\* Mutant: every new schedule starts its counter over.
StartedOver(d, schedule) == schedule[d]

\* Mutant: a counter in use survives a shorter cadence as it is.
UnclampedCounter(d, schedule) ==
  IF every[d] > 0 /\ schedule[d] > 0 THEN counter[d] ELSE schedule[d]

\* A direction that stays on keeps the progress it has made.
NextCounter(d, schedule) ==
  IF every[d] > 0 /\ schedule[d] > 0
    THEN IF counter[d] > schedule[d] THEN schedule[d]
         ELSE IF counter[d] < 1 THEN 1 ELSE counter[d]
    ELSE schedule[d]

\* The end of check_drift: set_schedule, and nothing if the schedule is the
\* one in force.
SetSchedule ==
  /\ left = 0 /\ anchored
  /\ \E plan \in Plans :
       LET schedule == Budgeted(plan)
       IN  /\ schedule # every
           /\ every' = schedule
           /\ counter' = [d \in Directions |-> NextCounter(d, schedule)]
           /\ waited' = [d \in Directions |-> IF every[d] > 0 /\ schedule[d] > 0
                                                THEN waited[d] ELSE 0]
  /\ UNCHANGED <<anchored, lastFrame, left, source, heard, corrected>>

\* Mutant: the frame to repeat survives the reset.
ResetKeepingFrame ==
  /\ left = 0
  /\ anchored' = FALSE /\ every' = Off /\ counter' = Off
  /\ waited' = Off
  /\ UNCHANGED <<lastFrame, left, source, heard, corrected>>

\* reset_scheduler: a stream start, clear or end, a lost connection, a
\* discontinuity, a drift anomaly, a planner that wants a new anchor.
Reset ==
  /\ left = 0
  /\ anchored' = FALSE /\ every' = Off /\ counter' = Off
  /\ lastFrame' = NoFrame
  /\ waited' = Off
  /\ UNCHANGED <<left, source, heard, corrected>>

-----------------------------------------------------------------------------
(***************************************************************************)
(* Chunks.                                                                 *)
(***************************************************************************)
Arrives(n) == left = 0 /\ source + n <= MaxSource

SetAnchor ==
  /\ left = 0 /\ ~anchored
  /\ anchored' = TRUE
  /\ UNCHANGED <<every, counter, lastFrame, left, source, heard, ghosts>>

\* drain_sequential passes by the corrections.
WriteSequential ==
  /\ ~anchored
  /\ \E n \in ChunkSizes :
       Arrives(n) /\ source' = source + n /\ heard' = source + n - 1
  /\ UNCHANGED <<config, lastFrame, left, ghosts>>

DropStale ==
  /\ anchored
  /\ \E n \in ChunkSizes : Arrives(n) /\ source' = source + n
  /\ UNCHANGED <<config, lastFrame, left, heard, ghosts>>

\* Mutant: a trimmed chunk leaves the frame to repeat as it was.
TrimWithoutFrame ==
  /\ anchored
  /\ \E n \in ChunkSizes :
       /\ Arrives(n) /\ n > 1
       /\ source' = source + n /\ heard' = source + n - 1
  /\ UNCHANGED <<config, lastFrame, left, ghosts>>

\* The rest of a trimmed chunk is written as it is; its last frame is kept.
TrimStale ==
  /\ anchored
  /\ \E n \in ChunkSizes :
       /\ Arrives(n) /\ n > 1
       /\ source' = source + n
       /\ heard' = source + n - 1 /\ lastFrame' = source + n - 1
  /\ UNCHANGED <<config, left, ghosts>>

\* apply, when nothing is to be corrected: the chunk is written as it is.
WriteUncorrected ==
  /\ anchored /\ ~Correcting
  /\ \E n \in ChunkSizes :
       /\ Arrives(n)
       /\ source' = source + n
       /\ heard' = source + n - 1 /\ lastFrame' = source + n - 1
  /\ UNCHANGED <<config, left, ghosts>>

BeginCorrected ==
  /\ anchored /\ Correcting
  /\ \E n \in ChunkSizes : Arrives(n) /\ left' = n
  /\ UNCHANGED <<config, lastFrame, source, heard, ghosts>>

\* The counter, having lost the current frame, is zero.
Due(d) == every[d] > 0 /\ counter[d] <= 1

Counted(d) == IF every[d] = 0 THEN counter[d]
              ELSE IF Due(d) THEN every[d] ELSE counter[d] - 1

NextFrame == left > 0 /\ left' = left - 1 /\ source' = source + 1

DropFrame ==
  /\ NextFrame
  /\ Due("drop")
  /\ counter' = [counter EXCEPT !["drop"] = every["drop"]]
  /\ corrected' = corrected \cup {source}
  /\ waited' = [waited EXCEPT !["drop"] = 0]
  /\ UNCHANGED <<anchored, every, lastFrame, heard>>

\* The frame itself is written, after the one before it has been repeated if
\* it is time and there is one.
WriteFrame ==
  /\ NextFrame
  /\ ~Due("drop")
  /\ counter' = [d \in Directions |-> Counted(d)]
  /\ heard' = source /\ lastFrame' = source
  /\ corrected' = IF Due("insert") /\ lastFrame # NoFrame
                    THEN corrected \cup {source} ELSE corrected
  /\ waited' = [d \in Directions |-> IF every[d] = 0 \/ Due(d) THEN 0
                                     ELSE waited[d] + 1]
  /\ UNCHANGED <<anchored, every>>

-----------------------------------------------------------------------------
Init ==
  /\ anchored = FALSE /\ every = Off /\ counter = Off
  /\ lastFrame = NoFrame /\ left = 0 /\ source = 0
  /\ heard = NoFrame /\ corrected = {} /\ waited = Off

Next ==
  \/ SetSchedule \/ Reset \/ SetAnchor
  \/ WriteSequential \/ DropStale \/ TrimStale \/ WriteUncorrected
  \/ BeginCorrected \/ DropFrame \/ WriteFrame

Spec == Init /\ [][Next]_vars

-----------------------------------------------------------------------------
(***************************************************************************)
(* What the corrections must get right.                                    *)
(***************************************************************************)
\* The values the variables range over; a counter in use is never zero and
\* never beyond its cadence.
TypeOK ==
  /\ anchored \in BOOLEAN
  /\ every \in [Directions -> Nat] /\ counter \in [Directions -> Nat]
  /\ \A d \in Directions : every[d] > 0 => counter[d] \in 1 .. every[d]
  /\ {lastFrame, heard} \subseteq Nat \cup {NoFrame}
  /\ left \in Nat /\ source \in Nat
  /\ corrected \subseteq Nat
  /\ waited \in [Directions -> Nat]

\* "Maximum single-frame repeat/drop budget per drift-check interval"
\* (README.md): however often the schedule changes its cadence or direction,
\* is reset or turned off and on, any stretch of the stream as long as the
\* interval between two drift checks has no more corrections than the budget.
BudgetKept ==
  \A w \in 0 .. source :
     Cardinality({c \in corrected : w <= c /\ c < w + TickFrames}) <= MaxCorrections

\* What a repeat sounds again is the frame that sounds just before it, be it
\* of this chunk or an earlier one, trimmed, uncorrected or after stale ones.
RepeatsWhatSounded == lastFrame # NoFrame => lastFrame = heard

LongestInterval == IF MinInterval >= MaxCadence THEN MinInterval ELSE MaxCadence

\* A direction that stays on gets its turn: a planner that changes its mind
\* about the cadence at every drift check does not put the correction off.
CorrectionsKeepComing ==
  \A d \in Directions : every[d] > 0 => waited[d] < LongestInterval

=============================================================================
