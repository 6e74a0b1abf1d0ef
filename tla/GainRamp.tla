------------------------------ MODULE GainRamp ------------------------------
(***************************************************************************)
(* BridgeGainRamp of src/gain.rs and the places where src/bridge.rs uses   *)
(* it.  Volume and mute are commanded at any time; the ramp learns of them *)
(* only when it is next applied to audio that is written, or advanced over *)
(* audio that is dropped.                                                  *)
(*                                                                         *)
(* A gain is an integer from 0 to Unity, in place of a float from 0 to 1;  *)
(* a ramp's step is rounded toward zero where the float would be rounded   *)
(* to its last place.  The loop of apply is one action per frame.          *)
(***************************************************************************)
EXTENDS Integers

CONSTANTS
  Unity,         \* gain 1.0
  RampFrames,    \* ramp_duration_frames
  Volumes,       \* volumes the server may command
  Taper,         \* volume_to_gain of each, unmuted
  ChunkSizes,    \* frames of the chunks the server sends
  MaxCommands,   \* bounds of an instance: volume and mute commands,
  MaxStreams     \*   and stream transitions

ASSUME RampAssumption ==
  /\ Unity \in Nat \ {0} /\ RampFrames \in Nat \ {0}
  /\ Volumes # {} /\ Taper \in [Volumes -> 0 .. Unity]
  /\ ChunkSizes \subseteq Nat \ {0}
  /\ MaxCommands \in Nat /\ MaxStreams \in Nat

VARIABLES
  volume, muted,  \* GainControl
  currentGain, remaining, step, lastTarget,  \* BridgeGainRamp
  left,           \* frames of the chunk that apply has yet to see
  \* What is needed to say what the ramp must do.
  began,          \* the ramp when the chunk was begun, its target known
  done,           \* frames of the chunk that apply has seen
  since,          \* frames since the volume last changed, RampFrames at most
  heardGain,      \* gain of the last frame written to the ring
  skipped,        \* frames dropped since
  fresh,          \* nothing has been written since the last transition
  told,           \* audio has followed the latest command
  unheard,        \* a command came since the last transition, or before it
                  \*   and no audio in between
  commands, streams

ramp == <<currentGain, remaining, step, lastTarget>>
ghosts == <<began, done, since, heardGain, skipped, fresh, told, unheard>>
bounds == <<commands, streams>>
vars == <<volume, muted, ramp, left, ghosts, bounds>>

NoGain == -1

TruncDiv(a, b) == IF a >= 0 THEN a \div b ELSE -((-a) \div b)
Clamp(g) == IF g < 0 THEN 0 ELSE IF g > Unity THEN Unity ELSE g
Fewer(m, n) == IF m <= n THEN m ELSE n
Gap(g, h) == IF g >= h THEN g - h ELSE h - g

\* volume_to_gain: mute is exact silence.
GainOf(v, m) == IF m THEN 0 ELSE Taper[v]
Target == GainOf(volume, muted)

-----------------------------------------------------------------------------
(***************************************************************************)
(* The ramp as a value, and what its operations make of it.                *)
(***************************************************************************)
Ramp == [gain |-> currentGain, remaining |-> remaining, step |-> step, target |-> lastTarget]

RampBecomes(r) ==
  /\ currentGain' = r.gain /\ remaining' = r.remaining
  /\ step' = r.step /\ lastTarget' = r.target

\* Mutant: a ramp in progress runs on to its old target.
LateRetarget(r, t) ==
  IF t = r.target \/ r.remaining > 0 THEN r
  ELSE [gain |-> r.gain, remaining |-> RampFrames,
        step |-> TruncDiv(t - r.gain, RampFrames), target |-> t]

\* Mutant: the ramp is laid from the old target, not from where the gain is.
FromOldTarget(r, t) ==
  IF t = r.target THEN r
  ELSE [gain |-> r.gain, remaining |-> RampFrames,
        step |-> TruncDiv(t - r.target, RampFrames), target |-> t]

\* update_target: a new target starts a ramp from wherever the gain is.
Retargeted(r, t) ==
  IF t = r.target THEN r
  ELSE [gain |-> r.gain, remaining |-> RampFrames,
        step |-> TruncDiv(t - r.gain, RampFrames), target |-> t]

\* Mutant: the end of a ramp is not set to the target.
AdvancedShort(r, n) ==
  LET k == Fewer(n, r.remaining)
  IN  [gain |-> Clamp(r.gain + r.step * k), remaining |-> r.remaining - k,
       step |-> r.step, target |-> r.target]

\* advance, the target being known: n frames at once.
Advanced(r, n) ==
  LET k == Fewer(n, r.remaining)
  IN  [gain |-> IF k = 0 THEN r.gain
                ELSE IF k = r.remaining THEN r.target
                ELSE Clamp(r.gain + r.step * k),
       remaining |-> r.remaining - k, step |-> r.step, target |-> r.target]

\* Mutant: the ramp jumps to its target at its first frame.
JumpedFrame(r) ==
  IF r.remaining = 0 THEN r
  ELSE [gain |-> r.target, remaining |-> r.remaining - 1,
        step |-> r.step, target |-> r.target]

\* One turn of the loop of apply and apply_range.
NextFrame(r) ==
  IF r.remaining = 0 THEN r
  ELSE [gain |-> IF r.remaining = 1 THEN r.target ELSE r.gain + r.step,
        remaining |-> r.remaining - 1, step |-> r.step, target |-> r.target]

-----------------------------------------------------------------------------
(***************************************************************************)
(* Commands, transitions and audio.                                        *)
(***************************************************************************)
Command ==
  /\ left = 0 /\ commands < MaxCommands
  /\ \/ volume' \in Volumes \ {volume} /\ UNCHANGED muted
     \/ muted' = ~muted /\ UNCHANGED volume
  /\ since' = IF GainOf(volume', muted') = Target THEN since ELSE 0
  /\ told' = FALSE /\ unheard' = TRUE
  /\ commands' = commands + 1
  /\ UNCHANGED <<ramp, left, began, done, heardGain, skipped, fresh, streams>>

\* Mutant: the ramp in progress is carried into the new audio.
TransitionRunningOn ==
  /\ left = 0 /\ streams < MaxStreams
  /\ UNCHANGED ramp
  /\ fresh' = TRUE /\ unheard' = ~told
  /\ heardGain' = NoGain /\ skipped' = 0
  /\ streams' = streams + 1
  /\ UNCHANGED <<volume, muted, left, began, done, since, told, commands>>

\* reset_scheduler calls reset_to_current: at every stream start, clear and
\* end, at a reconnection, and whenever the scheduler starts over.
Transition ==
  /\ left = 0 /\ streams < MaxStreams
  /\ currentGain' = lastTarget /\ remaining' = 0 /\ step' = 0
  /\ UNCHANGED lastTarget
  /\ fresh' = TRUE /\ unheard' = ~told
  /\ heardGain' = NoGain /\ skipped' = 0
  /\ streams' = streams + 1
  /\ UNCHANGED <<volume, muted, left, began, done, since, told, commands>>

Aged(n) == Fewer(since + n, RampFrames)

\* Stale chunks, chunks evicted from the queue, and the part of a chunk that
\* is trimmed off.
Advance ==
  /\ left = 0
  /\ \E n \in ChunkSizes :
       /\ RampBecomes(Advanced(Retargeted(Ramp, Target), n))
       /\ since' = Aged(n)
       /\ skipped' = Fewer(skipped + n, RampFrames)
  /\ told' = TRUE
  /\ UNCHANGED <<volume, muted, left, began, done, heardGain, fresh, unheard, bounds>>

BeginWrite ==
  /\ left = 0
  /\ \E n \in ChunkSizes : left' = n
  /\ RampBecomes(Retargeted(Ramp, Target))
  /\ began' = Retargeted(Ramp, Target) /\ done' = 0
  /\ told' = TRUE
  /\ UNCHANGED <<volume, muted, since, heardGain, skipped, fresh, unheard, bounds>>

\* A frame is written at the gain it finds once the ramp has moved on; after
\* the last frame of the chunk a ramp in progress is kept within its range.
WriteFrame ==
  /\ left > 0
  /\ LET r == NextFrame(Ramp)
         last == left = 1 /\ r.remaining > 0
     IN  /\ RampBecomes(IF last THEN [r EXCEPT !.gain = Clamp(@)] ELSE r)
         /\ heardGain' = r.gain
  /\ left' = left - 1 /\ done' = done + 1
  /\ since' = Aged(1)
  /\ skipped' = 0 /\ fresh' = FALSE
  /\ UNCHANGED <<volume, muted, began, told, unheard, bounds>>

-----------------------------------------------------------------------------
\* with_gain of the volume restored from the state file.
Init ==
  /\ volume \in Volumes /\ muted \in BOOLEAN
  /\ currentGain = Target /\ lastTarget = Target /\ remaining = 0 /\ step = 0
  /\ left = 0 /\ began = Ramp /\ done = 0
  /\ since = RampFrames
  /\ heardGain = NoGain /\ skipped = 0 /\ fresh = TRUE /\ told = TRUE /\ unheard = FALSE
  /\ commands = 0 /\ streams = 0

Next == Command \/ Transition \/ Advance \/ BeginWrite \/ WriteFrame

Spec == Init /\ [][Next]_vars

-----------------------------------------------------------------------------
(***************************************************************************)
(* What the ramp must get right.                                           *)
(***************************************************************************)
Ramps == [gain : 0 .. Unity, remaining : 0 .. RampFrames,
          step : -Unity .. Unity, target : 0 .. Unity]

\* The ranges of the variables: no gain is ever below zero or above unity, in
\* a ramp that is begun anew at any point of another.
TypeOK ==
  /\ volume \in Volumes /\ muted \in BOOLEAN
  /\ Ramp \in Ramps /\ began \in Ramps
  /\ left \in Nat /\ done \in Nat
  /\ since \in 0 .. RampFrames /\ skipped \in 0 .. RampFrames
  /\ heardGain \in 0 .. Unity \cup {NoGain}
  /\ fresh \in BOOLEAN /\ told \in BOOLEAN /\ unheard \in BOOLEAN
  /\ commands \in Nat /\ streams \in Nat

\* README.md: "once the ramp settles at 100% the no-op path re-engages".  One
\* ramp after the volume has changed, what is written has exactly the gain
\* commanded, whatever was commanded, dropped or reset on the way.
VolumeTakesEffect ==
  [][left > 0 /\ since >= RampFrames - 1 => heardGain' = Target]_vars

\* "20ms per-frame ramp to prevent audible clicks" (README.md): from a frame
\* to the next one written the gain moves by no more than a ramp over the full
\* range does in as many frames, and the last step's rounding.
LargestStep == Unity \div RampFrames + RampFrames

NoClicks ==
  [][heardGain' # NoGain /\ heardGain # NoGain =>
       Gap(heardGain', heardGain) <= LargestStep * (skipped + 1)]_vars

\* Dropping frames takes the ramp where writing them would have: a chunk that
\* is late on one bridge leaves it at the gain of the bridges that played it.
AdvanceMatchesApply == [][left > 0 => Ramp' = Advanced(began', done')]_vars

\* "The gain ramp state is reset on stream transitions ... to avoid carrying
\* stale ramp state into new audio" (DESIGN.md): the first frame written after
\* a transition has the gain commanded before it, if the ramp has learned of
\* the command.  One that no audio has followed is still ramped to in the new
\* audio: `unheard' excepts it.
NewAudioAtItsGain ==
  [][fresh /\ ~fresh' /\ ~unheard => heardGain' = Target]_vars
=============================================================================
