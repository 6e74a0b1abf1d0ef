-------------------------- MODULE PlayoutScheduler --------------------------
(***************************************************************************)
(* The core of spin2dante: one bridge that receives timestamped audio from *)
(* a Sendspin server and places it in the DANTE playout ring, while the    *)
(* transmitter thread plays that ring at the pace of the PTP clock.        *)
(*                                                                         *)
(* The bridge is the single select! task of src/bridge.rs: a handler runs  *)
(* to completion before the next one starts, but the transmitter and the   *)
(* clocks move between any two steps of it.  The drain loop is therefore   *)
(* one action per pending chunk, against the read position loaded when the *)
(* handler began.                                                          *)
(*                                                                         *)
(* Left out: the reporting of subscriber state (the option                 *)
(* report_dante_subscriber is off), gain, logging and the counters that    *)
(* only feed it, and the samples' values.                                  *)
(***************************************************************************)
EXTENDS RingMath, Sequences

CONSTANTS
  Formats,           \* the stream formats the bridge accepts
  RingSize,          \* ring_buffer_size, in frames
  Prebuffer,         \* prebuffer_target, in frames
  MaxPendingFrames,  \* max_pending_frames
  MaxPendingChunks,  \* MAX_PENDING_CHUNKS
  DriftThreshold,    \* drift_threshold_samples
  MayCorrect,        \* max_correction_samples > 0
  MaxPerChunk,       \* corrections a chunk is long enough for
  SettleMicros,      \* age an anchor needs before check_drift looks at it
  \* The environment.
  ClockBase,         \* PTP position at which the transmitter may start
  ClockSteps,        \* server microseconds that may pass per played frame
  ClockJumps,        \* frames the PTP clock may jump ahead
  ChunkSizes,        \* frames of the chunks the server sends
  StartLeads,        \* lead of a stream's first chunk over the server's now
  TimestampJumps,    \* breaks in the server's timestamps (0: contiguous)
  MinLead, MaxLead,  \* the lead the server keeps while it streams
  SnapshotRaces,     \* the snapshot may be caught in mid-write
  ReceiverLeaves,    \* the DANTE receiver may unsubscribe
  PlannerReanchors,  \* the correction planner may ask for a new anchor
  \* Bounds of an instance.
  MaxClock, MaxEvents

NoFormat == "none"
NoAnchor == [us |-> -1, pos |-> -1, since |-> -1]
Sequential == -1     \* marks a frame written without an anchor
NotServing == -1     \* nextTs while the server sends nothing

ASSUME ConstantsAssumption ==
  /\ RingSize \in Nat \ {0} /\ RingSize % 2 = 0
  /\ Prebuffer \in Nat
  /\ MaxPendingFrames \in Nat /\ MaxPendingChunks \in Nat \ {0}
  /\ DriftThreshold \in Nat /\ SettleMicros \in Nat
  /\ MayCorrect \in BOOLEAN /\ MaxPerChunk \in Nat
  /\ ClockBase \in Nat \ {0} /\ MaxClock \in Nat /\ MaxEvents \in Nat
  /\ ClockSteps \subseteq Nat /\ ClockJumps \subseteq Nat
  /\ StartLeads \subseteq Int /\ TimestampJumps \subseteq Int
  /\ MinLead \in Int /\ MaxLead \in Int
  /\ {SnapshotRaces, ReceiverLeaves, PlannerReanchors} \subseteq BOOLEAN
  /\ NoFormat \notin Formats

\* A chunk has a frame and fits in the ring (ring_buffer_size - chunk.frames
\* is an unsigned subtraction).
ASSUME ChunkAssumption == ChunkSizes \subseteq 1 .. RingSize

VARIABLES
  clock,       \* PTP position the transmitter thread plays next
  serverNow,   \* the server's time at that moment, microseconds
  subscribed,  \* a DANTE receiver consumes the flow
  readPos,     \* read_position as published (0 until first published)
  snapNow,     \* server time of the snapshot that published readPos
  synced,      \* ClockSync is synchronized
  nextTs,      \* timestamp of the next chunk the server sends
  epoch,       \* control events so far; a chunk carries the one it belongs to
  pc,          \* where the bridge's task is
  seen,        \* the read position the running handler loaded
  state, stream, writePos, prebufferWritten, lastReadPos,
  pending, pendingFrames, anchor, settled, schedule, driftHistory,
  ring         \* audio frames the ring holds and has yet to play

env == <<clock, serverNow, subscribed, readPos, snapNow, synced>>
server == <<nextTs, epoch>>
task == <<pc, seen>>
stage == <<state, stream, writePos, prebufferWritten, lastReadPos>>
queue == <<pending, pendingFrames>>
timing == <<anchor, settled, schedule, driftHistory>>
vars == <<env, server, task, stage, queue, timing, ring>>

States == {"Idle", "WaitingForSubscriber", "Prebuffering", "Running", "Rebuffering"}

-----------------------------------------------------------------------------
(***************************************************************************)
(* The ring (inferno's RBInput / RBOutput, used through write_from_at).    *)
(* Position p lives in slot p % RingSize; a write replaces whatever the    *)
(* slots it covers held.  The transmitter plays a slot at position p only  *)
(* as what was written for p: other slots sound as silence, so `ring' is   *)
(* the set of audio frames that can still be played, and writing silence   *)
(* removes frames from it.                                                 *)
(***************************************************************************)
Uncovered(frames, pos, n) == {f \in frames : (f.pos - pos) % RingSize >= n}

WriteSilence(pos, n) == ring' = Uncovered(ring, pos, n)

\* Mutant: the trimmed prefix is counted but written all the same.
WriteUntrimmedAudio(pos, n, chunk, from, net, mark) ==
  ring' = Uncovered(ring, pos, n) \cup
            {f \in {[pos   |-> pos + i,
                     ts    |-> chunk.ts + SamplesToMicros(i - net),
                     epoch |-> chunk.epoch,
                     mark  |-> mark] : i \in 0 .. n - 1} : f.pos >= clock}

\* The n frames written from pos on, taken from the chunk's frame `from' on.
\* net is the correction applied: repeated frames (net > 0) come first and
\* delay the chunk's own frames, dropped ones (net < 0) are the chunk's first.
WriteAudio(pos, n, chunk, from, net, mark) ==
  ring' = Uncovered(ring, pos, n) \cup
            {f \in {[pos   |-> pos + i,
                     ts    |-> chunk.ts + SamplesToMicros(from + i - net),
                     epoch |-> chunk.epoch,
                     mark  |-> mark] : i \in 0 .. n - 1} : f.pos >= clock}

-----------------------------------------------------------------------------
(***************************************************************************)
(* The environment: clocks, transmitter, receiver.                         *)
(***************************************************************************)
\* A server that streams keeps its lead: time does not run past the moment by
\* which its next chunk must have been handed to the bridge.
ServerKeepsUp(now) == nextTs # NotServing => nextTs - now >= MinLead

\* The transmitter plays one frame and publishes the position after it,
\* together with the instant: the snapshot is a consistent pair.  With no
\* receiver the flow stops and the published position stays where it was.
Tick ==
  /\ clock < MaxClock
  /\ \E step \in ClockSteps :
       /\ ServerKeepsUp(serverNow + step)
       /\ serverNow' = serverNow + step
       /\ IF subscribed
            THEN readPos' = clock + 1 /\ snapNow' = serverNow + step
            ELSE UNCHANGED <<readPos, snapNow>>
  /\ clock' = clock + 1
  /\ ring' = {f \in ring : f.pos > clock}
  /\ UNCHANGED <<subscribed, synced, server, task, stage, queue, timing>>

\* The PTP domain changes under the transmitter.
ClockJump ==
  /\ \E jump \in ClockJumps :
       /\ clock + jump <= MaxClock
       /\ clock' = clock + jump
       /\ ring' = {f \in ring : f.pos >= clock + jump}
  /\ UNCHANGED <<serverNow, subscribed, readPos, snapNow, synced,
                 server, task, stage, queue, timing>>

Subscribe ==
  /\ ~subscribed
  /\ subscribed' = TRUE
  /\ UNCHANGED <<clock, serverNow, readPos, snapNow, synced,
                 server, task, stage, queue, timing, ring>>

Unsubscribe ==
  /\ ReceiverLeaves
  /\ subscribed
  /\ subscribed' = FALSE
  /\ UNCHANGED <<clock, serverNow, readPos, snapNow, synced,
                 server, task, stage, queue, timing, ring>>

ClockSynchronizes ==
  /\ pc # "disconnected"
  /\ ~synced
  /\ synced' = TRUE
  /\ UNCHANGED <<clock, serverNow, subscribed, readPos, snapNow,
                 server, task, stage, queue, timing, ring>>

-----------------------------------------------------------------------------
(***************************************************************************)
(* State transitions shared by the handlers.                               *)
(***************************************************************************)
ResetTiming ==
  /\ anchor' = NoAnchor
  /\ settled' = FALSE
  /\ schedule' = "off"
  /\ driftHistory' = <<>>

\* Mutants: the queue, or only its frame count, survives the reset.
ResetKeepingQueue == ResetTiming /\ UNCHANGED queue
ResetKeepingCount == ResetTiming /\ pending' = <<>> /\ UNCHANGED pendingFrames

ResetScheduler ==
  /\ pending' = <<>>
  /\ pendingFrames' = 0
  /\ ResetTiming

\* Silence one prebuffer ahead of the read head and put the write position
\* behind it.
MoveToReadHead ==
  /\ WriteSilence(readPos, Prebuffer)
  /\ writePos' = readPos + Prebuffer
  /\ prebufferWritten' = 0

SnapToLive == MoveToReadHead /\ state' = "Prebuffering"

ClearAndRebuffer == MoveToReadHead /\ ResetScheduler /\ state' = "Rebuffering"

\* Mutant: both halves of the silence land in the same half of the ring.
HalfSilenced(frames) ==
  Uncovered(Uncovered(frames, writePos, RingSize \div 2), writePos, RingSize \div 2)

\* The whole ring is silenced in two writes of half its size.
Silenced(frames) ==
  Uncovered(Uncovered(frames, writePos, RingSize \div 2),
            writePos + RingSize \div 2, RingSize \div 2)

EnterIdle ==
  /\ ring' = Silenced(ring)
  /\ writePos' = writePos + RingSize
  /\ stream' = NoFormat
  /\ prebufferWritten' = 0
  /\ lastReadPos' = 0
  /\ ResetScheduler
  /\ state' = "Idle"

\* Mutant: whatever is written counts, in every state.
CountAlways(n) ==
  /\ prebufferWritten' = prebufferWritten + n
  /\ state' = IF prebufferWritten + n >= Prebuffer THEN "Running" ELSE state

\* update_state_after_write: frames written fill the prebuffer.
CountPrebuffered(n) ==
  IF state \in {"Prebuffering", "Rebuffering"}
    THEN /\ prebufferWritten' = prebufferWritten + n
         /\ state' = IF prebufferWritten + n >= Prebuffer THEN "Running" ELSE state
    ELSE UNCHANGED <<prebufferWritten, state>>

-----------------------------------------------------------------------------
(***************************************************************************)
(* Control messages, connection loss and reconnection.                     *)
(***************************************************************************)
ControlEvent ==
  /\ pc = "select"
  /\ epoch < MaxEvents
  /\ epoch' = epoch + 1

RestartIfRunning(format) ==
  /\ state = "Running" /\ stream = format
  /\ ClearAndRebuffer
  /\ UNCHANGED <<stream, lastReadPos>>

StartAtReadHead(format) ==
  /\ ~(state = "Running" /\ stream = format)
  /\ readPos # 0 /\ readPos # lastReadPos
  /\ stream' = format
  /\ SnapToLive
  /\ ResetScheduler
  /\ UNCHANGED lastReadPos

StartWaiting(format) ==
  /\ ~(state = "Running" /\ stream = format)
  /\ readPos = 0 \/ readPos = lastReadPos
  /\ stream' = format
  /\ ResetScheduler
  /\ state' = "WaitingForSubscriber"
  /\ lastReadPos' = readPos
  /\ UNCHANGED <<writePos, prebufferWritten, ring>>

StreamStart ==
  /\ ControlEvent
  /\ \E lead \in StartLeads : nextTs' = serverNow + lead
  /\ \E format \in Formats :
       \/ RestartIfRunning(format)
       \/ StartAtReadHead(format)
       \/ StartWaiting(format)
  /\ UNCHANGED <<env, task>>

\* The bridge acts on it in every state.
StreamClear ==
  /\ ControlEvent
  /\ IF nextTs = NotServing
       THEN UNCHANGED nextTs
       ELSE \E lead \in StartLeads : nextTs' = serverNow + lead
  /\ ClearAndRebuffer
  /\ UNCHANGED <<stream, lastReadPos, env, task>>

StreamEnd ==
  /\ ControlEvent
  /\ nextTs' = NotServing
  /\ EnterIdle
  /\ UNCHANGED <<env, task>>

\* run_session fails, run silences the ring and sleeps before the next try.
Disconnect ==
  /\ ControlEvent
  /\ nextTs' = NotServing
  /\ EnterIdle
  /\ pc' = "disconnected"
  /\ UNCHANGED <<seen, env>>

Connect ==
  /\ pc = "disconnected"
  /\ pc' = "select"
  /\ synced' = FALSE
  /\ lastReadPos' = readPos
  /\ UNCHANGED <<clock, serverNow, subscribed, readPos, snapNow, server, seen,
                 state, stream, writePos, prebufferWritten, queue, timing, ring>>

-----------------------------------------------------------------------------
(***************************************************************************)
(* handle_audio: enqueue, bound the queue, look for the subscriber.        *)
(***************************************************************************)
Misaligned == readPos # 0 /\ Distance(writePos, readPos) > RingSize

\* The chunk keeps to the server's lead.  While nothing has been published the
\* write position has no bound in the code; the last conjunct is this model's.
ServerSends(ts) ==
  /\ nextTs # NotServing
  /\ ts - serverNow \in MinLead .. MaxLead
  /\ readPos = 0 => writePos <= MaxClock

HandleAudio ==
  /\ pc = "select"
  /\ stream # NoFormat /\ state # "Idle"
  /\ \E n \in ChunkSizes, jump \in TimestampJumps :
       LET ts == nextTs + jump
           chunk == [ts |-> ts, frames |-> n, epoch |-> epoch]
       IN  /\ ServerSends(ts)
           /\ nextTs' = ts + SamplesToMicros(n)
           /\ \/ /\ Misaligned
                 /\ SnapToLive
                 /\ ResetTiming
                 /\ pending' = <<chunk>>
                 /\ pendingFrames' = n
              \/ /\ ~Misaligned
                 /\ pending' = Append(pending, chunk)
                 /\ pendingFrames' = pendingFrames + n
                 /\ UNCHANGED <<timing, state, writePos, prebufferWritten, ring>>
  /\ seen' = readPos
  /\ pc' = "bound"
  /\ UNCHANGED <<env, epoch, stream, lastReadPos>>

\* Mutant: the frames of the dropped chunk are counted out twice.
PopCountedTwice ==
  /\ pending # <<>>
  /\ pending' = Tail(pending)
  /\ pendingFrames' = pendingFrames - 2 * Head(pending).frames

PopPendingFront ==
  /\ pending # <<>>
  /\ pending' = Tail(pending)
  /\ pendingFrames' = Larger(pendingFrames - Head(pending).frames, 0)

\* Mutant: no backstop on the number of chunks.
OverFrameBound == pendingFrames > MaxPendingFrames

OverBound == pendingFrames > MaxPendingFrames \/ Len(pending) > MaxPendingChunks

EvictOldest ==
  /\ pc = "bound" /\ OverBound
  /\ PopPendingFront
  /\ UNCHANGED <<env, server, task, stage, timing, ring>>

SubscriberDetected ==
  /\ state = "WaitingForSubscriber"
  /\ seen # lastReadPos /\ seen # 0
  /\ SnapToLive
  /\ ResetScheduler
  /\ lastReadPos' = seen

\* Whether the five seconds are over is left open.
SubscriberAwaited ==
  /\ state = "WaitingForSubscriber"
  /\ seen = lastReadPos \/ seen = 0
  /\ \/ state' = "Prebuffering" /\ prebufferWritten' = 0
     \/ UNCHANGED <<state, prebufferWritten>>
  /\ lastReadPos' = seen
  /\ UNCHANGED <<writePos, queue, timing, ring>>

SubscriberSettled ==
  /\ state # "WaitingForSubscriber"
  /\ UNCHANGED <<state, prebufferWritten, lastReadPos, writePos, queue, timing, ring>>

CheckSubscriber ==
  /\ pc = "bound" /\ (~OverBound \/ pending = <<>>)
  /\ SubscriberDetected \/ SubscriberAwaited \/ SubscriberSettled
  /\ pc' = "anchor"
  /\ UNCHANGED <<env, server, seen, stream>>

-----------------------------------------------------------------------------
(***************************************************************************)
(* drain_pending: anchor, then place the queued chunks one by one.         *)
(***************************************************************************)
HandlerDone == pc' = "select" /\ seen' = 0

\* Mutant: the anchor leaves out the prebuffer.
AnchorAtReadHead == [us |-> snapNow, pos |-> readPos, since |-> serverNow]

\* get_synced_pair: the snapshot's position with its instant in server time.
AnchorAhead == [us |-> snapNow, pos |-> readPos + Prebuffer, since |-> serverNow]

SetAnchor ==
  /\ pc = "anchor"
  /\ seen # 0 /\ anchor = NoAnchor
  /\ synced
  /\ anchor' = AnchorAhead
  /\ pc' = "drain"
  /\ UNCHANGED <<env, server, seen, stage, queue, settled, schedule, driftHistory, ring>>

KeepAnchor ==
  /\ pc = "anchor"
  /\ seen # 0 /\ anchor # NoAnchor
  /\ pc' = "drain"
  /\ UNCHANGED <<env, server, seen, stage, queue, timing, ring>>

FallBackToSequential ==
  /\ pc = "anchor"
  /\ \/ seen = 0
     \/ anchor = NoAnchor /\ (~synced \/ SnapshotRaces)
  /\ pc' = "sequential"
  /\ UNCHANGED <<env, server, seen, stage, queue, timing, ring>>

\* drain_sequential writes at the write position, whatever the timestamps.
WriteSequential ==
  /\ pc = "sequential"
  /\ PopPendingFront
  /\ LET chunk == Head(pending)
     IN  /\ WriteAudio(writePos, chunk.frames, chunk, 0, 0, Sequential)
         /\ writePos' = writePos + chunk.frames
         /\ CountPrebuffered(chunk.frames)
  /\ UNCHANGED <<env, server, task, stream, lastReadPos, timing>>

DrainEmpty ==
  /\ pc \in {"drain", "sequential"}
  /\ pending = <<>>
  /\ HandlerDone
  /\ UNCHANGED <<env, server, stage, queue, timing, ring>>

\* The chunk at the front of the queue and where the anchor puts it.
Oldest == Head(pending)
Target == ChunkTarget(anchor, Oldest.ts)
ChunkEnd == Target + Oldest.frames

\* Mutants: the horizon forgets the chunk's own length; a contiguous chunk
\* counts as written backward.
BeyondHorizon == Target - seen > RingSize
NotAhead == writePos - Target >= 0

TooEarly == Target - seen > RingSize - Oldest.frames
Stale == ChunkEnd - seen <= 0
Overlapping == Target - seen < 0 /\ ChunkEnd - seen > 0
FarAhead == Target - writePos > RingSize \div 2
FarBehind == writePos - Target > Oldest.frames

Draining == pc = "drain" /\ pending # <<>>

LeaveEarly ==
  /\ Draining /\ TooEarly
  /\ HandlerDone
  /\ UNCHANGED <<env, server, stage, queue, timing, ring>>

\* Mutant: the loop goes on without taking the stale chunk off the queue.
SkipStale ==
  /\ Draining /\ ~TooEarly /\ Stale
  /\ UNCHANGED vars

DropStale ==
  /\ Draining /\ ~TooEarly /\ Stale
  /\ PopPendingFront
  /\ UNCHANGED <<env, server, task, stage, timing, ring>>

\* The rest of a chunk that begins behind the read head goes to the read head.
TrimStale ==
  /\ Draining /\ ~TooEarly /\ Overlapping
  /\ LET trim == seen - Target
         remaining == Oldest.frames - trim
     IN  /\ WriteAudio(seen, remaining, Oldest, trim, 0, anchor.us)
         /\ CountPrebuffered(remaining)
  /\ writePos' = Larger(writePos, ChunkEnd)
  /\ PopPendingFront
  /\ UNCHANGED <<env, server, task, stream, lastReadPos, timing>>

Placeable == Draining /\ ~TooEarly /\ ~Stale /\ ~Overlapping

\* A gap after the scheduler has settled is a break in the stream.
SnapOverGap ==
  /\ Placeable /\ FarAhead /\ settled
  /\ SnapToLive
  /\ ResetScheduler
  /\ HandlerDone
  /\ UNCHANGED <<env, server, stream, lastReadPos>>

RebufferBehind ==
  /\ Placeable /\ FarBehind
  /\ ClearAndRebuffer
  /\ HandlerDone
  /\ UNCHANGED <<env, server, stream, lastReadPos>>

\* CorrectionState.apply repeats or drops a frame whenever its counter runs
\* out, which is left open here up to MaxPerChunk frames of a chunk.
Corrections(frames) ==
  CASE schedule = "insert" -> 0 .. MaxPerChunk
    [] schedule = "drop" -> -Smaller(MaxPerChunk, frames) .. 0
    [] OTHER -> {0}

\* Mutant: the anchor does not follow the corrections.
AnchorLeftBehind(net) == anchor

\* Later chunks move with the frame repeated or dropped.
CorrectedAnchor(net) == [anchor EXCEPT !.pos = @ + net]

PlaceChunk ==
  /\ Placeable
  /\ FarAhead => ~settled
  /\ ~FarBehind
  /\ \E net \in Corrections(Oldest.frames) :
       LET frames == Oldest.frames + net
           frontier == IF FarAhead THEN Target ELSE writePos
       IN  /\ WriteAudio(Target, frames, Oldest, 0, net, anchor.us)
           /\ anchor' = CorrectedAnchor(net)
           /\ writePos' = Larger(frontier, Target + frames)
           /\ CountPrebuffered(frames)
  /\ settled' = TRUE
  /\ PopPendingFront
  /\ UNCHANGED <<env, server, task, stream, lastReadPos, schedule, driftHistory>>

DrainChunk ==
  \/ LeaveEarly \/ DropStale \/ TrimStale
  \/ SnapOverGap \/ RebufferBehind \/ PlaceChunk

-----------------------------------------------------------------------------
(***************************************************************************)
(* check_drift, on a timer of its own.                                     *)
(***************************************************************************)
DriftAnomaly(drift) == Magnitude(drift) > RingSize \div 4

RawDrift == readPos - ExpectedReadPos(anchor.pos, Prebuffer, snapNow - anchor.us)

NewHistory ==
  LET grown == Append(driftHistory, RawDrift)
  IN  IF Len(grown) > 3 THEN Tail(grown) ELSE grown

\* Mutant: the sign of the error is not turned round for the planner.
PlansAlongDrift(drift) ==
  {"off"} \cup (IF ~MayCorrect THEN {}
                ELSE IF drift > 0 THEN {"drop"}
                ELSE IF drift < 0 THEN {"insert"} ELSE {})

\* sendspin's CorrectionPlanner, external: it corrects against the drift, or
\* not at all inside its deadband.  A read head ahead of the server's timeline
\* (drift > 0) is slowed down by repeating frames.
Plans(drift) ==
  {"off"} \cup (IF ~MayCorrect THEN {}
                ELSE IF drift > 0 THEN {"insert"}
                ELSE IF drift < 0 THEN {"drop"} ELSE {})

WithinThreshold(drift) == schedule = "off" /\ Magnitude(drift) <= DriftThreshold

DriftCheckable ==
  /\ pc = "select"
  /\ anchor # NoAnchor
  /\ serverNow - anchor.since >= SettleMicros
  /\ synced

DriftSkipped ==
  /\ pc = "select"
  /\ ~DriftCheckable \/ SnapshotRaces
  /\ UNCHANGED vars

DriftRebuffers ==
  /\ DriftCheckable
  /\ \/ DriftAnomaly(RawDrift)
     \/ /\ Len(NewHistory) = 3
        /\ LET drift == MedianDriftSample(NewHistory)
           IN  DriftAnomaly(drift) \/ (~WithinThreshold(drift) /\ PlannerReanchors)
  /\ ClearAndRebuffer
  /\ UNCHANGED <<env, server, task, stream, lastReadPos>>

DriftSampled ==
  /\ DriftCheckable
  /\ ~DriftAnomaly(RawDrift)
  /\ driftHistory' = NewHistory
  /\ \/ Len(NewHistory) < 3 /\ UNCHANGED schedule
     \/ /\ Len(NewHistory) = 3
        /\ LET drift == MedianDriftSample(NewHistory)
           IN  /\ ~DriftAnomaly(drift)
               /\ IF WithinThreshold(drift) THEN UNCHANGED schedule
                  ELSE schedule' \in Plans(drift)
  /\ UNCHANGED <<env, server, task, stage, queue, anchor, settled, ring>>

CheckDrift == DriftSkipped \/ DriftRebuffers \/ DriftSampled

-----------------------------------------------------------------------------
Init ==
  /\ clock = ClockBase /\ serverNow = ClockBase
  /\ subscribed = FALSE /\ readPos = 0 /\ snapNow = 0 /\ synced = FALSE
  /\ nextTs = NotServing /\ epoch = 0
  /\ pc = "disconnected" /\ seen = 0
  /\ state = "Idle" /\ stream = NoFormat
  /\ writePos = 0 /\ prebufferWritten = 0 /\ lastReadPos = 0
  /\ pending = <<>> /\ pendingFrames = 0
  /\ anchor = NoAnchor /\ settled = FALSE /\ schedule = "off" /\ driftHistory = <<>>
  /\ ring = {}

Environment == Tick \/ ClockJump \/ Subscribe \/ Unsubscribe \/ ClockSynchronizes

Drain ==
  \/ EvictOldest \/ CheckSubscriber
  \/ SetAnchor \/ KeepAnchor \/ FallBackToSequential
  \/ WriteSequential \/ DrainEmpty \/ DrainChunk

Handlers ==
  \/ StreamStart \/ StreamClear \/ StreamEnd \/ Disconnect \/ Connect
  \/ HandleAudio \/ CheckDrift

Next == Environment \/ Handlers \/ Drain

Spec == Init /\ [][Next]_vars

\* A handler that has begun is run to its end: nothing in it waits.
FairSpec == Spec /\ WF_vars(Drain)
=============================================================================
