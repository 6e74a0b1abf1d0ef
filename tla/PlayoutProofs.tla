---------------------------- MODULE PlayoutProofs ----------------------------
(***************************************************************************)
(* Proofs about the playout scheduler, for every value of its constants.   *)
(***************************************************************************)
EXTENDS PlayoutProperties, SequenceTheorems, TLAPS

\* Rounded conversions stay in the integers.
LEMMA MicrosToSamplesType ==
  ASSUME NEW us \in Int
  PROVE  MicrosToSamples(us) \in Int
BY RateAssumption DEF MicrosToSamples, TruncDiv

LEMMA SamplesToMicrosType ==
  ASSUME NEW frames \in Int
  PROVE  SamplesToMicros(frames) \in Int
BY RateAssumption DEF SamplesToMicros, TruncDiv

\* Going back by no more than the remainder takes it off the remainder.
LEMMA ModBack ==
  ASSUME NEW n \in Nat \ {0}, NEW x \in Int, NEW h \in Nat, h <= (x % n)
  PROVE  (x - h) % n = (x % n) - h
OBVIOUS

\* Two writes of half the ring, one after the other, cover every slot.
LEMMA HalvesCover ==
  ASSUME NEW p \in Int, NEW w \in Int,
         (p - w) % RingSize >= RingSize \div 2
  PROVE  (p - (w + RingSize \div 2)) % RingSize < RingSize \div 2
<1>1. PICK h \in Nat : h = RingSize \div 2 /\ RingSize = 2 * h
  BY ConstantsAssumption
<1>2. PICK x \in Int : x = p - w
  OBVIOUS
<1>3. (x - h) % RingSize = (x % RingSize) - h
  <2>1. h <= (x % RingSize)
    BY <1>1, <1>2
  <2> QED BY <2>1, ModBack, ConstantsAssumption
<1>4. (x % RingSize) \in 0 .. RingSize - 1
  BY ConstantsAssumption
<1>5. p - (w + h) = x - h
  BY <1>2
<1> QED BY <1>1, <1>3, <1>4, <1>5

-----------------------------------------------------------------------------
(***************************************************************************)
(* Types.                                                                  *)
(***************************************************************************)
\* A covered ring is a part of the ring, and audio written into it is audio.
LEMMA WriteAudioType ==
  ASSUME TypeOK,
         NEW pos \in Int, NEW n \in Int, NEW chunk \in Chunk, NEW from \in Int,
         NEW net \in Int, NEW mark \in Int,
         WriteAudio(pos, n, chunk, from, net, mark)
  PROVE  ring' \subseteq Frame
<1>1. ASSUME NEW i \in 0 .. n - 1
      PROVE  [pos   |-> pos + i, ts |-> chunk.ts + SamplesToMicros(from + i - net),
              epoch |-> chunk.epoch, mark |-> mark] \in Frame
  BY SamplesToMicrosType DEF Chunk, Frame
<1> QED BY <1>1 DEF WriteAudio, Uncovered, TypeOK

\* What a chunk taken off the queue leaves, and the chunk itself.
LEMMA PopType ==
  ASSUME TypeOK, PopPendingFront
  PROVE  /\ Head(pending) \in Chunk
         /\ pending' \in Seq(Chunk) /\ pendingFrames' \in Nat
<1>1. pending \in Seq(Chunk) /\ pending # <<>> /\ pendingFrames \in Nat
  BY DEF TypeOK, PopPendingFront
<1>2. Head(pending) \in Chunk /\ Tail(pending) \in Seq(Chunk)
  BY <1>1, HeadTailProperties
<1>3. Head(pending).frames \in Int
  BY <1>2 DEF Chunk
<1> QED BY <1>1, <1>2, <1>3 DEF PopPendingFront, Larger

LEMMA ResetType ==
  ASSUME ResetTiming
  PROVE  /\ anchor' \in [us : Int, pos : Int, since : Int] /\ settled' \in BOOLEAN
         /\ schedule' \in {"off", "insert", "drop"} /\ driftHistory' \in Seq(Int)
<1>1. NoAnchor \in [us : Int, pos : Int, since : Int]
  BY DEF NoAnchor
<1>2. driftHistory' \in Seq(Int)
  BY EmptySeq DEF ResetTiming
<1> QED BY <1>1, <1>2 DEF ResetTiming

LEMMA CountType ==
  ASSUME TypeOK, NEW n \in Nat, CountPrebuffered(n)
  PROVE  prebufferWritten' \in Nat /\ state' \in States
BY DEF TypeOK, CountPrebuffered, States

LEMMA TypeInit == Init => TypeOK
<1> SUFFICES ASSUME Init PROVE TypeOK
  OBVIOUS
<1>1. NoAnchor \in [us : Int, pos : Int, since : Int]
  BY DEF NoAnchor
<1>2. driftHistory \in Seq(Int) /\ pending \in Seq(Chunk)
  BY EmptySeq DEF Init
<1>3. pendingFrames \in Nat /\ anchor \in [us : Int, pos : Int, since : Int]
  BY <1>1 DEF Init
<1>4. /\ clock \in Nat /\ serverNow \in Nat /\ readPos \in Nat /\ snapNow \in Nat
      /\ nextTs \in Int /\ epoch \in Nat /\ seen \in Nat /\ lastReadPos \in Nat
      /\ writePos \in Int /\ prebufferWritten \in Nat
  BY ConstantsAssumption DEF Init, NotServing
<1>5. /\ subscribed \in BOOLEAN /\ synced \in BOOLEAN /\ settled \in BOOLEAN
      /\ pc = "disconnected" /\ schedule = "off" /\ stream = NoFormat
      /\ state \in States /\ ring \subseteq Frame
  BY DEF Init, States
<1> QED BY <1>2, <1>3, <1>4, <1>5 DEF TypeOK

\* Silence only takes audio out of the ring.
LEMMA MoveType ==
  ASSUME TypeOK, MoveToReadHead
  PROVE  writePos' \in Int /\ prebufferWritten' = 0 /\ ring' \subseteq Frame
BY ConstantsAssumption DEF TypeOK, MoveToReadHead, WriteSilence, Uncovered

LEMMA ResetSchedulerType ==
  ASSUME ResetScheduler
  PROVE  /\ pending' \in Seq(Chunk) /\ pendingFrames' = 0
         /\ anchor' \in [us : Int, pos : Int, since : Int] /\ settled' \in BOOLEAN
         /\ schedule' \in {"off", "insert", "drop"} /\ driftHistory' \in Seq(Int)
BY ResetType, EmptySeq DEF ResetScheduler

LEMMA IdleType ==
  ASSUME TypeOK, EnterIdle
  PROVE  /\ writePos' \in Int /\ ring' \subseteq Frame
         /\ state' \in States /\ lastReadPos' = 0 /\ prebufferWritten' = 0
<1>1. ring' \subseteq ring
  BY DEF EnterIdle, Silenced, Uncovered
<1> QED BY <1>1, ConstantsAssumption DEF TypeOK, EnterIdle, States

-----------------------------------------------------------------------------
LEMMA TypeEnvironment == TypeOK /\ Environment => TypeOK'
<1> SUFFICES ASSUME TypeOK, Environment PROVE TypeOK'
  OBVIOUS
<1> USE ConstantsAssumption DEF server, task, stage, queue, timing
<1>1. CASE Tick
  BY <1>1 DEF TypeOK, Tick
<1>2. CASE ClockJump
  BY <1>2 DEF TypeOK, ClockJump
<1>3. CASE Subscribe
  BY <1>3 DEF TypeOK, Subscribe
<1>4. CASE Unsubscribe
  BY <1>4 DEF TypeOK, Unsubscribe
<1>5. CASE ClockSynchronizes
  BY <1>5 DEF TypeOK, ClockSynchronizes
<1> QED BY <1>1, <1>2, <1>3, <1>4, <1>5 DEF Environment

LEMMA TypeControl ==
  TypeOK /\ (StreamStart \/ StreamClear \/ StreamEnd \/ Disconnect \/ Connect) => TypeOK'
<1> SUFFICES ASSUME TypeOK, StreamStart \/ StreamClear \/ StreamEnd \/ Disconnect \/ Connect
             PROVE  TypeOK'
  OBVIOUS
<1> USE DEF env, task
<1>1. CASE StreamStart
  <2>1. nextTs' \in Int /\ epoch' \in Nat
    BY <1>1, ConstantsAssumption DEF TypeOK, StreamStart, ControlEvent
  <2>2. PICK format \in Formats :
          RestartIfRunning(format) \/ StartAtReadHead(format) \/ StartWaiting(format)
    BY <1>1 DEF StreamStart
  <2>3. CASE RestartIfRunning(format)
    BY <1>1, <2>1, <2>3, MoveType, ResetSchedulerType
    DEF TypeOK, StreamStart, RestartIfRunning, ClearAndRebuffer, States
  <2>4. CASE StartAtReadHead(format)
    BY <1>1, <2>1, <2>4, MoveType, ResetSchedulerType
    DEF TypeOK, StreamStart, StartAtReadHead, SnapToLive, States
  <2>5. CASE StartWaiting(format)
    BY <1>1, <2>1, <2>5, ResetSchedulerType DEF TypeOK, StreamStart, StartWaiting, States
  <2> QED BY <2>2, <2>3, <2>4, <2>5
<1>2. CASE StreamClear
  <2>1. nextTs' \in Int /\ epoch' \in Nat
    BY <1>2, ConstantsAssumption DEF TypeOK, StreamClear, ControlEvent
  <2> QED
    BY <1>2, <2>1, MoveType, ResetSchedulerType
    DEF TypeOK, StreamClear, ClearAndRebuffer, States
<1>3. CASE StreamEnd
  BY <1>3, IdleType, ResetSchedulerType
  DEF TypeOK, StreamEnd, ControlEvent, NotServing, EnterIdle
<1>4. CASE Disconnect
  BY <1>4, IdleType, ResetSchedulerType
  DEF TypeOK, Disconnect, ControlEvent, NotServing, EnterIdle
<1>5. CASE Connect
  BY <1>5 DEF TypeOK, Connect, server, queue, timing
<1> QED BY <1>1, <1>2, <1>3, <1>4, <1>5

LEMMA TypeAudio == TypeOK /\ HandleAudio => TypeOK'
<1> SUFFICES ASSUME TypeOK, HandleAudio PROVE TypeOK'
  OBVIOUS
<1>1. PICK n \in ChunkSizes, jump \in TimestampJumps :
        LET ts == nextTs + jump
            chunk == [ts |-> ts, frames |-> n, epoch |-> epoch]
        IN  /\ nextTs' = ts + SamplesToMicros(n)
            /\ \/ /\ SnapToLive
                  /\ ResetTiming
                  /\ pending' = <<chunk>>
                  /\ pendingFrames' = n
               \/ /\ pending' = Append(pending, chunk)
                  /\ pendingFrames' = pendingFrames + n
                  /\ UNCHANGED <<timing, state, writePos, prebufferWritten, ring>>
  BY DEF HandleAudio
<1> DEFINE chunk == [ts |-> nextTs + jump, frames |-> n, epoch |-> epoch]
<1>2. n \in Nat /\ SamplesToMicros(n) \in Int /\ jump \in Int /\ nextTs \in Int
  BY ConstantsAssumption, ChunkAssumption, SamplesToMicrosType DEF TypeOK
<1>3. chunk \in Chunk
  BY <1>2, ChunkAssumption DEF TypeOK, Chunk
<1>4. /\ nextTs' \in Int /\ seen' \in Nat /\ pc' = "bound"
      /\ UNCHANGED <<clock, serverNow, subscribed, readPos, snapNow, synced,
                     epoch, stream, lastReadPos>>
  BY <1>1, <1>2 DEF TypeOK, HandleAudio, env
<1>5. CASE SnapToLive /\ ResetTiming /\ pending' = <<chunk>> /\ pendingFrames' = n
  <2>1. pending' \in Seq(Chunk)
    BY <1>3, <1>5
  <2>2. /\ writePos' \in Int /\ prebufferWritten' \in Nat /\ ring' \subseteq Frame
        /\ state' \in States /\ pendingFrames' \in Nat
    BY <1>2, <1>5, MoveType DEF SnapToLive, States
  <2>3. /\ anchor' \in [us : Int, pos : Int, since : Int] /\ settled' \in BOOLEAN
        /\ schedule' \in {"off", "insert", "drop"} /\ driftHistory' \in Seq(Int)
    BY <1>5, ResetType
  <2> QED BY <1>4, <2>1, <2>2, <2>3 DEF TypeOK
<1>6. CASE /\ pending' = Append(pending, chunk) /\ pendingFrames' = pendingFrames + n
           /\ UNCHANGED <<timing, state, writePos, prebufferWritten, ring>>
  <2>1. pending' \in Seq(Chunk)
    BY <1>3, <1>6, AppendProperties DEF TypeOK
  <2> QED BY <1>2, <1>4, <1>6, <2>1 DEF TypeOK, timing
<1> QED BY <1>1, <1>5, <1>6

LEMMA TypeReceive ==
  TypeOK /\ (EvictOldest \/ CheckSubscriber \/ SetAnchor \/ KeepAnchor \/ FallBackToSequential)
    => TypeOK'
<1> SUFFICES ASSUME TypeOK, \/ EvictOldest \/ CheckSubscriber
                            \/ SetAnchor \/ KeepAnchor \/ FallBackToSequential
             PROVE  TypeOK'
  OBVIOUS
<1> USE DEF env, server, stage, queue, timing
<1>1. CASE EvictOldest
  BY <1>1, PopType DEF TypeOK, EvictOldest, task
<1>2. CASE CheckSubscriber
  <2>1. CASE SubscriberDetected
    BY <1>2, <2>1, MoveType, ResetSchedulerType
    DEF TypeOK, CheckSubscriber, SubscriberDetected, SnapToLive, States
  <2>2. CASE SubscriberAwaited
    BY <1>2, <2>2 DEF TypeOK, CheckSubscriber, SubscriberAwaited, States
  <2>3. CASE SubscriberSettled
    BY <1>2, <2>3 DEF TypeOK, CheckSubscriber, SubscriberSettled
  <2> QED BY <1>2, <2>1, <2>2, <2>3 DEF CheckSubscriber
<1>3. CASE SetAnchor
  <2>1. anchor' \in [us : Int, pos : Int, since : Int]
    BY <1>3, ConstantsAssumption DEF TypeOK, SetAnchor, AnchorAhead
  <2> QED BY <1>3, <2>1 DEF TypeOK, SetAnchor
<1>4. CASE KeepAnchor
  BY <1>4 DEF TypeOK, KeepAnchor
<1>5. CASE FallBackToSequential
  BY <1>5 DEF TypeOK, FallBackToSequential
<1> QED BY <1>1, <1>2, <1>3, <1>4, <1>5

\* The chunk at the front, and where an anchor puts it.
LEMMA OldestType ==
  ASSUME TypeOK, pending # <<>>
  PROVE  Oldest \in Chunk /\ Target \in Int /\ ChunkEnd \in Int
<1>1. Oldest \in Chunk
  BY HeadTailProperties DEF TypeOK, Oldest
<1>2. MicrosToSamples(Oldest.ts - anchor.us) \in Int
  BY <1>1, MicrosToSamplesType DEF TypeOK, Chunk
<1>3. Target \in Int
  BY <1>2 DEF TypeOK, Target, ChunkTarget
<1>4. Oldest.frames \in Int
  BY <1>1, ConstantsAssumption DEF Chunk
<1> QED BY <1>1, <1>3, <1>4 DEF ChunkEnd

LEMMA TypeDrain == TypeOK /\ (WriteSequential \/ DrainEmpty \/ DrainChunk) => TypeOK'
<1> SUFFICES ASSUME TypeOK, WriteSequential \/ DrainEmpty \/ DrainChunk PROVE TypeOK'
  OBVIOUS
<1> USE DEF env, server, task, stage, queue, timing, HandlerDone, Draining
<1>1. CASE WriteSequential
  <2>1. Head(pending) \in Chunk /\ pending' \in Seq(Chunk) /\ pendingFrames' \in Nat
    BY <1>1, PopType DEF WriteSequential
  <2>2. Head(pending).frames \in Nat /\ writePos \in Int
    BY <2>1, ConstantsAssumption DEF Chunk, TypeOK
  <2>3. ring' \subseteq Frame
    BY <1>1, <2>1, <2>2, WriteAudioType DEF WriteSequential, Sequential
  <2>4. prebufferWritten' \in Nat /\ state' \in States
    BY <1>1, <2>2, CountType DEF WriteSequential
  <2> QED BY <1>1, <2>1, <2>2, <2>3, <2>4 DEF TypeOK, WriteSequential
<1>2. CASE DrainEmpty
  BY <1>2 DEF TypeOK, DrainEmpty
<1>3. CASE LeaveEarly
  BY <1>3 DEF TypeOK, LeaveEarly
<1>4. CASE DropStale
  BY <1>4, PopType DEF TypeOK, DropStale
<1>5. CASE TrimStale
  <2>1. Oldest \in Chunk /\ Target \in Int /\ ChunkEnd \in Int
    BY <1>5, OldestType DEF TrimStale
  <2> DEFINE trim == seen - Target
             remaining == Oldest.frames - trim
  <2>2. pending' \in Seq(Chunk) /\ pendingFrames' \in Nat
    BY <1>5, PopType DEF TrimStale
  <2>3. trim \in Nat /\ remaining \in Nat /\ anchor.us \in Int /\ seen \in Int
    <3>1. Oldest.frames \in Int /\ seen \in Int /\ anchor.us \in Int
      BY <2>1, ConstantsAssumption DEF TypeOK, Chunk
    <3>2. Target - seen < 0 /\ (Target + Oldest.frames) - seen > 0
      BY <1>5 DEF TrimStale, Overlapping, ChunkEnd
    <3> QED BY <2>1, <3>1, <3>2
  <2>4. ring' \subseteq Frame
    BY <1>5, <2>1, <2>3, WriteAudioType DEF TrimStale
  <2>5. prebufferWritten' \in Nat /\ state' \in States
    BY <1>5, <2>3, CountType DEF TrimStale
  <2>6. writePos' \in Int
    BY <1>5, <2>1 DEF TypeOK, TrimStale, Larger
  <2> QED BY <1>5, <2>2, <2>4, <2>5, <2>6 DEF TypeOK, TrimStale
<1>6. CASE SnapOverGap
  BY <1>6, MoveType, ResetSchedulerType DEF TypeOK, SnapOverGap, SnapToLive, States
<1>7. CASE RebufferBehind
  BY <1>7, MoveType, ResetSchedulerType DEF TypeOK, RebufferBehind, ClearAndRebuffer, States
<1>8. CASE PlaceChunk
  <2>1. Oldest \in Chunk /\ Target \in Int
    BY <1>8, OldestType DEF PlaceChunk, Placeable
  <2>2. pending' \in Seq(Chunk) /\ pendingFrames' \in Nat
    BY <1>8, PopType DEF PlaceChunk
  <2>3. PICK net \in Corrections(Oldest.frames) :
          LET frames == Oldest.frames + net
              frontier == IF FarAhead THEN Target ELSE writePos
          IN  /\ WriteAudio(Target, frames, Oldest, 0, net, anchor.us)
              /\ anchor' = CorrectedAnchor(net)
              /\ writePos' = Larger(frontier, Target + frames)
              /\ CountPrebuffered(frames)
    BY <1>8 DEF PlaceChunk
  <2> DEFINE frames == Oldest.frames + net
  <2>4. PICK n \in Nat : n = Oldest.frames
    BY <2>1 DEF Chunk
  <2>5. frames \in Nat /\ net \in Int /\ anchor.us \in Int
    <3>1. net \in Int /\ n + net \in Nat
      BY <2>4, ConstantsAssumption DEF Corrections, Smaller
    <3> QED BY <2>4, <3>1 DEF TypeOK
  <2>6. ring' \subseteq Frame
    BY <2>1, <2>3, <2>5, WriteAudioType
  <2>7. prebufferWritten' \in Nat /\ state' \in States
    BY <2>3, <2>5, CountType
  <2>8. writePos' \in Int
    BY <2>1, <2>3, <2>5 DEF TypeOK, Larger
  <2>9. anchor' \in [us : Int, pos : Int, since : Int]
    <3>1. anchor' = [anchor EXCEPT !.pos = @ + net]
      BY <2>3 DEF CorrectedAnchor
    <3>2. anchor \in [us : Int, pos : Int, since : Int]
      BY DEF TypeOK
    <3> HIDE DEF frames
    <3> QED BY <2>5, <3>1, <3>2
  <2> QED BY <1>8, <2>2, <2>6, <2>7, <2>8, <2>9 DEF TypeOK, PlaceChunk
<1> QED BY <1>1, <1>2, <1>3, <1>4, <1>5, <1>6, <1>7, <1>8 DEF DrainChunk

LEMMA RawDriftType ==
  ASSUME TypeOK
  PROVE  RawDrift \in Int
<1>1. /\ readPos \in Int /\ anchor.pos \in Int /\ snapNow - anchor.us \in Int
      /\ Prebuffer \in Int
  BY ConstantsAssumption DEF TypeOK
<1>2. MicrosToSamples(snapNow - anchor.us) \in Int
  BY <1>1, MicrosToSamplesType
<1> QED BY <1>1, <1>2 DEF RawDrift, ExpectedReadPos

LEMMA TypeDrift == TypeOK /\ CheckDrift => TypeOK'
<1> SUFFICES ASSUME TypeOK, CheckDrift PROVE TypeOK'
  OBVIOUS
<1> USE DEF env, server, task, stage, queue
<1>1. CASE DriftSkipped
  BY <1>1 DEF TypeOK, DriftSkipped, vars, timing
<1>2. CASE DriftRebuffers
  BY <1>2, MoveType, ResetSchedulerType
  DEF TypeOK, DriftRebuffers, DriftCheckable, ClearAndRebuffer, States
<1>3. CASE DriftSampled
  <2>1. RawDrift \in Int
    BY RawDriftType
  <2>2. PICK grown : grown = Append(driftHistory, RawDrift)
    OBVIOUS
  <2>3. grown \in Seq(Int) /\ grown # <<>>
    <3>1. driftHistory \in Seq(Int)
      BY DEF TypeOK
    <3> QED BY <2>1, <2>2, <3>1, AppendProperties
  <2>4. driftHistory' = grown \/ driftHistory' = Tail(grown)
    BY <1>3, <2>2 DEF DriftSampled, NewHistory
  <2>5. driftHistory' \in Seq(Int)
    BY <2>3, <2>4, HeadTailProperties
  <2>6. schedule' \in {"off", "insert", "drop"}
    BY <1>3 DEF TypeOK, DriftSampled, Plans
  <2> QED BY <1>3, <2>5, <2>6 DEF TypeOK, DriftSampled
<1> QED BY <1>1, <1>2, <1>3 DEF CheckDrift

LEMMA TypeNext == TypeOK /\ [Next]_vars => TypeOK'
<1>1. ASSUME TypeOK, UNCHANGED vars PROVE TypeOK'
  BY <1>1 DEF TypeOK, vars, env, server, task, stage, queue, timing
<1> QED
  BY <1>1, TypeEnvironment, TypeControl, TypeAudio, TypeReceive, TypeDrain, TypeDrift
  DEF Next, Handlers, Drain

\* Every variable keeps to its type, in every behaviour of the scheduler.
THEOREM TypeCorrect == Spec => []TypeOK
BY TypeInit, TypeNext, PTL DEF Spec

-----------------------------------------------------------------------------
(***************************************************************************)
(* The inductive invariants.                                               *)
(***************************************************************************)
\* Audio is only handled outside Idle, and a lost connection is Idle: no
\* handler can put audio behind the silence that entering Idle wrote.
Lifecycle ==
  /\ IdleIsSilent
  /\ pc \in {"bound", "anchor", "drain", "sequential"} => state # "Idle"
  /\ pc = "disconnected" => state = "Idle"

\* What is queued belongs to the current epoch.
QueueIsCurrent == pending \in Seq([ts : Int, frames : 1 .. RingSize, epoch : {epoch}])

\* No read position is ahead of the transmitter.
Reach == UnreadAudioSurvives /\ readPos <= clock /\ seen <= clock

\* The server's microseconds and the transmitter's frames keep the same pace,
\* and the PTP clock does not jump.
SameClocks == RateNum = 1 /\ RateDen = 1 /\ ClockSteps = {1} /\ ClockJumps = {}

\* Snapshot and anchor agree with the two clocks on what sounds when.
Timing ==
  /\ ScheduledOnTime
  /\ readPos # 0 => readPos - clock = snapNow - serverNow
  /\ anchor # NoAnchor => /\ readPos # 0
                          /\ (anchor.pos - clock) - Prebuffer = anchor.us - serverNow
  /\ seen # 0 => readPos # 0
  /\ pc = "drain" => anchor # NoAnchor
  /\ schedule = "off"
  /\ driftHistory \in Seq({0})

-----------------------------------------------------------------------------
(***************************************************************************)
(* Idle is silent.                                                         *)
(***************************************************************************)
\* The two halves of the silence leave no frame in the ring.
LEMMA SilencedIsEmpty ==
  ASSUME TypeOK
  PROVE  Silenced(ring) = {}
<1> SUFFICES ASSUME NEW f \in Silenced(ring) PROVE FALSE
  OBVIOUS
<1>1. /\ f \in ring
      /\ (f.pos - writePos) % RingSize >= RingSize \div 2
      /\ (f.pos - (writePos + RingSize \div 2)) % RingSize >= RingSize \div 2
  BY DEF Silenced, Uncovered
<1>2. f.pos \in Int /\ writePos \in Int
  BY <1>1 DEF TypeOK, Frame
<1>3. (f.pos - (writePos + RingSize \div 2)) % RingSize < RingSize \div 2
  BY <1>1, <1>2, HalvesCover
<1>4. /\ (f.pos - (writePos + RingSize \div 2)) % RingSize \in Int
      /\ RingSize \div 2 \in Int
  BY <1>2, ConstantsAssumption
<1> QED BY <1>1, <1>3, <1>4

LEMMA LifecycleInit == Init => Lifecycle
BY DEF Init, Lifecycle, IdleIsSilent

LEMMA LifecycleStep == TypeOK /\ Lifecycle /\ [Next]_vars => Lifecycle'
<1> SUFFICES ASSUME TypeOK, Lifecycle, [Next]_vars PROVE Lifecycle'
  OBVIOUS
<1> USE DEF Lifecycle, IdleIsSilent, env, server, task, stage, queue, timing
<1>1. CASE Environment
  BY <1>1 DEF Environment, Tick, ClockJump, Subscribe, Unsubscribe, ClockSynchronizes
<1>2. CASE StreamStart
  BY <1>2 DEF StreamStart, ControlEvent, RestartIfRunning, StartAtReadHead, StartWaiting,
              ClearAndRebuffer, SnapToLive
<1>3. CASE StreamClear
  BY <1>3 DEF StreamClear, ControlEvent, ClearAndRebuffer
<1>4. CASE StreamEnd \/ Disconnect
  <2>1. ring' = {} /\ state' = "Idle" /\ stream' = NoFormat
    BY <1>4, SilencedIsEmpty DEF StreamEnd, Disconnect, EnterIdle
  <2>2. pending' = <<>> /\ anchor' = NoAnchor
    BY <1>4 DEF StreamEnd, Disconnect, EnterIdle, ResetScheduler, ResetTiming
  <2> QED BY <1>4, <2>1, <2>2 DEF StreamEnd, Disconnect, ControlEvent
<1>5. CASE Connect
  BY <1>5 DEF Connect
<1>6. CASE HandleAudio
  BY <1>6 DEF HandleAudio, SnapToLive
<1>7. CASE CheckDrift
  BY <1>7 DEF CheckDrift, DriftSkipped, DriftRebuffers, DriftSampled, DriftCheckable,
              ClearAndRebuffer, vars
<1>8. CASE EvictOldest \/ CheckSubscriber \/ SetAnchor \/ KeepAnchor \/ FallBackToSequential
  BY <1>8 DEF EvictOldest, CheckSubscriber, SubscriberDetected, SubscriberAwaited,
              SubscriberSettled, SnapToLive, SetAnchor, KeepAnchor, FallBackToSequential
<1>9. CASE WriteSequential \/ DrainEmpty \/ DrainChunk
  <2>1. pc \in {"drain", "sequential"} /\ pc' \in {"select", "drain", "sequential"}
    BY <1>9 DEF WriteSequential, DrainEmpty, DrainChunk, LeaveEarly, DropStale, TrimStale,
                SnapOverGap, RebufferBehind, PlaceChunk, Placeable, Draining, HandlerDone
  <2>2. state # "Idle"
    BY <2>1
  <2>3. state' # "Idle"
    BY <1>9, <2>2
    DEF WriteSequential, DrainEmpty, DrainChunk, LeaveEarly, DropStale, TrimStale,
        SnapOverGap, RebufferBehind, PlaceChunk, CountPrebuffered, SnapToLive, ClearAndRebuffer
  <2> QED BY <2>1, <2>3
<1>10. CASE UNCHANGED vars
  BY <1>10 DEF vars
<1> QED
  BY <1>1, <1>2, <1>3, <1>4, <1>5, <1>6, <1>7, <1>8, <1>9, <1>10 DEF Next, Handlers, Drain

\* In Idle there is nothing to be heard and nothing that could be: whatever
\* came before, entering Idle silences every slot of the ring, and no handler
\* writes while the bridge is in it.
THEOREM IdleSilence == Spec => []IdleIsSilent
<1>1. TypeOK /\ Lifecycle => IdleIsSilent
  BY DEF Lifecycle
<1> QED
  BY <1>1, TypeInit, TypeNext, LifecycleInit, LifecycleStep, PTL DEF Spec

-----------------------------------------------------------------------------
(***************************************************************************)
(* Discarded audio is never written.                                       *)
(***************************************************************************)
LEMMA QueueInit == Init => QueueIsCurrent
BY EmptySeq DEF Init, QueueIsCurrent

\* The chunk at the front is of the current epoch, and so is what it leaves.
LEMMA OldestIsCurrent ==
  ASSUME QueueIsCurrent, PopPendingFront, epoch' = epoch
  PROVE  Head(pending).epoch = epoch /\ QueueIsCurrent'
<1> DEFINE Current == [ts : Int, frames : 1 .. RingSize, epoch : {epoch}]
<1>1. pending \in Seq(Current) /\ pending # <<>> /\ pending' = Tail(pending)
  BY DEF QueueIsCurrent, PopPendingFront
<1>2. Head(pending) \in Current /\ Tail(pending) \in Seq(Current)
  <2> HIDE DEF Current
  <2> QED BY <1>1, HeadTailProperties
<1> QED BY <1>1, <1>2 DEF QueueIsCurrent

LEMMA EmptyIsCurrent == pending' = <<>> => QueueIsCurrent'
BY EmptySeq DEF QueueIsCurrent

LEMMA QueueStep == TypeOK /\ QueueIsCurrent /\ [Next]_vars => QueueIsCurrent'
<1> SUFFICES ASSUME TypeOK, QueueIsCurrent, [Next]_vars PROVE QueueIsCurrent'
  OBVIOUS
<1> USE DEF env, server, task, stage, queue, timing
<1>1. CASE UNCHANGED <<pending, epoch>>
  BY <1>1 DEF QueueIsCurrent
<1>2. CASE pending' = <<>>
  BY <1>2, EmptyIsCurrent
<1>3. CASE PopPendingFront /\ epoch' = epoch
  BY <1>3, OldestIsCurrent
<1>4. CASE HandleAudio
  <2>1. PICK n \in ChunkSizes, jump \in TimestampJumps :
          LET chunk == [ts |-> nextTs + jump, frames |-> n, epoch |-> epoch]
          IN  pending' = <<chunk>> \/ pending' = Append(pending, chunk)
    BY <1>4 DEF HandleAudio
  <2> DEFINE chunk == [ts |-> nextTs + jump, frames |-> n, epoch |-> epoch]
             Current == [ts : Int, frames : 1 .. RingSize, epoch : {epoch}]
  <2>2. chunk \in Current
    BY ConstantsAssumption, ChunkAssumption DEF TypeOK
  <2>3. pending \in Seq(Current) /\ epoch' = epoch
    BY <1>4 DEF QueueIsCurrent, HandleAudio
  <2>4. pending' \in Seq(Current)
    <3> HIDE DEF chunk, Current
    <3>1. <<chunk>> \in Seq(Current) /\ Append(pending, chunk) \in Seq(Current)
      BY <2>2, <2>3, AppendProperties
    <3> QED BY <2>1, <3>1 DEF chunk
  <2> QED BY <2>3, <2>4 DEF QueueIsCurrent
<1>5. CASE Environment
  BY <1>1, <1>5 DEF Environment, Tick, ClockJump, Subscribe, Unsubscribe, ClockSynchronizes
<1>6. CASE StreamStart \/ StreamClear \/ StreamEnd \/ Disconnect
  BY <1>2, <1>6 DEF StreamStart, RestartIfRunning, StartAtReadHead, StartWaiting, StreamClear,
                    StreamEnd, Disconnect, ClearAndRebuffer, EnterIdle, ResetScheduler
<1>7. CASE Connect \/ CheckDrift
  BY <1>1, <1>2, <1>7 DEF Connect, CheckDrift, DriftSkipped, DriftRebuffers, DriftSampled,
                          ClearAndRebuffer, ResetScheduler, vars
<1>8. CASE EvictOldest \/ CheckSubscriber \/ SetAnchor \/ KeepAnchor \/ FallBackToSequential
  BY <1>1, <1>2, <1>3, <1>8
  DEF EvictOldest, CheckSubscriber, SubscriberDetected, SubscriberAwaited,
      SubscriberSettled, ResetScheduler, SetAnchor, KeepAnchor, FallBackToSequential
<1>9. CASE WriteSequential \/ DrainEmpty \/ DrainChunk
  BY <1>1, <1>2, <1>3, <1>9
  DEF WriteSequential, DrainEmpty, DrainChunk, LeaveEarly, DropStale, TrimStale, SnapOverGap,
      RebufferBehind, PlaceChunk, ClearAndRebuffer, ResetScheduler
<1>10. CASE UNCHANGED vars
  BY <1>1, <1>10 DEF vars
<1> QED
  BY <1>4, <1>5, <1>6, <1>7, <1>8, <1>9, <1>10 DEF Next, Handlers, Drain

\* Whatever a write adds to the ring comes from its chunk.
LEMMA WrittenIsOfChunk ==
  ASSUME NEW pos, NEW n, NEW chunk, NEW from, NEW net, NEW mark,
         WriteAudio(pos, n, chunk, from, net, mark)
  PROVE  \A f \in ring' : f \in ring \/ f.epoch = chunk.epoch
BY DEF WriteAudio, Uncovered

LEMMA DiscardedStep ==
  TypeOK /\ QueueIsCurrent /\ [Next]_vars =>
    [\A f \in ring' : f.epoch < epoch' => f \in ring]_vars
<1> SUFFICES ASSUME TypeOK, QueueIsCurrent, Next
             PROVE  \A f \in ring' : f.epoch < epoch' => f \in ring
  OBVIOUS
<1> USE DEF env, server, task, stage, queue, timing
<1>1. CASE WriteSequential \/ TrimStale \/ PlaceChunk
  <2>1. epoch' = epoch /\ PopPendingFront
    BY <1>1 DEF WriteSequential, TrimStale, PlaceChunk
  <2>2. Head(pending).epoch = epoch
    BY <2>1, OldestIsCurrent
  <2>3. \A f \in ring' : f \in ring \/ f.epoch = Head(pending).epoch
    BY <1>1, WrittenIsOfChunk DEF WriteSequential, TrimStale, PlaceChunk, Oldest
  <2>4. epoch \in Nat
    BY DEF TypeOK
  <2> QED BY <2>1, <2>2, <2>3, <2>4
<1>2. CASE ring' \subseteq ring
  BY <1>2
<1>3. CASE Environment
  BY <1>2, <1>3 DEF Environment, Tick, ClockJump, Subscribe, Unsubscribe, ClockSynchronizes
<1>4. CASE Handlers
  BY <1>2, <1>4 DEF Handlers, StreamStart, RestartIfRunning, StartAtReadHead, StartWaiting,
                    StreamClear, StreamEnd, Disconnect, Connect, HandleAudio, CheckDrift,
                    DriftSkipped, DriftRebuffers, DriftSampled, ClearAndRebuffer, EnterIdle,
                    SnapToLive, MoveToReadHead, WriteSilence, Silenced, Uncovered, vars
<1>5. CASE EvictOldest \/ CheckSubscriber \/ SetAnchor \/ KeepAnchor \/ FallBackToSequential
  BY <1>2, <1>5
  DEF EvictOldest, CheckSubscriber, SubscriberDetected, SubscriberAwaited, SubscriberSettled,
      SetAnchor, KeepAnchor, FallBackToSequential, SnapToLive, MoveToReadHead, WriteSilence,
      Uncovered
<1>6. CASE DrainEmpty \/ LeaveEarly \/ DropStale \/ SnapOverGap \/ RebufferBehind
  BY <1>2, <1>6 DEF DrainEmpty, LeaveEarly, DropStale, SnapOverGap, RebufferBehind,
                    SnapToLive, ClearAndRebuffer, MoveToReadHead, WriteSilence, Uncovered
<1> QED BY <1>1, <1>3, <1>4, <1>5, <1>6 DEF Next, Drain, DrainChunk

\* Once a start, a clear, an end or a lost connection has discarded the queue,
\* no step of any handler puts audio of an earlier epoch in the ring.
THEOREM DiscardedAudio == Spec => DiscardedAudioNeverWritten
BY TypeInit, TypeNext, QueueInit, QueueStep, DiscardedStep, PTL
DEF Spec, DiscardedAudioNeverWritten

-----------------------------------------------------------------------------
(***************************************************************************)
(* Scheduled audio sounds on time, when the clocks keep the same pace.     *)
(***************************************************************************)
\* At that pace the conversions are exact.
LEMMA SamePaceIsExact ==
  ASSUME SameClocks, NEW x \in Int
  PROVE  MicrosToSamples(x) = x /\ SamplesToMicros(x) = x
BY DEF SameClocks, MicrosToSamples, SamplesToMicros, TruncDiv

LEMMA TimingInit == SameClocks /\ Init => Timing
<1> SUFFICES ASSUME Init PROVE Timing
  OBVIOUS
<1>1. driftHistory \in Seq({0})
  BY EmptySeq DEF Init
<1>2. /\ ring = {} /\ readPos = 0 /\ anchor = NoAnchor /\ seen = 0
      /\ pc = "disconnected" /\ schedule = "off"
  BY DEF Init
<1> QED BY <1>1, <1>2 DEF Timing, ScheduledOnTime

\* One frame and one microsecond later everything is one nearer.
LEMMA TimingTick == SameClocks /\ TypeOK /\ Timing /\ Tick => Timing'
<1> SUFFICES ASSUME SameClocks, TypeOK, Timing, Tick PROVE Timing'
  OBVIOUS
<1> USE DEF server, task, stage, queue, timing
<1>1. clock' = clock + 1 /\ serverNow' = serverNow + 1
  BY DEF Tick, SameClocks
<1>2. \/ readPos' = readPos /\ snapNow' = snapNow
      \/ readPos' = clock' /\ snapNow' = serverNow'
  BY <1>1 DEF Tick
<1>3. clock \in Nat /\ serverNow \in Nat /\ readPos \in Nat /\ snapNow \in Nat
  BY DEF TypeOK
<1>4. readPos' # 0 => readPos' - clock' = snapNow' - serverNow'
  BY <1>1, <1>2, <1>3 DEF Timing
<1>5. readPos # 0 => readPos' # 0
  BY <1>1, <1>2, <1>3
<1>6. anchor # NoAnchor => (anchor.pos - clock') - Prebuffer = anchor.us - serverNow'
  <2> SUFFICES ASSUME anchor # NoAnchor
               PROVE  (anchor.pos - clock') - Prebuffer = anchor.us - serverNow'
    OBVIOUS
  <2>1. PICK pos \in Int, us \in Int : pos = anchor.pos /\ us = anchor.us
    BY DEF TypeOK
  <2>2. (pos - clock) - Prebuffer = us - serverNow
    BY <2>1 DEF Timing
  <2>3. (pos - clock') - Prebuffer = us - serverNow'
    BY <1>1, <1>3, <2>2, ConstantsAssumption
  <2> QED BY <2>1, <2>3
<1>7. ScheduledOnTime'
  <2> SUFFICES ASSUME NEW f \in ring', f.mark # Sequential
               PROVE  f.pos - clock' = MicrosToSamples(f.ts - serverNow') + Prebuffer
    BY DEF ScheduledOnTime
  <2>1. f \in ring /\ f.pos \in Int /\ f.ts \in Int
    BY DEF Tick, TypeOK, Frame
  <2>2. f.pos - clock = (f.ts - serverNow) + Prebuffer
    BY <1>3, <2>1, SamePaceIsExact DEF Timing, ScheduledOnTime
  <2> QED BY <1>1, <1>3, <2>1, <2>2, SamePaceIsExact, ConstantsAssumption
<1>8. UNCHANGED <<anchor, seen, pc, schedule, driftHistory>>
  BY DEF Tick
<1> QED BY <1>4, <1>5, <1>6, <1>7, <1>8 DEF Timing

\* What a write under the anchor adds to the ring is on time.
LEMMA WrittenOnTime ==
  ASSUME SameClocks, TypeOK, Timing, anchor # NoAnchor,
         NEW pos \in Int, NEW n \in Int, NEW chunk \in Chunk, NEW from \in Int,
         pos - from = ChunkTarget(anchor, chunk.ts),
         WriteAudio(pos, n, chunk, from, 0, anchor.us),
         UNCHANGED <<clock, serverNow>>
  PROVE  ScheduledOnTime'
<1> SUFFICES ASSUME NEW f \in ring', f.mark # Sequential
             PROVE  f.pos - clock' = MicrosToSamples(f.ts - serverNow') + Prebuffer
  BY DEF ScheduledOnTime
<1>1. CASE f \in ring
  BY <1>1 DEF Timing, ScheduledOnTime
<1>2. CASE f \notin ring
  <2>1. PICK i \in 0 .. n - 1 :
          f.pos = pos + i /\ f.ts = chunk.ts + SamplesToMicros(from + i - 0)
    BY <1>2 DEF WriteAudio, Uncovered
  <2>2. PICK at \in Int, us \in Int, ts \in Int :
          at = anchor.pos /\ us = anchor.us /\ ts = chunk.ts
    BY DEF TypeOK, Chunk
  <2>3. clock \in Int /\ serverNow \in Int /\ Prebuffer \in Int /\ i \in Int
    BY ConstantsAssumption DEF TypeOK
  <2>4. (at - clock) - Prebuffer = us - serverNow
    BY <2>2 DEF Timing
  <2>5. pos - from = at + (ts - us)
    BY <2>2, SamePaceIsExact DEF ChunkTarget
  <2>6. SamplesToMicros(from + i - 0) = from + i
    BY <2>3, SamePaceIsExact
  <2>7. MicrosToSamples((ts + (from + i)) - serverNow) = (ts + (from + i)) - serverNow
    BY <2>3, SamePaceIsExact
  <2>8. (pos + i) - clock = ((ts + (from + i)) - serverNow) + Prebuffer
    BY <2>3, <2>4, <2>5
  <2> QED BY <2>1, <2>2, <2>6, <2>7, <2>8
<1> QED BY <1>1, <1>2

\* A snapshot taken under an anchor is no drift sample but zero.
LEMMA NoDrift ==
  ASSUME SameClocks, TypeOK, Timing, anchor # NoAnchor
  PROVE  RawDrift = 0
<1>1. /\ readPos \in Int /\ clock \in Int /\ snapNow \in Int /\ serverNow \in Int
      /\ Prebuffer \in Int /\ anchor.pos \in Int /\ anchor.us \in Int
  BY ConstantsAssumption DEF TypeOK
<1>2. MicrosToSamples(snapNow - anchor.us) = snapNow - anchor.us
  BY <1>1, SamePaceIsExact
<1>3. /\ readPos - clock = snapNow - serverNow
      /\ (anchor.pos - clock) - Prebuffer = anchor.us - serverNow
  BY DEF Timing
<1>4. RawDrift = readPos - (anchor.pos - Prebuffer + (snapNow - anchor.us))
  BY <1>2 DEF RawDrift, ExpectedReadPos
<1> QED BY <1>1, <1>3, <1>4

\* A step that adds no audio and leaves the clocks, the snapshot, the schedule
\* and the samples alone keeps the timing, if it keeps or drops the anchor.
LEMMA TimingKept ==
  ASSUME Timing,
         UNCHANGED <<clock, serverNow, readPos, snapNow>>,
         ring' \subseteq ring,
         seen' = 0 \/ seen' = seen \/ seen' = readPos,
         anchor' = anchor \/ anchor' = NoAnchor,
         pc' = "drain" => anchor' # NoAnchor,
         schedule' = schedule \/ schedule' = "off",
         driftHistory' = driftHistory \/ driftHistory' = <<>>
  PROVE  Timing'
<1>1. ScheduledOnTime'
  BY DEF Timing, ScheduledOnTime
<1>2. driftHistory' \in Seq({0})
  BY EmptySeq DEF Timing
<1>3. schedule' = "off"
  BY DEF Timing
<1> QED BY <1>1, <1>2, <1>3 DEF Timing

LEMMA TimingSilence ==
  /\ MoveToReadHead => ring' \subseteq ring
  /\ EnterIdle => ring' \subseteq ring
BY DEF MoveToReadHead, WriteSilence, EnterIdle, Silenced, Uncovered

LEMMA TimingControl == Timing /\ Handlers /\ ~CheckDrift => Timing'
<1> SUFFICES ASSUME Timing, Handlers, ~CheckDrift PROVE Timing'
  OBVIOUS
<1> USE DEF env, task, server, stage, queue, timing
<1>1. CASE StreamStart
  BY <1>1, TimingKept, TimingSilence
  DEF StreamStart, ControlEvent, RestartIfRunning, StartAtReadHead, StartWaiting,
      ClearAndRebuffer, SnapToLive, ResetScheduler, ResetTiming
<1>2. CASE StreamClear
  BY <1>2, TimingKept, TimingSilence
  DEF StreamClear, ControlEvent, ClearAndRebuffer, ResetScheduler, ResetTiming
<1>3. CASE StreamEnd
  BY <1>3, TimingKept, TimingSilence
  DEF StreamEnd, ControlEvent, EnterIdle, ResetScheduler, ResetTiming
<1>4. CASE Disconnect
  BY <1>4, TimingKept, TimingSilence
  DEF Disconnect, ControlEvent, EnterIdle, ResetScheduler, ResetTiming
<1>5. CASE Connect
  BY <1>5, TimingKept DEF Connect
<1>6. CASE HandleAudio
  BY <1>6, TimingKept, TimingSilence DEF HandleAudio, SnapToLive, ResetTiming
<1> QED BY <1>1, <1>2, <1>3, <1>4, <1>5, <1>6 DEF Handlers

\* With clocks of one rate every sample is zero, and so is their median.
LEMMA SamplesAreZero ==
  ASSUME SameClocks, TypeOK, Timing, anchor # NoAnchor
  PROVE  /\ RawDrift = 0 /\ NewHistory \in Seq({0})
         /\ Len(NewHistory) = 3 => MedianDriftSample(NewHistory) = 0
<1>1. RawDrift = 0
  BY NoDrift
<1>2. PICK grown : grown = Append(driftHistory, RawDrift)
  OBVIOUS
<1>3. grown \in Seq({0}) /\ grown # <<>> /\ NewHistory \in {grown, Tail(grown)}
  BY <1>1, <1>2, AppendProperties DEF Timing, NewHistory
<1>4. NewHistory \in Seq({0})
  BY <1>3, HeadTailProperties
<1>5. ASSUME Len(NewHistory) = 3 PROVE MedianDriftSample(NewHistory) = 0
  <2>1. \A i \in 1 .. Len(NewHistory) : NewHistory[i] \in {0}
    BY <1>4, ElementOfSeq
  <2>2. NewHistory[1] = 0 /\ NewHistory[2] = 0 /\ NewHistory[3] = 0
    BY <1>5, <2>1
  <2> QED BY <2>2 DEF MedianDriftSample, Larger, Smaller
<1> QED BY <1>1, <1>4, <1>5

LEMMA TimingDrift == SameClocks /\ TypeOK /\ Timing /\ CheckDrift => Timing'
<1> SUFFICES ASSUME SameClocks, TypeOK, Timing, CheckDrift PROVE Timing'
  OBVIOUS
<1> USE DEF env, task, server, stage, queue, timing
<1>1. CASE DriftSkipped
  BY <1>1, TimingKept DEF DriftSkipped, vars
<1>2. CASE DriftRebuffers
  BY <1>2, TimingKept, TimingSilence
  DEF DriftRebuffers, DriftCheckable, ClearAndRebuffer, ResetScheduler, ResetTiming
<1>3. CASE DriftSampled
  <2>1. anchor # NoAnchor /\ driftHistory' = NewHistory
    BY <1>3 DEF DriftSampled, DriftCheckable
  <2>2. NewHistory \in Seq({0}) /\ (Len(NewHistory) = 3 => MedianDriftSample(NewHistory) = 0)
    BY <2>1, SamplesAreZero
  <2>3. schedule' = "off"
    BY <1>3, <2>2 DEF DriftSampled, Timing, Plans
  <2>4. driftHistory' \in Seq({0})
    BY <2>1, <2>2
  <2>5. /\ UNCHANGED <<clock, serverNow, readPos, snapNow, seen, anchor, ring, pc>>
    BY <1>3 DEF DriftSampled
  <2> QED BY <2>3, <2>4, <2>5 DEF Timing, ScheduledOnTime
<1> QED BY <1>1, <1>2, <1>3 DEF CheckDrift

LEMMA TimingReceive ==
  Timing /\ (EvictOldest \/ CheckSubscriber \/ KeepAnchor \/ FallBackToSequential) => Timing'
<1> SUFFICES ASSUME Timing, EvictOldest \/ CheckSubscriber \/ KeepAnchor \/ FallBackToSequential
             PROVE  Timing'
  OBVIOUS
<1> USE DEF env, task, server, stage, queue, timing
<1>1. CASE EvictOldest
  BY <1>1, TimingKept DEF EvictOldest
<1>2. CASE CheckSubscriber
  BY <1>2, TimingKept, TimingSilence
  DEF CheckSubscriber, SubscriberDetected, SubscriberAwaited, SubscriberSettled, SnapToLive,
      ResetScheduler, ResetTiming
<1>3. CASE KeepAnchor
  BY <1>3, TimingKept DEF KeepAnchor
<1>4. CASE FallBackToSequential
  BY <1>4, TimingKept DEF FallBackToSequential
<1> QED BY <1>1, <1>2, <1>3, <1>4

\* The new anchor is the published pair, one prebuffer on.
LEMMA TimingAnchor == TypeOK /\ Timing /\ SetAnchor => Timing'
<1> SUFFICES ASSUME TypeOK, Timing, SetAnchor PROVE Timing'
  OBVIOUS
<1>1. /\ UNCHANGED <<clock, serverNow, readPos, snapNow, seen, schedule, driftHistory, ring>>
      /\ seen # 0 /\ anchor' = AnchorAhead /\ pc' = "drain"
  BY DEF SetAnchor, env
<1>2. readPos # 0 /\ readPos - clock = snapNow - serverNow
  BY <1>1 DEF Timing
<1>3. anchor'.us = snapNow /\ anchor'.pos = readPos + Prebuffer
  BY <1>1 DEF AnchorAhead
<1>4. anchor' # NoAnchor
  <2>1. anchor'.us # -1
    BY <1>3 DEF TypeOK
  <2> QED BY <2>1 DEF NoAnchor
<1>5. ((readPos + Prebuffer) - clock) - Prebuffer = snapNow - serverNow
  BY <1>2, ConstantsAssumption DEF TypeOK
<1>6. (anchor'.pos - clock') - Prebuffer = anchor'.us - serverNow'
  BY <1>1, <1>3, <1>5
<1> QED BY <1>1, <1>2, <1>4, <1>6 DEF Timing, ScheduledOnTime

LEMMA TimingDrain ==
  SameClocks /\ TypeOK /\ Timing /\ (WriteSequential \/ DrainEmpty \/ DrainChunk) => Timing'
<1> SUFFICES ASSUME SameClocks, TypeOK, Timing, WriteSequential \/ DrainEmpty \/ DrainChunk
             PROVE  Timing'
  OBVIOUS
<1> USE DEF env, task, server, stage, queue, timing, HandlerDone
<1>1. CASE WriteSequential
  <2>1. ScheduledOnTime'
    <3>1. \A f \in ring' : f \in ring \/ f.mark = Sequential
      BY <1>1 DEF WriteSequential, WriteAudio, Uncovered
    <3> QED BY <1>1, <3>1 DEF Timing, ScheduledOnTime, WriteSequential
  <2> QED BY <1>1, <2>1 DEF Timing, WriteSequential
<1>2. CASE DrainEmpty
  BY <1>2, TimingKept DEF DrainEmpty
<1>3. CASE LeaveEarly
  BY <1>3, TimingKept DEF LeaveEarly
<1>4. CASE DropStale
  BY <1>4, TimingKept DEF DropStale, Timing, Draining
<1>5. CASE TrimStale
  <2>1. Oldest \in Chunk /\ Target \in Int /\ pending # <<>> /\ anchor # NoAnchor
    BY <1>5, OldestType DEF TrimStale, Draining, Timing
  <2> DEFINE trim == seen - Target
             remaining == Oldest.frames - trim
  <2>2. WriteAudio(seen, remaining, Oldest, trim, 0, anchor.us)
    BY <1>5 DEF TrimStale
  <2>3. seen \in Int /\ trim \in Int /\ seen - trim = Target /\ remaining \in Int
    BY <2>1 DEF TypeOK, Chunk
  <2>4. ScheduledOnTime'
    <3> HIDE DEF trim, remaining
    <3>1. seen - trim = ChunkTarget(anchor, Oldest.ts) /\ UNCHANGED <<clock, serverNow>>
      BY <1>5, <2>3 DEF Target, TrimStale
    <3> QED BY <2>1, <2>2, <2>3, <3>1, WrittenOnTime
  <2> QED BY <1>5, <2>4 DEF Timing, TrimStale
<1>6. CASE SnapOverGap \/ RebufferBehind
  BY <1>6, TimingKept, TimingSilence
  DEF SnapOverGap, RebufferBehind, SnapToLive, ClearAndRebuffer, ResetScheduler, ResetTiming
<1>7. CASE PlaceChunk
  <2>1. Oldest \in Chunk /\ Target \in Int /\ pending # <<>> /\ anchor # NoAnchor
    BY <1>7, OldestType DEF PlaceChunk, Placeable, Draining, Timing
  <2>2. WriteAudio(Target, Oldest.frames + 0, Oldest, 0, 0, anchor.us)
        /\ anchor' = CorrectedAnchor(0)
    BY <1>7 DEF PlaceChunk, Corrections, Timing
  <2>3. anchor' = anchor
    <3>1. PICK at \in Int : at = anchor.pos
      BY DEF TypeOK
    <3>2. at + 0 = at
      OBVIOUS
    <3> QED BY <2>2, <3>1, <3>2 DEF CorrectedAnchor, TypeOK
  <2>4. Oldest.frames + 0 \in Int /\ Target - 0 = ChunkTarget(anchor, Oldest.ts)
    BY <2>1 DEF Chunk, Target
  <2>5. ScheduledOnTime'
    <3>1. UNCHANGED <<clock, serverNow>>
      BY <1>7 DEF PlaceChunk
    <3> QED BY <2>1, <2>2, <2>4, <3>1, WrittenOnTime
  <2> QED BY <1>7, <2>3, <2>5 DEF Timing, PlaceChunk
<1> QED BY <1>1, <1>2, <1>3, <1>4, <1>5, <1>6, <1>7 DEF DrainChunk

LEMMA TimingStep == SameClocks /\ TypeOK /\ Timing /\ [Next]_vars => Timing'
<1> SUFFICES ASSUME SameClocks, TypeOK, Timing, [Next]_vars PROVE Timing'
  OBVIOUS
<1> USE DEF server, task, stage, queue, timing
<1>1. CASE Environment
  <2>1. ~ClockJump
    BY DEF ClockJump, SameClocks
  <2>2. CASE Tick
    BY <2>2, TimingTick
  <2>3. CASE Subscribe \/ Unsubscribe \/ ClockSynchronizes
    BY <2>3, TimingKept DEF Subscribe, Unsubscribe, ClockSynchronizes, Timing
  <2> QED BY <1>1, <2>1, <2>2, <2>3 DEF Environment
<1>2. CASE Handlers
  BY <1>2, TimingControl, TimingDrift
<1>3. CASE Drain
  BY <1>3, TimingReceive, TimingAnchor, TimingDrain DEF Drain
<1>4. CASE UNCHANGED vars
  BY <1>4, TimingKept DEF vars, env, Timing
<1> QED BY <1>1, <1>2, <1>3, <1>4 DEF Next

LEMMA TimingAgrees == Timing => ClocksAgree
<1> SUFFICES ASSUME Timing PROVE ClocksAgree
  OBVIOUS
<1>1. driftHistory \in Seq({0}) /\ DOMAIN driftHistory = 1 .. Len(driftHistory)
  BY LenProperties DEF Timing
<1>2. \A i \in DOMAIN driftHistory : driftHistory[i] \in {0}
  BY <1>1, ElementOfSeq
<1> QED BY <1>2 DEF Timing, ClocksAgree

\* Between clocks of one pace no drift is ever measured and no frame repeated
\* or dropped, however often the bridge anchors anew and whenever it does.
THEOREM ClocksInStep == ASSUME SameClocks PROVE Spec => []ClocksAgree
<1>1. Init => Timing
  BY TimingInit
<1>2. TypeOK /\ Timing /\ [Next]_vars => Timing'
  BY TimingStep
<1> QED BY <1>1, <1>2, TypeInit, TypeNext, TimingAgrees, PTL DEF Spec

\* Between clocks of one pace every frame written under an anchor sounds one
\* prebuffer after its timestamp, through anchors, breaks in the timestamps,
\* trimmed chunks and rebuffers.
THEOREM OnTime == ASSUME SameClocks PROVE Spec => []ScheduledOnTime
<1>1. Init => Timing
  BY TimingInit
<1>2. TypeOK /\ Timing /\ [Next]_vars => Timing'
  BY TimingStep
<1>3. Timing => ScheduledOnTime
  BY DEF Timing
<1> QED BY <1>1, <1>2, <1>3, TypeInit, TypeNext, PTL DEF Spec

-----------------------------------------------------------------------------
(***************************************************************************)
(* Scheduled writes replace no audio that has yet to be heard, as long as  *)
(* no frame is repeated.                                                   *)
(***************************************************************************)
LEMMA ReachInit == Init => Reach
BY ConstantsAssumption DEF Init, Reach, UnreadAudioSurvives

\* A step that adds no audio, publishes no position and turns no clock back.
LEMMA ReachKept ==
  ASSUME TypeOK, Reach, ring' \subseteq ring, clock' = clock, readPos' = readPos,
         seen' = 0 \/ seen' = seen \/ seen' = readPos
  PROVE  Reach'
BY DEF TypeOK, Reach, UnreadAudioSurvives

\* What is within reach of one position is within reach of a later one.
LEMMA LaterReach ==
  ASSUME NEW at \in Int, NEW c \in Int, NEW d \in Int, NEW r \in Int, at < c + r, c <= d
  PROVE  at < d + r
OBVIOUS

LEMMA ReachClock == TypeOK /\ Reach /\ (Tick \/ ClockJump) => Reach'
<1> SUFFICES ASSUME TypeOK, Reach, Tick \/ ClockJump PROVE Reach'
  OBVIOUS
<1>1. /\ clock \in Nat /\ clock' \in Nat /\ clock <= clock'
      /\ readPos' = readPos \/ readPos' = clock'
      /\ readPos \in Nat /\ seen \in Nat /\ seen' = seen
  BY ConstantsAssumption DEF TypeOK, Tick, ClockJump, task
<1>2. UnreadAudioSurvives'
  <2> SUFFICES ASSUME NEW f \in ring', f.mark # Sequential
               PROVE  f.pos < clock' + RingSize
    BY DEF UnreadAudioSurvives
  <2>1. PICK at \in Int : at = f.pos /\ f \in ring
    BY DEF Tick, ClockJump, TypeOK, Frame
  <2>2. at < clock + RingSize
    BY <2>1 DEF Reach, UnreadAudioSurvives
  <2>3. at < clock' + RingSize
    <3>1. clock \in Int /\ clock' \in Int /\ clock <= clock' /\ RingSize \in Int
      BY <1>1, ConstantsAssumption
    <3> QED BY <2>2, <3>1, LaterReach
  <2> QED BY <2>1, <2>3
<1>3. readPos' <= clock' /\ seen' <= clock'
  BY <1>1 DEF Reach
<1> QED BY <1>2, <1>3 DEF Reach

\* A write that ends within one ring of the read position it started from.
LEMMA WrittenWithinReach ==
  ASSUME TypeOK, Reach, clock' = clock,
         NEW pos \in Int, NEW n \in Int, NEW chunk, NEW from, NEW net, NEW mark,
         pos + n <= seen + RingSize, WriteAudio(pos, n, chunk, from, net, mark)
  PROVE  UnreadAudioSurvives'
<1> SUFFICES ASSUME NEW f \in ring', f.mark # Sequential
             PROVE  f.pos < clock' + RingSize
  BY DEF UnreadAudioSurvives
<1>1. CASE f \in ring
  BY <1>1 DEF Reach, UnreadAudioSurvives
<1>2. CASE f \notin ring
  <2>1. PICK i \in 0 .. n - 1 : f.pos = pos + i
    BY <1>2 DEF WriteAudio, Uncovered
  <2>2. clock \in Int /\ seen \in Int /\ seen <= clock
    BY DEF TypeOK, Reach
  <2>3. pos + i < clock + RingSize
    BY <2>2, ConstantsAssumption
  <2> QED BY <2>1, <2>3
<1> QED BY <1>1, <1>2

LEMMA ReachStep == TypeOK /\ Reach /\ schedule = "off" /\ [Next]_vars => Reach'
<1> SUFFICES ASSUME TypeOK, Reach, schedule = "off", [Next]_vars PROVE Reach'
  OBVIOUS
<1> USE DEF env, server, task, stage, queue, timing, HandlerDone
<1>1. CASE Tick \/ ClockJump
  BY <1>1, ReachClock
<1>2. CASE Subscribe \/ Unsubscribe \/ ClockSynchronizes
  BY <1>2, ReachKept DEF Subscribe, Unsubscribe, ClockSynchronizes
<1>3. CASE Handlers
  BY <1>3, ReachKept, TimingSilence
  DEF Handlers, StreamStart, RestartIfRunning, StartAtReadHead, StartWaiting, StreamClear,
      StreamEnd, Disconnect, Connect, HandleAudio, CheckDrift, DriftSkipped, DriftRebuffers,
      DriftSampled, ClearAndRebuffer, SnapToLive, vars
<1>4. CASE EvictOldest \/ CheckSubscriber \/ SetAnchor \/ KeepAnchor \/ FallBackToSequential
  BY <1>4, ReachKept, TimingSilence
  DEF EvictOldest, CheckSubscriber, SubscriberDetected, SubscriberAwaited, SubscriberSettled,
      SetAnchor, KeepAnchor, FallBackToSequential, SnapToLive
<1>5. CASE DrainEmpty \/ LeaveEarly \/ DropStale \/ SnapOverGap \/ RebufferBehind
  BY <1>5, ReachKept, TimingSilence
  DEF DrainEmpty, LeaveEarly, DropStale, SnapOverGap, RebufferBehind, SnapToLive,
      ClearAndRebuffer
<1>6. CASE WriteSequential
  <2>1. \A f \in ring' : f \in ring \/ f.mark = Sequential
    BY <1>6 DEF WriteSequential, WriteAudio, Uncovered
  <2> QED BY <1>6, <2>1 DEF WriteSequential, Reach, UnreadAudioSurvives
<1>7. CASE TrimStale
  <2>1. Oldest \in Chunk /\ Target \in Int /\ UNCHANGED <<clock, readPos, seen>>
    BY <1>7, OldestType DEF TrimStale, Draining
  <2> DEFINE remaining == Oldest.frames - (seen - Target)
  <2>2. PICK n \in 1 .. RingSize : n = Oldest.frames
    BY <2>1 DEF Chunk
  <2>3. remaining \in Int /\ seen \in Int /\ seen + remaining <= seen + RingSize
    <3>1. Target - seen < 0 /\ seen \in Int
      BY <1>7 DEF TrimStale, Overlapping, TypeOK
    <3>2. n - (seen - Target) \in Int /\ seen + (n - (seen - Target)) <= seen + RingSize
      BY <2>1, <2>2, <3>1, ConstantsAssumption
    <3> QED BY <2>2, <3>1, <3>2
  <2>4. UnreadAudioSurvives'
    <3>1. WriteAudio(seen, remaining, Oldest, seen - Target, 0, anchor.us)
      BY <1>7 DEF TrimStale
    <3> QED BY <2>1, <2>3, <3>1, WrittenWithinReach
  <2> QED BY <2>1, <2>4 DEF Reach
<1>8. CASE PlaceChunk
  <2>1. Oldest \in Chunk /\ Target \in Int /\ UNCHANGED <<clock, readPos, seen>>
    BY <1>8, OldestType DEF PlaceChunk, Placeable, Draining
  <2>2. PICK n \in 1 .. RingSize : n = Oldest.frames
    BY <2>1 DEF Chunk
  <2>3. WriteAudio(Target, n + 0, Oldest, 0, 0, anchor.us)
    BY <1>8, <2>2 DEF PlaceChunk, Corrections
  <2>4. n + 0 \in Int /\ Target + (n + 0) <= seen + RingSize
    <3>1. ~(Target - seen > RingSize - n) /\ seen \in Int
      BY <1>8, <2>2 DEF PlaceChunk, Placeable, TooEarly, TypeOK
    <3> QED BY <2>1, <3>1, ConstantsAssumption
  <2>5. UnreadAudioSurvives'
    BY <2>1, <2>3, <2>4, WrittenWithinReach
  <2> QED BY <2>1, <2>5 DEF Reach
<1>9. CASE UNCHANGED vars
  BY <1>9, ReachKept DEF vars
<1> QED
  BY <1>1, <1>2, <1>3, <1>4, <1>5, <1>6, <1>7, <1>8, <1>9 DEF Next, Environment, Drain, DrainChunk

\* Between clocks of one pace a scheduled write stays within one ring of what
\* the transmitter plays.
THEOREM UnreadSurvivesInStep == ASSUME SameClocks PROVE Spec => []UnreadAudioSurvives
<1>1. Init => Timing
  BY TimingInit
<1>2. TypeOK /\ Timing /\ [Next]_vars => Timing'
  BY TimingStep
<1>3. Timing => schedule = "off"
  BY DEF Timing
<1>4. Reach => UnreadAudioSurvives
  BY DEF Reach
<1> QED
  BY <1>1, <1>2, <1>3, <1>4, TypeInit, TypeNext, ReachInit, ReachStep, PTL DEF Spec

\* So it does between any clocks, when corrections are turned off.
THEOREM UnreadSurvivesUncorrected == ASSUME ~MayCorrect PROVE Spec => []UnreadAudioSurvives
<1> DEFINE Off == schedule = "off"
<1>1. Init => Off
  BY DEF Init
<1>2. Off /\ [Next]_vars => Off'
  <2> SUFFICES ASSUME Off, [Next]_vars PROVE Off'
    OBVIOUS
  <2> USE DEF env, server, task, stage, queue, timing
  <2>1. CASE Environment
    BY <2>1 DEF Environment, Tick, ClockJump, Subscribe, Unsubscribe, ClockSynchronizes
  <2>2. CASE Handlers
    BY <2>2
    DEF Handlers, StreamStart, RestartIfRunning, StartAtReadHead, StartWaiting, StreamClear,
        StreamEnd, Disconnect, Connect, HandleAudio, CheckDrift, DriftSkipped, DriftRebuffers,
        DriftSampled, Plans, ClearAndRebuffer, EnterIdle, ResetScheduler, ResetTiming, vars
  <2>3. CASE Drain
    BY <2>3
    DEF Drain, EvictOldest, CheckSubscriber, SubscriberDetected, SubscriberAwaited,
        SubscriberSettled, SetAnchor, KeepAnchor, FallBackToSequential, WriteSequential,
        DrainEmpty, DrainChunk, LeaveEarly, DropStale, TrimStale, SnapOverGap, RebufferBehind,
        PlaceChunk, ClearAndRebuffer, ResetScheduler, ResetTiming
  <2>4. CASE UNCHANGED vars
    BY <2>4 DEF vars
  <2> QED BY <2>1, <2>2, <2>3, <2>4 DEF Next
<1>3. TypeOK /\ Reach /\ Off /\ [Next]_vars => Reach'
  BY ReachStep
<1>4. Reach => UnreadAudioSurvives
  BY DEF Reach
<1> HIDE DEF Off
<1> QED BY <1>1, <1>2, <1>3, <1>4, TypeInit, TypeNext, ReachInit, PTL DEF Spec

-----------------------------------------------------------------------------
(***************************************************************************)
(* With corrections, scheduled writes reach too far by a chunk's repeats   *)
(* at most.                                                                *)
(***************************************************************************)
\* No read position is ahead of the transmitter; the bound with the repeats.
Overreach == OverreachBounded /\ readPos <= clock /\ seen <= clock

LEMMA OverreachInit == Init => Overreach
BY ConstantsAssumption DEF Init, Overreach, OverreachBounded

\* A step that adds no audio to the schedule and turns no clock back.
LEMMA OverreachKept ==
  ASSUME TypeOK, Overreach, \A f \in ring' : f \in ring \/ f.mark = Sequential,
         clock' = clock, readPos' = readPos, seen' = 0 \/ seen' = seen \/ seen' = readPos
  PROVE  Overreach'
BY DEF TypeOK, Overreach, OverreachBounded

LEMMA LaterOverreach ==
  ASSUME NEW at \in Int, NEW c \in Int, NEW d \in Int, NEW r \in Int, NEW m \in Int,
         at < c + r + m, c <= d
  PROVE  at < d + r + m
OBVIOUS

LEMMA OverreachClock == TypeOK /\ Overreach /\ (Tick \/ ClockJump) => Overreach'
<1> SUFFICES ASSUME TypeOK, Overreach, Tick \/ ClockJump PROVE Overreach'
  OBVIOUS
<1>1. /\ clock \in Nat /\ clock' \in Nat /\ clock <= clock'
      /\ readPos' = readPos \/ readPos' = clock'
      /\ readPos \in Nat /\ seen \in Nat /\ seen' = seen
  BY ConstantsAssumption DEF TypeOK, Tick, ClockJump, task
<1>2. PICK c \in Int, d \in Int, r \in Int, m \in Int :
        c = clock /\ d = clock' /\ r = RingSize /\ m = MaxPerChunk /\ c <= d
  BY <1>1, ConstantsAssumption
<1>3. OverreachBounded'
  <2> SUFFICES ASSUME NEW f \in ring', f.mark # Sequential
               PROVE  f.pos < clock' + RingSize + MaxPerChunk
    BY DEF OverreachBounded
  <2>1. PICK at \in Int : at = f.pos /\ f \in ring
    BY DEF Tick, ClockJump, TypeOK, Frame
  <2>2. at < c + r + m
    BY <1>2, <2>1 DEF Overreach, OverreachBounded
  <2>3. at < d + r + m
    BY <1>2, <2>2, LaterOverreach
  <2> QED BY <1>2, <2>1, <2>3
<1>4. readPos' <= clock' /\ seen' <= clock'
  BY <1>1 DEF Overreach
<1> QED BY <1>3, <1>4 DEF Overreach

\* A write that ends within one ring, and a chunk's repeats, of where it began.
LEMMA WrittenWithinOverreach ==
  ASSUME TypeOK, Overreach, UNCHANGED <<clock, readPos, seen>>,
         NEW pos \in Int, NEW n \in Int, NEW chunk, NEW from, NEW net, NEW mark,
         pos + n <= seen + RingSize + MaxPerChunk, WriteAudio(pos, n, chunk, from, net, mark)
  PROVE  Overreach'
<1>1. ASSUME NEW f \in ring', f.mark # Sequential, f \notin ring
      PROVE  f.pos < clock + RingSize + MaxPerChunk
  <2>1. PICK i \in 0 .. n - 1 : f.pos = pos + i
    BY <1>1 DEF WriteAudio, Uncovered
  <2>2. clock \in Int /\ seen \in Int /\ seen <= clock
    BY DEF TypeOK, Overreach
  <2> QED BY <2>1, <2>2, ConstantsAssumption
<1> QED BY <1>1 DEF Overreach, OverreachBounded

LEMMA OverreachStep == TypeOK /\ Overreach /\ [Next]_vars => Overreach'
<1> SUFFICES ASSUME TypeOK, Overreach, [Next]_vars PROVE Overreach'
  OBVIOUS
<1> USE DEF env, server, task, stage, queue, timing, HandlerDone
<1>1. CASE Tick \/ ClockJump
  BY <1>1, OverreachClock
<1>2. CASE Subscribe \/ Unsubscribe \/ ClockSynchronizes
  BY <1>2, OverreachKept DEF Subscribe, Unsubscribe, ClockSynchronizes
<1>3. CASE Handlers
  BY <1>3, OverreachKept, TimingSilence
  DEF Handlers, StreamStart, RestartIfRunning, StartAtReadHead, StartWaiting, StreamClear,
      StreamEnd, Disconnect, Connect, HandleAudio, CheckDrift, DriftSkipped, DriftRebuffers,
      DriftSampled, ClearAndRebuffer, SnapToLive, vars
<1>4. CASE EvictOldest \/ CheckSubscriber \/ SetAnchor \/ KeepAnchor \/ FallBackToSequential
  BY <1>4, OverreachKept, TimingSilence
  DEF EvictOldest, CheckSubscriber, SubscriberDetected, SubscriberAwaited, SubscriberSettled,
      SetAnchor, KeepAnchor, FallBackToSequential, SnapToLive
<1>5. CASE DrainEmpty \/ LeaveEarly \/ DropStale \/ SnapOverGap \/ RebufferBehind
  BY <1>5, OverreachKept, TimingSilence
  DEF DrainEmpty, LeaveEarly, DropStale, SnapOverGap, RebufferBehind, SnapToLive,
      ClearAndRebuffer
<1>6. CASE WriteSequential
  BY <1>6, OverreachKept DEF WriteSequential, WriteAudio, Uncovered
<1>7. CASE TrimStale
  <2>1. Oldest \in Chunk /\ Target \in Int /\ UNCHANGED <<clock, readPos, seen>>
    BY <1>7, OldestType DEF TrimStale, Draining
  <2> DEFINE remaining == Oldest.frames - (seen - Target)
  <2>2. PICK n \in 1 .. RingSize : n = Oldest.frames
    BY <2>1 DEF Chunk
  <2>3. remaining \in Int /\ seen \in Int /\ seen + remaining <= seen + RingSize + MaxPerChunk
    <3>1. Target - seen < 0 /\ seen \in Int
      BY <1>7 DEF TrimStale, Overlapping, TypeOK
    <3>2. n - (seen - Target) \in Int
          /\ seen + (n - (seen - Target)) <= seen + RingSize + MaxPerChunk
      BY <2>1, <2>2, <3>1, ConstantsAssumption
    <3> QED BY <2>2, <3>1, <3>2
  <2>4. WriteAudio(seen, remaining, Oldest, seen - Target, 0, anchor.us)
    BY <1>7 DEF TrimStale
  <2> QED BY <2>1, <2>3, <2>4, WrittenWithinOverreach
<1>8. CASE PlaceChunk
  <2>1. Oldest \in Chunk /\ Target \in Int /\ UNCHANGED <<clock, readPos, seen>>
    BY <1>8, OldestType DEF PlaceChunk, Placeable, Draining
  <2>2. PICK n \in 1 .. RingSize : n = Oldest.frames
    BY <2>1 DEF Chunk
  <2>3. PICK net \in Corrections(Oldest.frames) :
          WriteAudio(Target, n + net, Oldest, 0, net, anchor.us)
    BY <1>8, <2>2 DEF PlaceChunk
  <2>4. net \in Int /\ net <= MaxPerChunk
    BY <2>2, ConstantsAssumption DEF Corrections, Smaller
  <2>5. n + net \in Int /\ Target + (n + net) <= seen + RingSize + MaxPerChunk
    <3>1. ~(Target - seen > RingSize - n) /\ seen \in Int
      BY <1>8, <2>2 DEF PlaceChunk, Placeable, TooEarly, TypeOK
    <3> QED BY <2>1, <2>4, <3>1, ConstantsAssumption
  <2> QED BY <2>1, <2>3, <2>5, WrittenWithinOverreach
<1>9. CASE UNCHANGED vars
  BY <1>9, OverreachKept DEF vars
<1> QED
  BY <1>1, <1>2, <1>3, <1>4, <1>5, <1>6, <1>7, <1>8, <1>9 DEF Next, Environment, Drain, DrainChunk

\* Between any clocks, with corrections, a scheduled write ends at most one
\* chunk's repeats beyond one ring from what the transmitter plays.
THEOREM OverreachHolds == Spec => []OverreachBounded
<1>1. Overreach => OverreachBounded
  BY DEF Overreach
<1> QED BY <1>1, TypeInit, TypeNext, OverreachInit, OverreachStep, PTL DEF Spec

-----------------------------------------------------------------------------
(***************************************************************************)
(* Corrections answer the drift.                                           *)
(***************************************************************************)
\* A schedule in force answers the drift filtered from the samples in store.
Planned ==
  schedule # "off" =>
    /\ Len(driftHistory) = 3
    /\ schedule = "insert" => MedianDriftSample(driftHistory) > 0
    /\ schedule = "drop" => MedianDriftSample(driftHistory) < 0

LEMMA PlannedInit == Init => Planned
BY DEF Init, Planned

LEMMA PlannedStep == TypeOK /\ Planned /\ [Next]_vars => Planned'
<1> SUFFICES ASSUME TypeOK, Planned, [Next]_vars PROVE Planned'
  OBVIOUS
<1> USE DEF env, server, task, stage, queue, timing
<1>1. CASE UNCHANGED <<schedule, driftHistory>>
  BY <1>1 DEF Planned
<1>2. CASE schedule' = "off"
  BY <1>2 DEF Planned
<1>3. CASE DriftSampled
  <2>1. CASE Len(NewHistory) < 3 /\ UNCHANGED schedule
    <3>1. CASE schedule = "off"
      BY <1>2, <2>1, <3>1
    <3>2. CASE schedule # "off"
      <4>1. driftHistory \in Seq(Int) /\ Len(driftHistory) = 3
        BY <3>2 DEF TypeOK, Planned
      <4>2. PICK x : x = RawDrift
        OBVIOUS
      <4>3. PICK grown : grown = Append(driftHistory, x)
        OBVIOUS
      <4>4. x \in Int
        BY <1>3, <4>2, RawDriftType
      <4>5. grown \in Seq(Int) /\ Len(grown) = 4
        <5>1. Append(driftHistory, x) \in Seq(Int)
              /\ Len(Append(driftHistory, x)) = Len(driftHistory) + 1
          BY <4>1, <4>4, AppendProperties
        <5> QED BY <4>1, <4>3, <5>1
      <4>6. Len(Tail(grown)) = 3
        BY <4>5, HeadTailProperties
      <4>7. Len(NewHistory) = 3
        BY <4>2, <4>3, <4>5, <4>6 DEF NewHistory
      <4> QED BY <2>1, <4>7
    <3> QED BY <3>1, <3>2
  <2>2. CASE /\ Len(NewHistory) = 3
             /\ IF WithinThreshold(MedianDriftSample(NewHistory)) THEN UNCHANGED schedule
                ELSE schedule' \in Plans(MedianDriftSample(NewHistory))
    <3>1. CASE schedule' = "off"
      BY <1>2, <3>1
    <3>2. CASE schedule' # "off"
      <4>1. schedule' \in Plans(MedianDriftSample(NewHistory))
        BY <2>2, <3>2 DEF WithinThreshold
      <4>2. driftHistory' = NewHistory
        BY <1>3 DEF DriftSampled
      <4> QED BY <2>2, <4>1, <4>2 DEF Plans, Planned
    <3> QED BY <3>1, <3>2
  <2> QED BY <1>3, <2>1, <2>2 DEF DriftSampled
<1>4. CASE Environment
  BY <1>1, <1>4 DEF Environment, Tick, ClockJump, Subscribe, Unsubscribe, ClockSynchronizes
<1>5. CASE Handlers /\ ~DriftSampled
  BY <1>1, <1>2, <1>5
  DEF Handlers, StreamStart, RestartIfRunning, StartAtReadHead, StartWaiting, StreamClear,
      StreamEnd, Disconnect, Connect, HandleAudio, CheckDrift, DriftSkipped, DriftRebuffers,
      ClearAndRebuffer, EnterIdle, ResetScheduler, ResetTiming, vars
<1>6. CASE Drain
  BY <1>1, <1>2, <1>6
  DEF Drain, EvictOldest, CheckSubscriber, SubscriberDetected, SubscriberAwaited,
      SubscriberSettled, SetAnchor, KeepAnchor, FallBackToSequential, WriteSequential,
      DrainEmpty, DrainChunk, LeaveEarly, DropStale, TrimStale, SnapOverGap, RebufferBehind,
      PlaceChunk, ClearAndRebuffer, ResetScheduler, ResetTiming
<1>7. CASE UNCHANGED vars
  BY <1>1, <1>7 DEF vars
<1> QED BY <1>3, <1>4, <1>5, <1>6, <1>7 DEF Next

\* Three samples have a median.
LEMMA MedianType ==
  ASSUME NEW s \in Seq(Int), Len(s) = 3
  PROVE  MedianDriftSample(s) \in Int
<1>1. \A i \in 1 .. Len(s) : s[i] \in Int
  BY ElementOfSeq
<1>2. s[1] \in Int /\ s[2] \in Int /\ s[3] \in Int
  BY <1>1
<1> QED BY <1>2 DEF MedianDriftSample, Larger, Smaller

\* Only a chunk placed with corrections moves an anchor.
LEMMA OnlyCorrectionsMove ==
  ASSUME Next, anchor # NoAnchor, anchor' # NoAnchor, anchor'.pos # anchor.pos
  PROVE  PlaceChunk
<1> USE DEF env, server, task, stage, queue, timing
<1>1. anchor' # anchor
  OBVIOUS
<1>2. ~Environment
  BY <1>1 DEF Environment, Tick, ClockJump, Subscribe, Unsubscribe, ClockSynchronizes
<1>3. ~Handlers
  BY <1>1 DEF Handlers, StreamStart, RestartIfRunning, StartAtReadHead, StartWaiting, StreamClear,
      StreamEnd, Disconnect, Connect, HandleAudio, CheckDrift, DriftSkipped, DriftRebuffers,
      DriftSampled, ClearAndRebuffer, EnterIdle, ResetScheduler, ResetTiming, vars
<1> QED
  BY <1>1, <1>2, <1>3
  DEF Next, Drain, EvictOldest, CheckSubscriber, SubscriberDetected, SubscriberAwaited,
      SubscriberSettled, SetAnchor, KeepAnchor, FallBackToSequential, WriteSequential,
      DrainEmpty, DrainChunk, LeaveEarly, DropStale, TrimStale, SnapOverGap, RebufferBehind,
      ClearAndRebuffer, ResetScheduler, ResetTiming

LEMMA OpposeStep ==
  TypeOK /\ Planned /\ [Next]_vars =>
    [anchor # NoAnchor /\ anchor' # NoAnchor /\ anchor'.pos # anchor.pos =>
       LET drift == MedianDriftSample(driftHistory)
       IN  anchor'.pos > anchor.pos <=> drift > 0]_vars
<1> DEFINE drift == MedianDriftSample(driftHistory)
<1> SUFFICES ASSUME TypeOK, Planned, Next,
                    anchor # NoAnchor, anchor' # NoAnchor, anchor'.pos # anchor.pos
             PROVE  anchor'.pos > anchor.pos <=> drift > 0
  OBVIOUS
<1>1. PlaceChunk
  BY OnlyCorrectionsMove
<1>2. Oldest \in Chunk
  BY <1>1, OldestType DEF PlaceChunk, Placeable, Draining
<1>3. PICK net \in Corrections(Oldest.frames) : anchor' = CorrectedAnchor(net)
  BY <1>1 DEF PlaceChunk
<1>4. PICK at \in Int : at = anchor.pos
  BY DEF TypeOK
<1>5. net \in Int
  BY <1>2, <1>3, ConstantsAssumption DEF Corrections, Smaller, Chunk
<1>6. anchor'.pos = at + net
  BY <1>3, <1>4 DEF CorrectedAnchor, TypeOK
<1>7. schedule \in {"insert", "drop"}
  BY <1>3, <1>4, <1>6 DEF Corrections, TypeOK
<1>8. drift \in Int
  BY <1>7, MedianType DEF Planned, TypeOK
<1>9. CASE schedule = "insert"
  <2>1. net >= 0 /\ drift > 0
    BY <1>3, <1>9 DEF Corrections, Planned
  <2> QED BY <1>4, <1>5, <1>6, <1>8, <2>1
<1>10. CASE schedule = "drop"
  <2>1. net <= 0 /\ drift < 0
    BY <1>3, <1>5, <1>10 DEF Corrections, Planned
  <2> QED BY <1>4, <1>5, <1>6, <1>8, <2>1
<1> QED BY <1>7, <1>9, <1>10

\* Whatever the clocks do, the anchor is moved by corrections only, and always
\* against the median of the three samples in store: no handler leaves a
\* schedule standing whose samples it has discarded.
THEOREM CorrectionsOppose == Spec => CorrectionsOpposeDrift
BY TypeInit, TypeNext, PlannedInit, PlannedStep, OpposeStep, PTL
DEF Spec, CorrectionsOpposeDrift

-----------------------------------------------------------------------------
(***************************************************************************)
(* With clocks of one rate and a steady server nothing is lost, and the    *)
(* scheduler stays ahead of the transmitter under the anchor it has.       *)
(***************************************************************************)

\* A receiver that stays, and a server that sends a contiguous stream ahead of
\* its time: by more than a chunk, and by no more than the ring and the queue
\* have room for.
SteadyServer ==
  /\ ~ReceiverLeaves
  /\ TimestampJumps \subseteq {0}
  /\ MinLead \in Nat \ {0} /\ \A lead \in StartLeads : lead >= MinLead
  /\ \A n \in ChunkSizes : /\ n < MinLead + Prebuffer
                           /\ MaxLead + Prebuffer + n <= RingSize
                           /\ n <= MaxPendingFrames

\* Where the next frame of the stream belongs.
Frontier == (IF pending = <<>> THEN nextTs ELSE Head(pending).ts) + Prebuffer

\* The published position is the current one and the lead is kept.
Punctual ==
  /\ clock = serverNow
  /\ readPos # 0 => subscribed /\ readPos = clock
  /\ nextTs # NotServing => nextTs - serverNow >= MinLead

\* At most one chunk is queued, the last one sent, and only inside a handler.
OneQueued ==
  /\ pc \in {"disconnected", "select"} => pending = <<>>
  /\ pending = <<>> => pendingFrames = 0
  /\ pending # <<>> =>
       /\ Len(pending) = 1
       /\ nextTs # NotServing
       /\ Head(pending).ts + Head(pending).frames = nextTs
       /\ Head(pending).frames \in ChunkSizes
       /\ pendingFrames = Head(pending).frames
       /\ seen # 0 => Head(pending).ts - seen \in MinLead .. MaxLead

\* Chunks are placed under an anchor, at the position the handler loaded.
Anchored ==
  /\ anchor # NoAnchor => pc \in {"disconnected", "select"} \/ seen # 0
  /\ pc = "sequential" => anchor = NoAnchor
  /\ pc = "drain" => seen # 0

\* A settled scheduler has written up to the next frame of the stream.
AtFrontier == settled => anchor # NoAnchor /\ nextTs # NotServing /\ writePos = Frontier

Steady == Punctual /\ OneQueued /\ Anchored /\ AtFrontier

-----------------------------------------------------------------------------
LEMMA SteadyInit == Init => Steady
BY DEF Init, Steady, Punctual, OneQueued, Anchored, AtFrontier

\* Giving everything up keeps the invariant.
LEMMA SteadyReset ==
  ASSUME Steady, UNCHANGED <<clock, serverNow, subscribed, readPos>>,
         pending' = <<>>, pendingFrames' = 0, anchor' = NoAnchor, settled' = FALSE,
         nextTs' # NotServing => nextTs' - serverNow >= MinLead,
         pc' # "drain"
  PROVE  Steady'
BY DEF Steady, Punctual, OneQueued, Anchored, AtFrontier

\* The chunk at the front goes one prebuffer after its timestamp, which is
\* neither too early nor too late.
LEMMA SteadyTarget ==
  ASSUME SameClocks, SteadyServer, TypeOK, Timing, Steady, Draining
  PROVE  /\ Oldest \in Chunk /\ Target \in Int
         /\ Target = Oldest.ts + Prebuffer
         /\ Target + Oldest.frames = nextTs + Prebuffer
         /\ ~TooEarly /\ ~Stale /\ ~Overlapping
<1>1. Oldest \in Chunk /\ Target \in Int /\ pending # <<>> /\ anchor # NoAnchor
  BY OldestType DEF Draining, Timing
<1>2. PICK ts \in Int, n \in ChunkSizes : ts = Oldest.ts /\ n = Oldest.frames
  BY <1>1 DEF Steady, OneQueued, Oldest, Chunk
<1>3. n \in 1 .. RingSize /\ seen \in Nat /\ seen # 0 /\ ts - seen \in MinLead .. MaxLead
      /\ ts + n = nextTs
  BY <1>1, <1>2, ChunkAssumption
  DEF Steady, OneQueued, Anchored, Draining, Oldest, TypeOK
<1>4. PICK at \in Int, us \in Int : at = anchor.pos /\ us = anchor.us
  BY DEF TypeOK
<1>5. at - Prebuffer = us
  <2>1. (at - clock) - Prebuffer = us - serverNow /\ clock = serverNow
    BY <1>1, <1>4 DEF Timing, Steady, Punctual
  <2> QED BY <2>1, ConstantsAssumption DEF TypeOK
<1>6. Target = ts + Prebuffer
  <2>1. Target = at + (ts - us)
    BY <1>2, <1>4, SamePaceIsExact DEF Target, ChunkTarget
  <2> QED BY <1>5, <2>1, ConstantsAssumption
<1>7. ~(Target - seen > RingSize - n)
  BY <1>2, <1>3, <1>6, ConstantsAssumption DEF SteadyServer
<1>8. ~((Target + n) - seen <= 0) /\ ~(Target - seen < 0)
  BY <1>3, <1>6, ConstantsAssumption DEF SteadyServer
<1>9. Target + n = nextTs + Prebuffer
  BY <1>3, <1>6, ConstantsAssumption
<1> QED BY <1>1, <1>2, <1>6, <1>7, <1>8, <1>9 DEF TooEarly, Stale, Overlapping, ChunkEnd

\* Under a settled scheduler it follows what was written last.
LEMMA SteadyIsNext ==
  ASSUME SameClocks, SteadyServer, TypeOK, Timing, Steady, Draining, settled
  PROVE  ~FarAhead /\ ~FarBehind
<1>1. /\ Oldest \in Chunk /\ Target \in Int
      /\ Target = Oldest.ts + Prebuffer
  BY SteadyTarget
<1>2. PICK n \in Nat : n = Oldest.frames
  BY <1>1 DEF Chunk
<1>3. writePos = Target
  BY <1>1 DEF Steady, AtFrontier, Frontier, Oldest, Draining
<1>4. ~(Target - writePos > RingSize \div 2) /\ ~(writePos - Target > n)
  BY <1>1, <1>3, ConstantsAssumption
<1> QED BY <1>2, <1>4 DEF FarAhead, FarBehind

\* Nor is the write position ever out of the ring's reach.
LEMMA SteadyIsAligned ==
  ASSUME SteadyServer, TypeOK, Steady, settled, pc = "select", NEW n \in ChunkSizes,
         ServerSends(nextTs)
  PROVE  ~Misaligned
<1>1. writePos = nextTs + Prebuffer
  BY DEF Steady, OneQueued, AtFrontier, Frontier
<1>2. /\ readPos # 0 => readPos = serverNow
      /\ nextTs - serverNow \in MinLead .. MaxLead
  BY DEF Steady, Punctual, ServerSends
<1>3. MaxLead + Prebuffer + n <= RingSize /\ n \in Nat
  BY ChunkAssumption DEF SteadyServer
<1> SUFFICES ASSUME readPos # 0 PROVE ~(Distance(writePos, readPos) > RingSize)
  BY DEF Misaligned
<1>4. writePos - readPos \in 0 .. RingSize
  BY <1>1, <1>2, <1>3, ConstantsAssumption DEF SteadyServer, TypeOK
<1>5. Distance(writePos, readPos) = writePos - readPos
  BY <1>4 DEF Distance, Magnitude
<1> QED BY <1>4, <1>5, ConstantsAssumption

LEMMA SteadyClock ==
  SameClocks /\ SteadyServer /\ TypeOK /\ Steady /\ Environment => Steady'
<1> SUFFICES ASSUME SameClocks, SteadyServer, TypeOK, Steady, Environment PROVE Steady'
  OBVIOUS
<1> USE DEF server, task, stage, queue, timing
<1>1. UNCHANGED <<nextTs, pc, seen, writePos, pending, pendingFrames, anchor, settled>>
  BY DEF Environment, Tick, ClockJump, Subscribe, Unsubscribe, ClockSynchronizes
<1>2. OneQueued' /\ Anchored' /\ AtFrontier'
  BY <1>1 DEF Steady, OneQueued, Anchored, AtFrontier, Frontier
<1>3. Punctual'
  <2>1. CASE Tick
    <3>1. clock' = clock + 1 /\ serverNow' = serverNow + 1 /\ subscribed' = subscribed
      BY <2>1 DEF Tick, SameClocks
    <3>2. nextTs # NotServing => nextTs - serverNow' >= MinLead
      BY <2>1, <3>1 DEF Tick, SameClocks, ServerKeepsUp
    <3>3. readPos' # 0 => subscribed' /\ readPos' = clock'
      BY <2>1, <3>1 DEF Tick, Steady, Punctual
    <3> QED BY <1>1, <3>1, <3>2, <3>3 DEF Steady, Punctual
  <2>2. CASE Subscribe \/ ClockSynchronizes
    BY <2>2 DEF Subscribe, ClockSynchronizes, Steady, Punctual
  <2>3. ~ClockJump /\ ~Unsubscribe
    BY DEF ClockJump, Unsubscribe, SameClocks, SteadyServer
  <2> QED BY <2>1, <2>2, <2>3 DEF Environment
<1> QED BY <1>2, <1>3 DEF Steady

LEMMA SteadyControl ==
  ASSUME SteadyServer, TypeOK, Steady,
         StreamStart \/ StreamClear \/ StreamEnd \/ Disconnect \/ Connect
  PROVE  Steady'
<1> USE DEF env, server, task, stage, queue, timing
<1>1. CASE StreamStart \/ StreamClear
  <2>1. nextTs' # NotServing => nextTs' - serverNow >= MinLead
    <3>1. CASE nextTs' = nextTs
      BY <3>1 DEF Steady, Punctual
    <3>2. CASE \E lead \in StartLeads : nextTs' = serverNow + lead
      BY <3>2, ConstantsAssumption DEF SteadyServer, TypeOK
    <3> QED BY <1>1, <3>1, <3>2 DEF StreamStart, StreamClear
  <2> QED
    BY <1>1, <2>1, SteadyReset
    DEF StreamStart, StreamClear, ControlEvent, RestartIfRunning, StartAtReadHead, StartWaiting,
        ClearAndRebuffer, ResetScheduler, ResetTiming
<1>2. CASE StreamEnd \/ Disconnect
  BY <1>2, SteadyReset
  DEF StreamEnd, Disconnect, ControlEvent, EnterIdle, ResetScheduler, ResetTiming
<1>3. CASE Connect
  BY <1>3 DEF Connect, Steady, Punctual, OneQueued, Anchored, AtFrontier, Frontier
<1> QED BY <1>1, <1>2, <1>3

LEMMA SteadyAudio ==
  ASSUME SameClocks, SteadyServer, TypeOK, Timing, Steady, HandleAudio
  PROVE  Steady'
<1> USE DEF env, server, task, stage, queue, timing
<1>1. pc = "select" /\ pending = <<>> /\ pendingFrames = 0
  BY DEF HandleAudio, Steady, OneQueued
<1>2. PICK n \in ChunkSizes, jump \in TimestampJumps :
        LET ts == nextTs + jump
            chunk == [ts |-> ts, frames |-> n, epoch |-> epoch]
        IN  /\ ServerSends(ts)
            /\ nextTs' = ts + SamplesToMicros(n)
            /\ \/ /\ Misaligned
                  /\ SnapToLive
                  /\ ResetTiming
                  /\ pending' = <<chunk>>
                  /\ pendingFrames' = n
               \/ /\ ~Misaligned
                  /\ pending' = Append(pending, chunk)
                  /\ pendingFrames' = pendingFrames + n
                  /\ UNCHANGED <<timing, state, writePos, prebufferWritten, ring>>
  BY DEF HandleAudio
<1>3. jump = 0 /\ SamplesToMicros(n) = n /\ n \in 1 .. RingSize
  <2>1. n \in Int
    BY ChunkAssumption
  <2> QED BY <2>1, SamePaceIsExact, ChunkAssumption DEF SteadyServer
<1> DEFINE chunk == [ts |-> nextTs, frames |-> n, epoch |-> epoch]
<1>4. /\ ServerSends(nextTs) /\ nextTs' = nextTs + n
      /\ pending' = <<chunk>> /\ pendingFrames' = n
      /\ \/ Misaligned /\ anchor' = NoAnchor /\ settled' = FALSE
         \/ ~Misaligned /\ UNCHANGED <<anchor, settled, writePos>>
  <2>1. nextTs + jump = nextTs
    BY <1>3 DEF TypeOK
  <2>2. Append(pending, chunk) = <<chunk>> /\ pendingFrames + n = n
    BY <1>1, <1>3
  <2> QED BY <1>2, <1>3, <2>1, <2>2 DEF ResetTiming
<1>5. UNCHANGED <<clock, serverNow, subscribed, readPos>> /\ seen' = readPos /\ pc' = "bound"
  BY DEF HandleAudio
<1>6. Punctual'
  <2>1. nextTs' - serverNow >= MinLead
    BY <1>3, <1>4, ConstantsAssumption DEF ServerSends, TypeOK
  <2> QED BY <1>5, <2>1 DEF Steady, Punctual
<1>7. Len(pending') = 1 /\ Head(pending') = chunk /\ pending' # <<>>
  BY <1>4
<1>8. nextTs' # NotServing
  BY <1>3, <1>4 DEF ServerSends, SteadyServer, TypeOK, NotServing
<1>9. OneQueued'
  <2>1. readPos # 0 => nextTs - readPos \in MinLead .. MaxLead
    BY <1>4 DEF ServerSends, Steady, Punctual
  <2> HIDE DEF chunk
  <2>2. chunk.ts = nextTs /\ chunk.frames = n
    BY DEF chunk
  <2> QED BY <1>4, <1>5, <1>7, <1>8, <2>1, <2>2 DEF OneQueued
<1>10. Anchored'
  BY <1>4, <1>5 DEF Timing, Anchored
<1>11. AtFrontier'
  <2> SUFFICES ASSUME settled' PROVE AtFrontier'
    BY DEF AtFrontier
  <2>1. settled /\ UNCHANGED <<anchor, writePos>>
    BY <1>4
  <2>2. writePos = nextTs + Prebuffer /\ anchor # NoAnchor
    BY <1>1, <2>1 DEF Steady, AtFrontier, Frontier
  <2> QED BY <1>4, <1>7, <1>8, <2>1, <2>2 DEF AtFrontier, Frontier
<1> QED BY <1>6, <1>9, <1>10, <1>11 DEF Steady

\* A queue of one chunk is within its bounds.
LEMMA SteadyIsWithin ==
  ASSUME SteadyServer, TypeOK, Steady, pending # <<>>
  PROVE  ~OverBound
<1>1. PICK n \in ChunkSizes : n = pendingFrames /\ Len(pending) = 1
  BY DEF Steady, OneQueued
<1>2. n <= MaxPendingFrames /\ n \in Nat /\ 1 <= MaxPendingChunks
  BY ChunkAssumption, ConstantsAssumption DEF SteadyServer
<1> QED BY <1>1, <1>2, ConstantsAssumption DEF OverBound

LEMMA SteadyReceive ==
  ASSUME SteadyServer, TypeOK, Timing, Steady,
         EvictOldest \/ CheckSubscriber \/ SetAnchor \/ KeepAnchor \/ FallBackToSequential
  PROVE  Steady'
<1> USE DEF env, server, task, stage, queue, timing
<1>1. ~EvictOldest
  BY SteadyIsWithin DEF EvictOldest, PopPendingFront
<1>2. CASE CheckSubscriber
  <2>1. CASE SubscriberDetected
    BY <1>2, <2>1, SteadyReset
    DEF CheckSubscriber, SubscriberDetected, ResetScheduler, ResetTiming, Steady, Punctual
  <2>2. CASE SubscriberAwaited \/ SubscriberSettled
    BY <1>2, <2>2
    DEF CheckSubscriber, SubscriberAwaited, SubscriberSettled, Steady, Punctual, OneQueued,
        Anchored, AtFrontier, Frontier
  <2> QED BY <1>2, <2>1, <2>2 DEF CheckSubscriber
<1>3. CASE SetAnchor
  BY <1>3 DEF SetAnchor, Steady, Punctual, OneQueued, Anchored, AtFrontier, Frontier
<1>4. CASE KeepAnchor
  BY <1>4 DEF KeepAnchor, Steady, Punctual, OneQueued, Anchored, AtFrontier, Frontier
<1>5. CASE FallBackToSequential
  BY <1>5 DEF FallBackToSequential, Steady, Punctual, OneQueued, Anchored, AtFrontier, Frontier
<1> QED BY <1>1, <1>2, <1>3, <1>4, <1>5

LEMMA SteadyDrift ==
  ASSUME Steady, CheckDrift
  PROVE  Steady'
<1> USE DEF env, server, task, stage, queue, timing
<1>1. CASE DriftRebuffers
  BY <1>1, SteadyReset
  DEF DriftRebuffers, DriftCheckable, ClearAndRebuffer, ResetScheduler, ResetTiming,
      Steady, Punctual
<1>2. CASE DriftSkipped \/ DriftSampled
  BY <1>2 DEF DriftSkipped, DriftSampled, vars, Steady, Punctual, OneQueued, Anchored,
              AtFrontier, Frontier
<1> QED BY <1>1, <1>2 DEF CheckDrift

\* What is taken off the queue was all there was.
LEMMA SteadyPop ==
  ASSUME TypeOK, Steady, PopPendingFront
  PROVE  pending' = <<>> /\ pendingFrames' = 0
<1>1. /\ pending \in Seq(Chunk) /\ pending # <<>> /\ Len(pending) = 1
      /\ pending' = Tail(pending)
      /\ pendingFrames' = Larger(pendingFrames - Head(pending).frames, 0)
  BY DEF TypeOK, PopPendingFront, Steady, OneQueued
<1>2. pending' = <<>>
  BY <1>1
<1>3. PICK n \in Nat : n = pendingFrames /\ n = Head(pending).frames
  BY <1>1 DEF TypeOK, Steady, OneQueued
<1>4. n - n = 0
  OBVIOUS
<1> QED BY <1>1, <1>2, <1>3, <1>4 DEF Larger

LEMMA SteadyDrain ==
  ASSUME SameClocks, SteadyServer, TypeOK, Timing, Steady,
         WriteSequential \/ DrainEmpty \/ DrainChunk
  PROVE  Steady'
<1> USE DEF env, server, task, stage, queue, timing, HandlerDone
<1>1. CASE WriteSequential
  <2>1. pending' = <<>> /\ pendingFrames' = 0
    BY <1>1, SteadyPop DEF WriteSequential
  <2>2. anchor = NoAnchor /\ UNCHANGED <<clock, serverNow, subscribed, readPos, nextTs, pc, seen,
                                         anchor, settled>>
    BY <1>1 DEF WriteSequential, Steady, Anchored
  <2> QED BY <1>1, <2>1, <2>2
          DEF WriteSequential, Steady, Punctual, OneQueued, Anchored, AtFrontier
<1>2. CASE DrainEmpty
  BY <1>2 DEF DrainEmpty, Steady, Punctual, OneQueued, Anchored, AtFrontier, Frontier
<1>3. ~LeaveEarly /\ ~DropStale /\ ~TrimStale
  BY SteadyTarget DEF LeaveEarly, DropStale, TrimStale
<1>4. CASE SnapOverGap \/ RebufferBehind
  BY <1>4, SteadyReset
  DEF SnapOverGap, RebufferBehind, ClearAndRebuffer, ResetScheduler, ResetTiming,
      Steady, Punctual
<1>5. CASE PlaceChunk
  <2>1. /\ Oldest \in Chunk /\ Target \in Int /\ Draining
        /\ Target + Oldest.frames = nextTs + Prebuffer
    BY <1>5, SteadyTarget DEF PlaceChunk, Placeable
  <2>2. pending' = <<>> /\ pendingFrames' = 0
    BY <1>5, SteadyPop DEF PlaceChunk
  <2>3. PICK n \in Nat : n = Oldest.frames
    BY <2>1 DEF Chunk
  <2>4. /\ anchor' = CorrectedAnchor(0)
        /\ writePos' = Larger(IF FarAhead THEN Target ELSE writePos, Target + (n + 0))
    BY <1>5, <2>3 DEF PlaceChunk, Corrections, Timing
  <2>5. anchor' = anchor
    <3>1. PICK at \in Int : at = anchor.pos
      BY DEF TypeOK
    <3>2. at + 0 = at
      OBVIOUS
    <3> QED BY <2>4, <3>1, <3>2 DEF CorrectedAnchor, TypeOK
  <2>6. writePos' = Target + n
    <3>1. ~(writePos - Target > n) /\ writePos \in Int
      BY <1>5, <2>3 DEF PlaceChunk, FarBehind, TypeOK
    <3> QED BY <2>1, <2>3, <2>4, <3>1 DEF Larger
  <2>7. /\ UNCHANGED <<clock, serverNow, subscribed, readPos, nextTs, pc, seen>>
        /\ pc = "drain" /\ anchor # NoAnchor /\ nextTs # NotServing
    BY <1>5, <2>1 DEF PlaceChunk, Draining, Timing, Steady, OneQueued
  <2>8. Punctual' /\ OneQueued' /\ Anchored'
    BY <2>2, <2>5, <2>7 DEF Steady, Punctual, OneQueued, Anchored
  <2>9. AtFrontier'
    BY <2>1, <2>2, <2>3, <2>5, <2>6, <2>7 DEF AtFrontier, Frontier
  <2> QED BY <2>8, <2>9 DEF Steady
<1> QED BY <1>1, <1>2, <1>3, <1>4, <1>5 DEF DrainChunk

LEMMA SteadyStep ==
  SameClocks /\ SteadyServer /\ TypeOK /\ Timing /\ Steady /\ [Next]_vars => Steady'
<1> SUFFICES ASSUME SameClocks, SteadyServer, TypeOK, Timing, Steady, [Next]_vars PROVE Steady'
  OBVIOUS
<1>1. CASE Environment
  BY <1>1, SteadyClock
<1>2. CASE Handlers
  BY <1>2, SteadyControl, SteadyAudio, SteadyDrift DEF Handlers
<1>3. CASE Drain
  BY <1>3, SteadyReceive, SteadyDrain DEF Drain
<1>4. CASE UNCHANGED vars
  BY <1>4 DEF vars, env, server, task, stage, queue, timing, Steady, Punctual, OneQueued,
              Anchored, AtFrontier, Frontier
<1> QED BY <1>1, <1>2, <1>3, <1>4 DEF Next

LEMMA SteadyIsAhead ==
  ASSUME SteadyServer, TypeOK, Steady
  PROVE  RunningStaysAhead
<1> SUFFICES ASSUME settled PROVE clock < writePos
  BY DEF RunningStaysAhead
<1>1. nextTs - clock >= MinLead /\ writePos = Frontier /\ nextTs \in Int /\ clock \in Nat
  BY DEF Steady, Punctual, AtFrontier, TypeOK
<1>2. CASE pending = <<>>
  BY <1>1, <1>2, ConstantsAssumption DEF Frontier, SteadyServer
<1>3. CASE pending # <<>>
  <2>1. Head(pending) \in Chunk
    BY <1>3, HeadTailProperties DEF TypeOK
  <2>2. PICK ts \in Int, n \in ChunkSizes : ts = Head(pending).ts /\ n = Head(pending).frames
    BY <1>3, <2>1 DEF Steady, OneQueued, Chunk
  <2>3. ts + n = nextTs /\ writePos = ts + Prebuffer /\ n < MinLead + Prebuffer /\ n \in Nat
    BY <1>1, <1>3, <2>2, ChunkAssumption DEF Steady, OneQueued, Frontier, SteadyServer
  <2> QED BY <1>1, <2>3, ConstantsAssumption
<1> QED BY <1>2, <1>3

\* No such sample asks for a new anchor.
LEMMA NoRebuffer ==
  ASSUME SameClocks, TypeOK, Timing
  PROVE  ~DriftRebuffers
<1> SUFFICES ASSUME DriftRebuffers PROVE FALSE
  OBVIOUS
<1>1. anchor # NoAnchor
  BY DEF DriftRebuffers, DriftCheckable
<1>2. RawDrift = 0 /\ (Len(NewHistory) = 3 => MedianDriftSample(NewHistory) = 0)
  BY <1>1, SamplesAreZero
<1>3. ~DriftAnomaly(0) /\ WithinThreshold(0)
  <2>1. ~(0 > RingSize \div 4) /\ 0 <= DriftThreshold
    BY ConstantsAssumption
  <2>2. Magnitude(0) = 0 /\ schedule = "off"
    BY DEF Magnitude, Timing
  <2> QED BY <2>1, <2>2 DEF DriftAnomaly, WithinThreshold
<1> QED BY <1>2, <1>3 DEF DriftRebuffers

LEMMA KeepsStep ==
  SameClocks /\ SteadyServer /\ TypeOK /\ Timing /\ Steady /\ [Next]_vars =>
    [settled /\ anchor' # anchor => epoch' # epoch \/ state = "WaitingForSubscriber"]_vars
<1> SUFFICES ASSUME SameClocks, SteadyServer, TypeOK, Timing, Steady, Next,
                    settled, anchor' # anchor
             PROVE  epoch' # epoch \/ state = "WaitingForSubscriber"
  OBVIOUS
<1> USE DEF env, server, task, stage, queue, timing
<1>1. anchor # NoAnchor
  BY DEF Steady, AtFrontier
<1>2. CASE Environment
  BY <1>2 DEF Environment, Tick, ClockJump, Subscribe, Unsubscribe, ClockSynchronizes
<1>3. CASE StreamStart \/ StreamClear \/ StreamEnd \/ Disconnect \/ Connect
  <2>1. epoch + 1 # epoch
    BY DEF TypeOK
  <2> QED
    BY <1>3, <2>1 DEF StreamStart, StreamClear, StreamEnd, Disconnect, Connect, ControlEvent
<1>4. CASE HandleAudio
  <2>1. PICK n \in ChunkSizes, jump \in TimestampJumps :
          ServerSends(nextTs + jump) /\ (Misaligned \/ UNCHANGED timing)
    BY <1>4 DEF HandleAudio
  <2>2. nextTs + jump = nextTs
    BY DEF SteadyServer, TypeOK
  <2> QED BY <1>4, <2>1, <2>2, SteadyIsAligned DEF HandleAudio
<1>5. CASE CheckDrift
  BY <1>1, <1>5, NoRebuffer DEF CheckDrift, DriftSkipped, DriftSampled, vars
<1>6. CASE EvictOldest \/ CheckSubscriber \/ SetAnchor \/ KeepAnchor \/ FallBackToSequential
  BY <1>1, <1>6
  DEF EvictOldest, CheckSubscriber, SubscriberDetected, SubscriberAwaited, SubscriberSettled,
      SetAnchor, KeepAnchor, FallBackToSequential
<1>7. CASE WriteSequential \/ DrainEmpty \/ LeaveEarly \/ DropStale \/ TrimStale
  BY <1>7 DEF WriteSequential, DrainEmpty, LeaveEarly, DropStale, TrimStale
<1>8. ~SnapOverGap /\ ~RebufferBehind
  BY SteadyIsNext DEF SnapOverGap, RebufferBehind, Placeable
<1>9. CASE PlaceChunk
  <2>1. anchor' = CorrectedAnchor(0)
    BY <1>9 DEF PlaceChunk, Corrections, Timing
  <2>2. PICK at \in Int : at = anchor.pos
    BY DEF TypeOK
  <2>3. at + 0 = at
    OBVIOUS
  <2> QED BY <2>1, <2>2, <2>3 DEF CorrectedAnchor, TypeOK
<1> QED BY <1>2, <1>3, <1>4, <1>5, <1>6, <1>7, <1>8, <1>9 DEF Next, Handlers, Drain, DrainChunk

\* With clocks of one rate, a server that keeps its lead and a receiver that
\* stays, a settled bridge has always written beyond what the transmitter plays:
\* no sequence of control events, connection losses and subscriptions starves it.
THEOREM StaysAhead == ASSUME SameClocks, SteadyServer PROVE Spec => []RunningStaysAhead
<1>1. Init => Timing
  BY TimingInit
<1>2. TypeOK /\ Timing /\ [Next]_vars => Timing'
  BY TimingStep
<1>3. TypeOK /\ Timing /\ Steady /\ [Next]_vars => Steady'
  BY SteadyStep
<1>4. TypeOK /\ Steady => RunningStaysAhead
  BY SteadyIsAhead
<1> QED BY <1>1, <1>2, <1>3, <1>4, SteadyInit, TypeInit, TypeNext, PTL DEF Spec

\* Under the same conditions none of the guards against misplacement fires on a
\* settled scheduler: it keeps its anchor until a control event, or until the
\* subscriber it waits for is found.
THEOREM KeepsAnchor == ASSUME SameClocks, SteadyServer PROVE Spec => HealthyLeadKeepsAnchor
<1>1. Init => Timing
  BY TimingInit
<1>2. TypeOK /\ Timing /\ [Next]_vars => Timing'
  BY TimingStep
<1>3. TypeOK /\ Timing /\ Steady /\ [Next]_vars => Steady'
  BY SteadyStep
<1>4. TypeOK /\ Timing /\ Steady /\ [Next]_vars =>
        [settled /\ anchor' # anchor => epoch' # epoch \/ state = "WaitingForSubscriber"]_vars
  BY KeepsStep
<1> QED BY <1>1, <1>2, <1>3, <1>4, SteadyInit, TypeInit, TypeNext, PTL
    DEF Spec, HealthyLeadKeepsAnchor

\* Every step of a steady bridge passes each chunk on whole.
LEMMA WholeStep ==
  ASSUME SameClocks, SteadyServer, TypeOK, Timing, Steady
  PROVE  ~EvictOldest /\ ~LeaveEarly /\ ~DropStale /\ ~TrimStale /\ ~SnapOverGap
<1>1. ~EvictOldest
  BY SteadyIsWithin DEF EvictOldest, PopPendingFront
<1>2. ~LeaveEarly /\ ~DropStale /\ ~TrimStale
  BY SteadyTarget DEF LeaveEarly, DropStale, TrimStale
<1>3. ~SnapOverGap
  BY SteadyIsNext DEF SnapOverGap, Placeable
<1> QED BY <1>1, <1>2, <1>3

\* With clocks of one rate, a server that keeps its lead and a receiver that
\* stays, no chunk is evicted, left in the queue, dropped as stale, trimmed or
\* given up for a gap, before the scheduler has settled as well as after it.
THEOREM NothingDropped ==
  ASSUME SameClocks, SteadyServer
  PROVE  Spec => [][~EvictOldest /\ ~LeaveEarly /\ ~DropStale /\ ~TrimStale /\ ~SnapOverGap]_vars
<1>1. Init => Timing
  BY TimingInit
<1>2. TypeOK /\ Timing /\ [Next]_vars => Timing'
  BY TimingStep
<1>3. TypeOK /\ Timing /\ Steady /\ [Next]_vars => Steady'
  BY SteadyStep
<1>4. TypeOK /\ Timing /\ Steady =>
        [~EvictOldest /\ ~LeaveEarly /\ ~DropStale /\ ~TrimStale /\ ~SnapOverGap]_vars
  BY WholeStep
<1> QED BY <1>1, <1>2, <1>3, <1>4, SteadyInit, TypeInit, TypeNext, PTL DEF Spec

-----------------------------------------------------------------------------
(***************************************************************************)
(* Truncated positions: where a chunk ends and where the next one begins.  *)
(***************************************************************************)
\* A quotient rounded toward zero is within one divisor of what was divided.
LEMMA TruncBounds ==
  ASSUME NEW a \in Int, NEW b \in Nat \ {0}
  PROVE  /\ TruncDiv(a, b) \in Int
         /\ a >= 0 => b * TruncDiv(a, b) <= a /\ a < b * TruncDiv(a, b) + b
         /\ a < 0 => b * TruncDiv(a, b) - b < a /\ a <= b * TruncDiv(a, b)
<1>1. CASE a >= 0
  <2> DEFINE q == a \div b
             r == a % b
  <2>1. q \in Int /\ r \in 0 .. b - 1 /\ a = b * q + r
    OBVIOUS
  <2>2. b * q <= a /\ a < b * q + b
    BY <2>1
  <2>3. TruncDiv(a, b) = q
    BY <1>1 DEF TruncDiv
  <2> HIDE DEF q, r
  <2> QED BY <1>1, <2>1, <2>2, <2>3
<1>2. CASE a < 0
  <2> DEFINE q == (-a) \div b
             r == (-a) % b
  <2>1. q \in Int /\ r \in 0 .. b - 1 /\ -a = b * q + r
    OBVIOUS
  <2>2. TruncDiv(a, b) = -q
    BY <1>2 DEF TruncDiv
  <2> HIDE DEF q, r
  <2>3. b * (-q) = -(b * q)
    BY <2>1
  <2>4. b * q \in Int
    BY <2>1
  <2> QED BY <1>2, <2>1, <2>2, <2>3, <2>4
<1> QED BY <1>1, <1>2

\* A positive factor cancels.
LEMMA FactorCancels ==
  ASSUME NEW b \in Nat \ {0}, NEW x \in Int, NEW y \in Int, b * x < b * y
  PROVE  x < y
<1>1. CASE x >= y
  <2>1. b * x >= b * y
    BY <1>1
  <2> QED BY <2>1
<1> QED BY <1>1

\* Adding less than n divisors moves the quotient on by at most n, and by at
\* most two less than n if no more than one divisor is missing.
LEMMA TruncAdd ==
  ASSUME NEW a \in Int, NEW e \in Nat, NEW b \in Nat \ {0}, NEW n \in Nat, e <= n * b
  PROVE  /\ TruncDiv(a + e, b) <= TruncDiv(a, b) + n
         /\ n * b <= e + b => TruncDiv(a + e, b) >= TruncDiv(a, b) + n - 2
<1> DEFINE p == TruncDiv(a, b)
           q == TruncDiv(a + e, b)
<1>1. /\ p \in Int /\ q \in Int
      /\ a >= 0 => b * p <= a /\ a < b * p + b
      /\ a < 0 => b * p - b < a /\ a <= b * p
      /\ a + e >= 0 => b * q <= a + e /\ a + e < b * q + b
      /\ a + e < 0 => b * q - b < a + e /\ a + e <= b * q
  BY TruncBounds
<1> HIDE DEF p, q
<1>2. PICK bp \in Int, bq \in Int, bn \in Int : bp = b * p /\ bq = b * q /\ bn = n * b
  BY <1>1
<1>3. b * (p + n + 1) = bp + bn + b /\ b * (q + 3) = bq + 3 * b /\ b * (p + n) = bp + bn
  BY <1>1, <1>2
<1>4. q <= p + n
  <2>1. bq < bp + bn + b
    BY <1>1, <1>2
  <2>2. b * q < b * (p + n + 1)
    BY <1>2, <1>3, <2>1
  <2>3. q < p + n + 1
    BY <1>1, <2>2, FactorCancels
  <2> QED BY <1>1, <2>3
<1>5. ASSUME n * b <= e + b PROVE q >= p + n - 2
  <2>1. bp + bn < bq + 3 * b
    BY <1>1, <1>2, <1>5
  <2>2. b * (p + n) < b * (q + 3)
    BY <1>2, <1>3, <2>1
  <2>3. p + n < q + 3
    BY <1>1, <2>2, FactorCancels
  <2> QED BY <1>1, <2>3
<1> QED BY <1>4, <1>5 DEF p, q

\* A chunk's length in microseconds is less than a frame short of its length.
LEMMA LengthBounds ==
  ASSUME NEW n \in Nat
  PROVE  /\ SamplesToMicros(n) \in Nat
         /\ SamplesToMicros(n) * RateNum <= n * RateDen
         /\ n * RateDen < SamplesToMicros(n) * RateNum + RateNum
<1>1. PICK N \in Nat \ {0}, D \in Nat \ {0} : N = RateNum /\ D = RateDen
  BY RateAssumption
<1>2. PICK a \in Nat : a = n * D
  BY <1>1
<1> DEFINE d == TruncDiv(a, N)
<1>3. d \in Int /\ N * d <= a /\ a < N * d + N
  BY <1>1, <1>2, TruncBounds
<1>4. d >= 0
  BY <1>1, <1>2 DEF TruncDiv
<1>5. SamplesToMicros(n) = d
  BY <1>1, <1>2 DEF SamplesToMicros
<1> HIDE DEF d
<1>6. N * d = d * N
  BY <1>1, <1>3
<1> QED BY <1>1, <1>2, <1>3, <1>4, <1>5, <1>6

LEMMA NextTargetBounds ==
  ASSUME NEW x \in Int, NEW n \in Nat
  PROVE  /\ MicrosToSamples(x + SamplesToMicros(n)) <= MicrosToSamples(x) + n
         /\ RateNum <= RateDen =>
              MicrosToSamples(x + SamplesToMicros(n)) >= MicrosToSamples(x) + n - 2
<1>1. PICK N \in Nat \ {0}, D \in Nat \ {0} : N = RateNum /\ D = RateDen
  BY RateAssumption
<1>2. PICK d \in Nat : d = SamplesToMicros(n)
  BY LengthBounds
<1>3. d * N <= n * D /\ n * D < d * N + N
  BY <1>1, <1>2, LengthBounds
<1>4. PICK a \in Int, e \in Nat : a = x * N /\ e = d * N
  BY <1>1
<1>5. (x + d) * N = a + e
  BY <1>1, <1>4
<1>6. /\ TruncDiv(a + e, D) <= TruncDiv(a, D) + n
      /\ n * D <= e + D => TruncDiv(a + e, D) >= TruncDiv(a, D) + n - 2
  BY <1>1, <1>3, <1>4, TruncAdd
<1>7. N <= D => n * D <= e + D
  <2>1. n * D \in Int
    BY <1>1
  <2> QED BY <1>1, <1>3, <1>4, <2>1
<1> QED BY <1>1, <1>2, <1>4, <1>5, <1>6, <1>7 DEF MicrosToSamples

\* Where a contiguous stream's next chunk belongs, truncation toward zero
\* included: never beyond the end of the chunk before it, so that no gap is left
\* between them, and at most two frames short of it, at every rate of at most a
\* frame per microsecond and on both sides of the anchor.
THEOREM NeighboursMeet ==
  ASSUME NEW at \in [us : Int, pos : Int, since : Int], NEW ts \in Int, NEW n \in Nat,
         RateNum <= RateDen
  PROVE  ChunkTarget(at, ts + SamplesToMicros(n)) - ChunkTarget(at, ts) \in n - 2 .. n
<1>1. PICK pos \in Int, us \in Int : pos = at.pos /\ us = at.us
  OBVIOUS
<1>2. PICK d \in Int : d = SamplesToMicros(n)
  BY LengthBounds
<1>3. (ts + d) - us = (ts - us) + d /\ ts - us \in Int
  BY <1>1
<1>4. PICK p \in Int, q \in Int : p = MicrosToSamples(ts - us) /\ q = MicrosToSamples((ts - us) + d)
  BY <1>2, <1>3, MicrosToSamplesType
<1>5. q <= p + n /\ q >= p + n - 2
  BY <1>2, <1>3, <1>4, NextTargetBounds
<1> QED BY <1>1, <1>2, <1>3, <1>4, <1>5 DEF ChunkTarget

-----------------------------------------------------------------------------
(***************************************************************************)
(* The settled write position has audio behind it.                         *)
(***************************************************************************)
\* The server's stream is contiguous.
ContiguousStream == TimestampJumps \subseteq {0}

\* The queue is within its bounds.
NoneEvicted == pc = "bound" => ~OverBound

EndOf(chunk) == chunk.ts + SamplesToMicros(chunk.frames)

\* Queued chunks follow one another, and the next one sent follows the last.
Chained ==
  /\ \A i \in 1 .. Len(pending) - 1 : pending[i + 1].ts = EndOf(pending[i])
  /\ pending # <<>> => nextTs = EndOf(pending[Len(pending)])

\* An anchor is taken from a published position and placed under with one.
Rooted ==
  /\ anchor # NoAnchor =>
       /\ anchor.us \in Nat /\ readPos # 0
       /\ pc \in {"disconnected", "select"} \/ seen # 0
  /\ seen # 0 => readPos # 0
  /\ settled => anchor # NoAnchor
  /\ pc = "drain" => anchor # NoAnchor
  /\ pc = "sequential" => anchor = NoAnchor

\* Timestamp of the next frame of the stream that is not written yet.
NextTs == IF pending = <<>> THEN nextTs ELSE Head(pending).ts

\* It belongs no further on than what is written, or is late.
Reached == settled => ChunkTarget(anchor, NextTs) <= Larger(writePos, clock)

Filling == Chained /\ Rooted /\ Reached

-----------------------------------------------------------------------------
LEMMA ChainInit == Init => Chained
<1> SUFFICES ASSUME Init PROVE Chained
  OBVIOUS
<1>1. pending = <<>> /\ Len(pending) = 0
  BY EmptySeq DEF Init
<1> QED BY <1>1 DEF Chained

LEMMA ChainEmpty == pending' = <<>> => Chained'
<1> SUFFICES ASSUME pending' = <<>> PROVE Chained'
  OBVIOUS
<1>1. Len(pending') = 0
  BY EmptySeq
<1> QED BY <1>1 DEF Chained

\* What follows the front chunk begins where that ends.
LEMMA ChainPop ==
  ASSUME TypeOK, Chained, PopPendingFront, nextTs' = nextTs
  PROVE  Chained' /\ NextTs' = EndOf(Head(pending))
<1>1. PICK n \in Nat : n = Len(pending) /\ n >= 1
  BY LenProperties, EmptySeq DEF TypeOK, PopPendingFront
<1>2. /\ pending \in Seq(Chunk) /\ pending # <<>> /\ pending' = Tail(pending)
      /\ Head(pending) = pending[1]
  BY HeadTailProperties DEF TypeOK, PopPendingFront
<1>3. Len(pending') = n - 1 /\ \A i \in 1 .. n - 1 : pending'[i] = pending[i + 1]
  BY <1>1, <1>2, HeadTailProperties
<1>4. CASE n = 1
  <2>1. pending' = <<>>
    <3>1. pending' \in Seq(Chunk) /\ Len(pending') = 0
      BY <1>2, <1>3, <1>4, HeadTailProperties
    <3> QED BY <3>1, EmptySeq
  <2>2. nextTs = EndOf(Head(pending))
    BY <1>1, <1>2, <1>4 DEF Chained
  <2> QED BY <2>1, <2>2, ChainEmpty DEF NextTs
<1>5. CASE n > 1
  <2>1. pending' \in Seq(Chunk) /\ pending' # <<>>
    <3>1. Len(<<>>) = 0 /\ Len(pending') # 0
      BY <1>3, <1>5
    <3> QED BY <1>2, <3>1, HeadTailProperties
  <2>2. Head(pending') = pending[2]
    BY <1>3, <1>5, <2>1, HeadTailProperties
  <2>3. pending[2].ts = EndOf(Head(pending))
    BY <1>1, <1>2, <1>5 DEF Chained
  <2>4. pending'[n - 1] = pending[n] /\ nextTs = EndOf(pending[n])
    <3>1. n - 1 \in 1 .. n - 1 /\ (n - 1) + 1 = n
      BY <1>5
    <3>2. pending'[n - 1] = pending[(n - 1) + 1]
      BY <1>3, <3>1
    <3> QED BY <1>1, <1>2, <3>1, <3>2 DEF Chained
  <2>5. \A i \in 1 .. n - 2 : pending'[i + 1].ts = EndOf(pending'[i])
    <3> SUFFICES ASSUME NEW i \in 1 .. n - 2 PROVE pending'[i + 1].ts = EndOf(pending'[i])
      OBVIOUS
    <3>1. pending'[i] = pending[i + 1] /\ pending'[i + 1] = pending[(i + 1) + 1]
      BY <1>3
    <3>2. i + 1 \in 1 .. n - 1
      OBVIOUS
    <3>3. pending[(i + 1) + 1].ts = EndOf(pending[i + 1])
      BY <1>1, <3>2 DEF Chained
    <3> QED BY <3>1, <3>3
  <2>6. Chained'
    BY <1>3, <1>5, <2>4, <2>5 DEF Chained, EndOf
  <2> QED BY <2>1, <2>2, <2>3, <2>6 DEF NextTs
<1> QED BY <1>1, <1>4, <1>5

\* The next chunk of a contiguous stream follows the last one.
LEMMA ChainPush ==
  ASSUME TypeOK, Chained, NEW chunk \in Chunk, chunk.ts = nextTs,
         pending' = Append(pending, chunk), nextTs' = EndOf(chunk)
  PROVE  Chained' /\ NextTs' = NextTs
<1>1. PICK n \in Nat : n = Len(pending)
  BY LenProperties DEF TypeOK
<1>2. pending \in Seq(Chunk)
  BY DEF TypeOK
<1>3. /\ Len(pending') = n + 1 /\ pending'[n + 1] = chunk /\ pending' # <<>>
      /\ \A i \in 1 .. n : pending'[i] = pending[i]
      /\ pending' \in Seq(Chunk)
  BY <1>1, <1>2, AppendProperties
<1>4. \A i \in 1 .. n : pending'[i + 1].ts = EndOf(pending'[i])
  <2> SUFFICES ASSUME NEW i \in 1 .. n PROVE pending'[i + 1].ts = EndOf(pending'[i])
    OBVIOUS
  <2>1. CASE i = n
    <3>1. pending # <<>>
      BY <1>1, <2>1, EmptySeq
    <3> QED BY <1>1, <1>3, <2>1, <3>1 DEF Chained
  <2>2. CASE i # n
    <3>1. i \in 1 .. n - 1 /\ i + 1 \in 1 .. n
      BY <2>2
    <3>2. pending[i + 1].ts = EndOf(pending[i])
      BY <1>1, <3>1 DEF Chained
    <3> QED BY <1>3, <3>1, <3>2
  <2> QED BY <2>1, <2>2
<1>5. Chained'
  BY <1>3, <1>4 DEF Chained, EndOf
<1>6. NextTs' = NextTs
  <2>1. CASE pending = <<>>
    BY <1>3, <2>1 DEF NextTs
  <2>2. CASE pending # <<>>
    <3>1. Head(pending) = pending[1] /\ Head(pending') = pending'[1] /\ n >= 1
      BY <1>1, <1>2, <1>3, <2>2, HeadTailProperties, EmptySeq
    <3> QED BY <1>3, <2>2, <3>1 DEF NextTs
  <2> QED BY <2>1, <2>2
<1> QED BY <1>5, <1>6

LEMMA ChainStep == ContiguousStream /\ TypeOK /\ Chained /\ [Next]_vars => Chained'
<1> SUFFICES ASSUME ContiguousStream, TypeOK, Chained, [Next]_vars PROVE Chained'
  OBVIOUS
<1> USE DEF env, server, task, stage, queue, timing
<1>1. CASE UNCHANGED <<pending, nextTs>>
  BY <1>1 DEF Chained, EndOf
<1>2. CASE pending' = <<>>
  BY <1>2, ChainEmpty
<1>3. CASE PopPendingFront /\ nextTs' = nextTs
  BY <1>3, ChainPop
<1>4. CASE HandleAudio
  <2>1. PICK n \in ChunkSizes, jump \in TimestampJumps :
          LET chunk == [ts |-> nextTs + jump, frames |-> n, epoch |-> epoch]
          IN  /\ nextTs' = nextTs + jump + SamplesToMicros(n)
              /\ \/ pending' = <<chunk>>
                 \/ pending' = Append(pending, chunk)
    BY <1>4 DEF HandleAudio
  <2>2. nextTs + jump = nextTs /\ n \in 1 .. RingSize
    BY ChunkAssumption DEF ContiguousStream, TypeOK
  <2> DEFINE chunk == [ts |-> nextTs, frames |-> n, epoch |-> epoch]
  <2>3. chunk \in Chunk /\ chunk.ts = nextTs /\ nextTs' = EndOf(chunk)
    BY <2>1, <2>2 DEF Chunk, TypeOK, EndOf
  <2>4. pending' = <<chunk>> \/ pending' = Append(pending, chunk)
    BY <2>1, <2>2
  <2> HIDE DEF chunk
  <2>5. CASE pending' = <<chunk>>
    <3>1. Len(pending') = 1 /\ pending'[1] = chunk
      BY <2>5
    <3> QED BY <2>3, <3>1 DEF Chained, EndOf
  <2>6. CASE pending' = Append(pending, chunk)
    BY <2>3, <2>6, ChainPush
  <2> QED BY <2>4, <2>5, <2>6
<1>5. CASE Environment
  BY <1>1, <1>5 DEF Environment, Tick, ClockJump, Subscribe, Unsubscribe, ClockSynchronizes
<1>6. CASE StreamStart \/ StreamClear \/ StreamEnd \/ Disconnect
  BY <1>2, <1>6 DEF StreamStart, RestartIfRunning, StartAtReadHead, StartWaiting, StreamClear,
                    StreamEnd, Disconnect, ClearAndRebuffer, EnterIdle, ResetScheduler
<1>7. CASE Connect \/ CheckDrift
  BY <1>1, <1>2, <1>7 DEF Connect, CheckDrift, DriftSkipped, DriftRebuffers, DriftSampled,
                          ClearAndRebuffer, ResetScheduler, vars
<1>8. CASE EvictOldest \/ CheckSubscriber \/ SetAnchor \/ KeepAnchor \/ FallBackToSequential
  BY <1>1, <1>2, <1>3, <1>8
  DEF EvictOldest, CheckSubscriber, SubscriberDetected, SubscriberAwaited,
      SubscriberSettled, ResetScheduler, SetAnchor, KeepAnchor, FallBackToSequential
<1>9. CASE WriteSequential \/ DrainEmpty \/ DrainChunk
  BY <1>1, <1>2, <1>3, <1>9
  DEF WriteSequential, DrainEmpty, DrainChunk, LeaveEarly, DropStale, TrimStale, SnapOverGap,
      RebufferBehind, PlaceChunk, ClearAndRebuffer, ResetScheduler
<1>10. CASE UNCHANGED vars
  BY <1>1, <1>10 DEF vars
<1> QED
  BY <1>4, <1>5, <1>6, <1>7, <1>8, <1>9, <1>10 DEF Next, Handlers, Drain

-----------------------------------------------------------------------------
LEMMA RootedInit == Init => Rooted
BY DEF Init, Rooted, NoAnchor

LEMMA RootedStep == TypeOK /\ Rooted /\ [Next]_vars => Rooted'
<1> SUFFICES ASSUME TypeOK, Rooted, [Next]_vars PROVE Rooted'
  OBVIOUS
<1> USE DEF env, server, task, stage, queue, timing, HandlerDone
<1>1. CASE Environment
  <2>1. clock \in Nat /\ readPos \in Nat /\ (readPos' = readPos \/ readPos' = clock + 1)
    BY <1>1 DEF TypeOK, Environment, Tick, ClockJump, Subscribe, Unsubscribe, ClockSynchronizes
  <2>2. readPos # 0 => readPos' # 0
    BY <2>1
  <2>3. UNCHANGED <<anchor, settled, pc, seen>>
    BY <1>1 DEF Environment, Tick, ClockJump, Subscribe, Unsubscribe, ClockSynchronizes
  <2> QED BY <2>2, <2>3 DEF Rooted
<1>2. CASE StreamStart \/ StreamClear \/ StreamEnd \/ Disconnect
  BY <1>2 DEF Rooted, StreamStart, RestartIfRunning, StartAtReadHead, StartWaiting, StreamClear,
              StreamEnd, Disconnect, ControlEvent, ClearAndRebuffer, EnterIdle, ResetScheduler,
              ResetTiming
<1>3. CASE Connect \/ CheckDrift
  BY <1>3 DEF Rooted, Connect, CheckDrift, DriftSkipped, DriftRebuffers, DriftSampled,
              DriftCheckable, ClearAndRebuffer, ResetScheduler, ResetTiming, vars
<1>4. CASE HandleAudio
  BY <1>4 DEF Rooted, HandleAudio, ResetTiming
<1>5. CASE EvictOldest \/ CheckSubscriber \/ KeepAnchor \/ FallBackToSequential
  BY <1>5
  DEF Rooted, EvictOldest, CheckSubscriber, SubscriberDetected, SubscriberAwaited,
      SubscriberSettled, ResetScheduler, ResetTiming, KeepAnchor, FallBackToSequential
<1>6. CASE SetAnchor
  <2>1. anchor'.us = snapNow /\ snapNow \in Nat /\ anchor' # NoAnchor
    BY <1>6 DEF SetAnchor, AnchorAhead, TypeOK, NoAnchor
  <2> QED BY <1>6, <2>1 DEF SetAnchor, Rooted
<1>7. CASE PlaceChunk
  <2>1. anchor # NoAnchor /\ pc = "drain" /\ settled'
        /\ UNCHANGED <<pc, seen, readPos>>
    BY <1>7 DEF PlaceChunk, Placeable, Draining, Rooted
  <2>2. PICK net : anchor' = CorrectedAnchor(net)
    BY <1>7 DEF PlaceChunk
  <2>3. anchor'.us = anchor.us
    BY <2>2 DEF CorrectedAnchor, TypeOK
  <2>4. anchor' # NoAnchor
    BY <2>1, <2>3 DEF Rooted, NoAnchor
  <2> QED BY <2>1, <2>3, <2>4 DEF Rooted
<1>8. CASE WriteSequential \/ DrainEmpty \/ LeaveEarly \/ DropStale \/ TrimStale \/ SnapOverGap
           \/ RebufferBehind
  BY <1>8
  DEF Rooted, WriteSequential, DrainEmpty, LeaveEarly, DropStale, TrimStale, SnapOverGap,
      RebufferBehind, ClearAndRebuffer, ResetScheduler, ResetTiming
<1>9. CASE UNCHANGED vars
  BY <1>9 DEF vars, Rooted
<1> QED
  BY <1>1, <1>2, <1>3, <1>4, <1>5, <1>6, <1>7, <1>8, <1>9 DEF Next, Handlers, Drain, DrainChunk

-----------------------------------------------------------------------------
LEMMA NextTargetType ==
  TypeOK => NextTs \in Int /\ ChunkTarget(anchor, NextTs) \in Int
<1> SUFFICES ASSUME TypeOK PROVE NextTs \in Int /\ ChunkTarget(anchor, NextTs) \in Int
  OBVIOUS
<1>1. pending # <<>> => Head(pending) \in Chunk
  BY HeadTailProperties DEF TypeOK
<1>2. NextTs \in Int
  BY <1>1 DEF NextTs, TypeOK, Chunk
<1>3. anchor.us \in Int /\ anchor.pos \in Int
  BY DEF TypeOK
<1>4. MicrosToSamples(NextTs - anchor.us) \in Int
  BY <1>2, <1>3, MicrosToSamplesType
<1> QED BY <1>2, <1>3, <1>4 DEF ChunkTarget

\* What follows a chunk belongs no further on than where that ends.
LEMMA FollowsChunk ==
  ASSUME TypeOK, pending # <<>>
  PROVE  ChunkTarget(anchor, EndOf(Head(pending))) <= ChunkEnd
<1>1. Oldest \in Chunk /\ Target \in Int
  BY OldestType
<1>2. PICK n \in Nat, ts \in Int, us \in Int, pos \in Int :
        n = Oldest.frames /\ ts = Oldest.ts /\ us = anchor.us /\ pos = anchor.pos
  BY <1>1 DEF Chunk, TypeOK
<1>3. PICK d \in Int : d = SamplesToMicros(n)
  BY LengthBounds
<1>4. PICK p \in Int, q \in Int : p = MicrosToSamples(ts - us) /\ q = MicrosToSamples((ts - us) + d)
  BY <1>3, MicrosToSamplesType
<1>5. q <= p + n
  <2>1. ts - us \in Int
    OBVIOUS
  <2>2. MicrosToSamples((ts - us) + SamplesToMicros(n)) <= MicrosToSamples(ts - us) + n
    BY <2>1, NextTargetBounds
  <2> QED BY <1>3, <1>4, <2>2
<1>6. (ts + d) - us = (ts - us) + d
  OBVIOUS
<1>7. EndOf(Head(pending)) = ts + d
  BY <1>2, <1>3 DEF EndOf, Oldest
<1>8. ChunkTarget(anchor, EndOf(Head(pending))) = pos + q
  BY <1>2, <1>4, <1>6, <1>7 DEF ChunkTarget
<1>9. ChunkEnd = (pos + p) + n
  BY <1>2, <1>4 DEF ChunkTarget, ChunkEnd, Target
<1> QED BY <1>5, <1>8, <1>9

LEMMA ReachedKept ==
  ASSUME TypeOK, TypeOK', Reached,
         settled' => settled /\ UNCHANGED <<anchor, writePos>> /\ NextTs' = NextTs,
         clock' >= clock
  PROVE  Reached'
<1>1. SUFFICES ASSUME settled' PROVE ChunkTarget(anchor, NextTs) <= Larger(writePos, clock')
  BY DEF Reached, ChunkTarget
<1>2. PICK t \in Int, w \in Int, c \in Int, d \in Int :
        t = ChunkTarget(anchor, NextTs) /\ w = writePos /\ c = clock /\ d = clock'
  <2>1. writePos \in Int /\ clock \in Int /\ clock' \in Int
    BY DEF TypeOK
  <2>2. ChunkTarget(anchor, NextTs) \in Int
    BY NextTargetType
  <2> QED BY <2>1, <2>2
<1>3. t <= Larger(w, c) /\ c <= d
  BY <1>1, <1>2 DEF Reached
<1> QED BY <1>2, <1>3 DEF Larger

LEMMA ReachedPop ==
  ASSUME TypeOK, TypeOK', Overreach, Filling, ContiguousStream, Draining,
         DropStale \/ TrimStale \/ PlaceChunk
  PROVE  Reached'
<1> USE DEF env, server, task, stage, queue, timing
<1>1. pending # <<>> /\ PopPendingFront /\ nextTs' = nextTs /\ clock' = clock
  BY DEF Draining, DropStale, TrimStale, PlaceChunk
<1>2. NextTs' = EndOf(Head(pending))
  BY <1>1, ChainPop DEF Filling
<1>3. PICK t \in Int, n \in Int, u \in Int, w \in Int, v \in Int, c \in Int, s \in Int :
        /\ t = Target /\ n = Oldest.frames /\ u = ChunkTarget(anchor, EndOf(Head(pending)))
        /\ w = writePos /\ v = writePos' /\ c = clock /\ s = seen
  <2>1. Oldest \in Chunk /\ Target \in Int
    BY <1>1, OldestType
  <2>2. EndOf(Head(pending)) \in Int
    BY <2>1, SamplesToMicrosType DEF EndOf, Oldest, Chunk
  <2>3. ChunkTarget(anchor, EndOf(Head(pending))) \in Int
    <3>1. anchor.us \in Int /\ anchor.pos \in Int
      BY DEF TypeOK
    <3> QED BY <2>2, <3>1, MicrosToSamplesType DEF ChunkTarget
  <2>4. writePos \in Int /\ writePos' \in Int /\ clock \in Int /\ seen \in Int
    BY DEF TypeOK
  <2>5. Oldest.frames \in Int
    BY <2>1 DEF Chunk
  <2> QED BY <2>1, <2>3, <2>4, <2>5
<1>4. u <= t + n /\ s <= c
  BY <1>1, <1>3, FollowsChunk DEF ChunkEnd, Overreach
<1>5. CASE DropStale
  <2>1. t + n <= s /\ UNCHANGED <<anchor, writePos, settled>>
    BY <1>3, <1>5 DEF DropStale, Stale, ChunkEnd
  <2>2. u <= Larger(w, c)
    BY <1>4, <2>1 DEF Larger
  <2> QED BY <1>1, <1>2, <1>3, <2>1, <2>2 DEF Reached, ChunkTarget
<1>6. CASE TrimStale
  <2>1. v = Larger(w, t + n) /\ UNCHANGED <<anchor, settled>>
    BY <1>3, <1>6 DEF TrimStale, ChunkEnd
  <2>2. u <= Larger(v, c)
    BY <1>4, <2>1 DEF Larger
  <2> QED BY <1>1, <1>2, <1>3, <2>1, <2>2 DEF Reached, ChunkTarget
<1>7. CASE PlaceChunk
  <2>1. PICK net \in Corrections(Oldest.frames) :
          /\ anchor' = CorrectedAnchor(net)
          /\ writePos' = Larger(IF FarAhead THEN Target ELSE writePos,
                                Target + (Oldest.frames + net))
    BY <1>7 DEF PlaceChunk
  <2>2. net \in Int
    BY <1>3, <2>1, ConstantsAssumption DEF Corrections, Smaller
  <2>3. v >= t + (n + net)
    BY <1>3, <2>1, <2>2 DEF Larger
  <2>4. anchor'.us = anchor.us /\ anchor'.pos = anchor.pos + net
    BY <2>1 DEF CorrectedAnchor, TypeOK
  <2>5. ChunkTarget(anchor', NextTs') = u + net
    <3>1. PICK m \in Int, pos \in Int :
            m = MicrosToSamples(EndOf(Head(pending)) - anchor.us) /\ pos = anchor.pos
      <4>1. Head(pending) \in Chunk
        BY <1>1, HeadTailProperties DEF TypeOK
      <4>2. EndOf(Head(pending)) \in Int
        BY <4>1, SamplesToMicrosType DEF EndOf, Chunk
      <4>3. anchor.us \in Int /\ anchor.pos \in Int
        BY DEF TypeOK
      <4>4. MicrosToSamples(EndOf(Head(pending)) - anchor.us) \in Int
        BY <4>2, <4>3, MicrosToSamplesType
      <4> QED BY <4>3, <4>4
    <3>2. u = pos + m
      BY <1>3, <3>1 DEF ChunkTarget
    <3>3. ChunkTarget(anchor', NextTs') = (pos + net) + m
      BY <1>2, <2>4, <3>1 DEF ChunkTarget
    <3> QED BY <2>2, <3>1, <3>2, <3>3
  <2>6. u + net <= Larger(v, c)
    BY <1>4, <2>2, <2>3 DEF Larger
  <2> QED BY <1>1, <1>3, <2>5, <2>6 DEF Reached
<1> QED BY <1>5, <1>6, <1>7

LEMMA ReachedStep ==
  ASSUME TypeOK, TypeOK', Overreach, Filling, ContiguousStream, NoneEvicted, [Next]_vars
  PROVE  Reached'
<1> USE DEF env, server, task, stage, queue, timing, Filling
<1>1. CASE Environment
  <2>1. clock' >= clock
    <3>1. clock \in Nat
      BY DEF TypeOK
    <3>2. clock' = clock \/ \E d \in Nat : clock' = clock + d
      BY <1>1, ConstantsAssumption
      DEF Environment, Tick, ClockJump, Subscribe, Unsubscribe, ClockSynchronizes
    <3> QED BY <3>1, <3>2
  <2>2. UNCHANGED <<anchor, settled, writePos, pending, nextTs>>
    BY <1>1 DEF Environment, Tick, ClockJump, Subscribe, Unsubscribe, ClockSynchronizes
  <2> QED BY <2>1, <2>2, ReachedKept DEF NextTs
<1>2. CASE StreamStart \/ StreamClear \/ StreamEnd \/ Disconnect
  BY <1>2 DEF Reached, StreamStart, RestartIfRunning, StartAtReadHead, StartWaiting, StreamClear,
              StreamEnd, Disconnect, ClearAndRebuffer, EnterIdle, ResetScheduler, ResetTiming
<1>3. CASE Connect \/ CheckDrift
  <2>1. clock' = clock /\ clock \in Int
    BY <1>3 DEF Connect, CheckDrift, DriftSkipped, DriftRebuffers, DriftSampled, vars, TypeOK
  <2>2. ~settled' \/ UNCHANGED <<anchor, settled, writePos, pending, nextTs>>
    BY <1>3 DEF Connect, CheckDrift, DriftSkipped, DriftRebuffers, DriftSampled,
                ClearAndRebuffer, ResetScheduler, ResetTiming, vars
  <2> QED BY <2>1, <2>2, ReachedKept DEF NextTs
<1>4. CASE HandleAudio
  <2>1. PICK n \in ChunkSizes, jump \in TimestampJumps :
          LET chunk == [ts |-> nextTs + jump, frames |-> n, epoch |-> epoch]
          IN  /\ nextTs' = nextTs + jump + SamplesToMicros(n)
              /\ \/ ~settled'
                 \/ pending' = Append(pending, chunk)
    BY <1>4 DEF HandleAudio, ResetTiming
  <2>2. nextTs + jump = nextTs /\ n \in 1 .. RingSize
    BY ChunkAssumption DEF ContiguousStream, TypeOK
  <2> DEFINE chunk == [ts |-> nextTs, frames |-> n, epoch |-> epoch]
  <2>3. chunk \in Chunk /\ chunk.ts = nextTs /\ nextTs' = EndOf(chunk)
    BY <2>1, <2>2 DEF Chunk, TypeOK, EndOf
  <2>4. settled' => pending' = Append(pending, chunk)
    BY <2>1, <2>2
  <2> HIDE DEF chunk
  <2>5. settled' => NextTs' = NextTs
    BY <2>3, <2>4, ChainPush
  <2>6. settled' => settled /\ UNCHANGED <<anchor, writePos>>
    BY <1>4 DEF HandleAudio, ResetTiming
  <2>7. clock' = clock /\ clock \in Int
    BY <1>4 DEF HandleAudio, TypeOK
  <2> QED BY <2>5, <2>6, <2>7, ReachedKept
<1>5. CASE CheckSubscriber \/ KeepAnchor \/ FallBackToSequential \/ DrainEmpty \/ LeaveEarly
  <2>1. clock' = clock /\ clock \in Int
    BY <1>5 DEF CheckSubscriber, KeepAnchor, FallBackToSequential, DrainEmpty, LeaveEarly, TypeOK
  <2>2. ~settled' \/ UNCHANGED <<anchor, settled, writePos, pending, nextTs>>
    BY <1>5
    DEF CheckSubscriber, SubscriberDetected, SubscriberAwaited, SubscriberSettled,
        ResetScheduler, ResetTiming, KeepAnchor, FallBackToSequential, DrainEmpty, LeaveEarly
  <2> QED BY <2>1, <2>2, ReachedKept DEF NextTs
<1>6. CASE EvictOldest
  BY <1>6 DEF EvictOldest, NoneEvicted
<1>7. CASE SetAnchor \/ WriteSequential
  <2>1. anchor = NoAnchor /\ settled' = settled
    BY <1>7 DEF SetAnchor, WriteSequential, Rooted
  <2>2. ~settled'
    BY <2>1 DEF Rooted
  <2> QED BY <2>2 DEF Reached
<1>8. CASE SnapOverGap \/ RebufferBehind
  BY <1>8 DEF SnapOverGap, RebufferBehind, ClearAndRebuffer, ResetScheduler, ResetTiming, Reached
<1>9. CASE DropStale \/ TrimStale \/ PlaceChunk
  <2>1. Draining
    BY <1>9 DEF DropStale, TrimStale, PlaceChunk, Placeable
  <2> QED BY <1>9, <2>1, ReachedPop
<1>10. CASE UNCHANGED vars
  BY <1>10, ReachedKept DEF vars, NextTs, TypeOK
<1> QED
  BY <1>1, <1>2, <1>3, <1>4, <1>5, <1>6, <1>7, <1>8, <1>9, <1>10
  DEF Next, Handlers, Drain, DrainChunk

-----------------------------------------------------------------------------
\* A frame is in the ring at every position written from the clock on.
LEMMA FilledByWrite ==
  ASSUME TypeOK, NEW pos \in Int, NEW n \in Int, NEW chunk, NEW from, NEW net, NEW mark,
         WriteAudio(pos, n, chunk, from, net, mark),
         NEW p \in Int, p >= pos, p < pos + n, p >= clock
  PROVE  \E f \in ring' : f.pos = p
<1> DEFINE frame(i) == [pos |-> pos + i, ts |-> chunk.ts + SamplesToMicros(from + i - net),
                        epoch |-> chunk.epoch, mark |-> mark]
<1>1. p - pos \in 0 .. n - 1 /\ pos + (p - pos) = p
  OBVIOUS
<1>2. frame(p - pos).pos = p
  BY <1>1
<1>3. frame(p - pos) \in ring'
  BY <1>1, <1>2 DEF WriteAudio
<1> QED BY <1>2, <1>3

LEMMA FilledStep ==
  ASSUME TypeOK, TypeOK', Overreach, Filling, [Next]_vars, settled, settled',
         NEW p \in writePos .. writePos' - 1, p >= clock
  PROVE  \E f \in ring' : f.pos = p
<1> USE DEF env, server, task, stage, queue, timing, Filling
<1>0. p \in Int /\ p >= writePos /\ p < writePos' /\ writePos' # writePos
  <2>1. writePos \in Int /\ writePos' \in Int
    BY DEF TypeOK
  <2>2. PICK w \in Int, v \in Int : w = writePos /\ v = writePos'
    BY <2>1
  <2>3. p \in w .. v - 1
    BY <2>2
  <2>4. p \in Int /\ p >= w /\ p < v /\ v # w
    BY <2>3
  <2> QED BY <2>2, <2>4
<1>1. CASE TrimStale
  <2>1. Oldest \in Chunk /\ Target \in Int /\ seen \in Int /\ seen <= clock /\ clock \in Int
    BY <1>1, OldestType DEF TrimStale, Draining, Overreach, TypeOK
  <2>2. PICK n \in Int, t \in Int, s \in Int, w \in Int, v \in Int, c \in Int :
          /\ n = Oldest.frames /\ t = Target /\ s = seen /\ w = writePos /\ v = writePos'
          /\ c = clock
    <3>1. writePos \in Int /\ writePos' \in Int
      BY DEF TypeOK
    <3>2. Oldest.frames \in Int
      BY <2>1 DEF Chunk
    <3> QED BY <2>1, <3>1, <3>2
  <2>3. WriteAudio(seen, n - (s - t), Oldest, s - t, 0, anchor.us) /\ v = Larger(w, t + n)
    BY <1>1, <2>2 DEF TrimStale, ChunkEnd
  <2>4. p >= s /\ p < s + (n - (s - t)) /\ p >= clock
    BY <1>0, <2>1, <2>2, <2>3 DEF Larger
  <2>5. n - (s - t) \in Int
    OBVIOUS
  <2> HIDE DEF Filling
  <2> QED BY <1>0, <2>1, <2>2, <2>3, <2>4, <2>5, FilledByWrite
<1>2. CASE PlaceChunk
  <2>1. Oldest \in Chunk /\ Target \in Int /\ clock \in Int
    BY <1>2, OldestType DEF PlaceChunk, Placeable, Draining, TypeOK
  <2>2. PICK n \in Int, t \in Int, w \in Int, v \in Int, c \in Int :
          n = Oldest.frames /\ t = Target /\ w = writePos /\ v = writePos' /\ c = clock
    <3>1. writePos \in Int /\ writePos' \in Int
      BY DEF TypeOK
    <3>2. Oldest.frames \in Int
      BY <2>1 DEF Chunk
    <3> QED BY <2>1, <3>1, <3>2
  <2>3. PICK net \in Corrections(Oldest.frames) :
          WriteAudio(Target, n + net, Oldest, 0, net, anchor.us) /\ v = Larger(w, t + (n + net))
    BY <1>2, <2>2 DEF PlaceChunk
  <2>4. net \in Int /\ n + net \in Int
    BY <2>2, ConstantsAssumption DEF Corrections, Smaller
  <2>5. t <= Larger(w, c)
    <3>1. NextTs = Oldest.ts
      BY <1>2 DEF PlaceChunk, Placeable, Draining, NextTs, Oldest
    <3> QED BY <2>2, <3>1 DEF Reached, Target
  <2>6. p >= t /\ p < t + (n + net) /\ p >= clock
    BY <1>0, <2>2, <2>3, <2>4, <2>5 DEF Larger
  <2> HIDE DEF Filling
  <2> QED BY <1>0, <2>1, <2>2, <2>3, <2>4, <2>6, FilledByWrite
<1>3. ASSUME ~TrimStale, ~PlaceChunk PROVE FALSE
  <2>1. CASE Environment \/ UNCHANGED vars
    BY <1>0, <2>1 DEF vars, Environment, Tick, ClockJump, Subscribe, Unsubscribe, ClockSynchronizes
  <2>2. CASE Handlers
    BY <1>0, <2>2
    DEF Handlers, StreamStart, RestartIfRunning, StartAtReadHead, StartWaiting, StreamClear,
        StreamEnd, Disconnect, Connect, HandleAudio, CheckDrift, DriftSkipped, DriftRebuffers,
        DriftSampled, ClearAndRebuffer, EnterIdle, ResetScheduler, ResetTiming, vars
  <2>3. CASE EvictOldest \/ CheckSubscriber \/ SetAnchor \/ KeepAnchor \/ FallBackToSequential
    BY <1>0, <2>3
    DEF EvictOldest, CheckSubscriber, SubscriberDetected, SubscriberAwaited, SubscriberSettled,
        ResetScheduler, ResetTiming, SetAnchor, KeepAnchor, FallBackToSequential
  <2>4. CASE WriteSequential
    BY <2>4 DEF WriteSequential, Rooted
  <2>5. CASE DrainEmpty \/ DrainChunk
    BY <1>0, <1>3, <2>5
    DEF DrainEmpty, DrainChunk, LeaveEarly, DropStale, SnapOverGap, RebufferBehind,
        ClearAndRebuffer, ResetScheduler, ResetTiming
  <2> QED BY <2>1, <2>2, <2>3, <2>4, <2>5 DEF Next, Drain
<1> QED BY <1>1, <1>2, <1>3

\* Whatever the clocks and the corrections do, a settled scheduler that receives
\* a contiguous stream and evicts none of it writes audio at every position it
\* moves the write position over and that is yet to be played.
THEOREM FrontierFilled ==
  ASSUME ContiguousStream PROVE Spec /\ []NoneEvicted => SettledFrontierIsFilled
<1>1. Init => Filling
  BY ChainInit, RootedInit DEF Init, Filling, Reached
<1>2. TypeOK /\ TypeOK' /\ Overreach /\ Filling /\ NoneEvicted /\ [Next]_vars => Filling'
  BY ChainStep, RootedStep, ReachedStep DEF Filling
<1>3. TypeOK /\ TypeOK' /\ Overreach /\ Filling /\ [Next]_vars
        => [settled /\ settled' =>
              \A p \in writePos .. writePos' - 1 :
                 p >= clock => \E f \in ring' : f.pos = p]_vars
  BY FilledStep
<1> QED
  BY <1>1, <1>2, <1>3, TypeInit, TypeNext, OverreachInit, OverreachStep, PTL
  DEF Spec, SettledFrontierIsFilled

\* A steady server's queue stays within its bounds, so that with clocks of one
\* rate the settled write position has audio behind it without further ado.
THEOREM FrontierFilledSteady ==
  ASSUME SameClocks, SteadyServer PROVE Spec => SettledFrontierIsFilled
<1>1. Init => Timing
  BY TimingInit
<1>2. TypeOK /\ Timing /\ [Next]_vars => Timing'
  BY TimingStep
<1>3. TypeOK /\ Timing /\ Steady /\ [Next]_vars => Steady'
  BY SteadyStep
<1>4. TypeOK /\ Steady => NoneEvicted
  BY SteadyIsWithin, EmptySeq, ConstantsAssumption
  DEF NoneEvicted, OverBound, Steady, OneQueued
<1>5. Spec => []NoneEvicted
  BY <1>1, <1>2, <1>3, <1>4, SteadyInit, TypeInit, TypeNext, PTL DEF Spec
<1>6. ContiguousStream
  BY DEF SteadyServer, ContiguousStream
<1> QED BY <1>5, <1>6, FrontierFilled, PTL

-----------------------------------------------------------------------------
(***************************************************************************)
(* A handler that has begun comes to its end.                              *)
(***************************************************************************)
\* Stages of handle_audio ahead of the task.
Ahead == IF pc = "bound" THEN 3
         ELSE IF pc = "anchor" THEN 2
         ELSE IF pc \in {"drain", "sequential"} THEN 1 ELSE 0

\* What is left of a handler to do.
Work == Ahead + Len(pending)

\* Taking the front chunk off leaves less to do.
LEMMA PopDescends ==
  ASSUME TypeOK, PopPendingFront, pc' = pc \/ pc' = "select"
  PROVE  Work' < Work
<1>1. PICK n \in Nat : n = Len(pending) /\ Len(pending') = n - 1
  <2>1. pending \in Seq(Chunk) /\ pending # <<>> /\ pending' = Tail(pending)
    BY DEF TypeOK, PopPendingFront
  <2> QED BY <2>1, LenProperties, HeadTailProperties, EmptySeq
<1> QED BY <1>1 DEF Work, Ahead

LEMMA DrainStepDescends ==
  ASSUME TypeOK, Drain
  PROVE  Work' < Work
<1> USE DEF env, server, task, stage, queue, timing, HandlerDone
<1>1. PICK n \in Nat : n = Len(pending)
  BY LenProperties DEF TypeOK
<1>2. Len(<<>>) = 0
  BY EmptySeq
<1>3. CASE EvictOldest \/ WriteSequential \/ DropStale \/ TrimStale \/ PlaceChunk
  BY <1>3, PopDescends DEF EvictOldest, WriteSequential, DropStale, TrimStale, PlaceChunk
<1>4. CASE CheckSubscriber
  <2>1. pc = "bound" /\ pc' = "anchor" /\ (pending' = pending \/ pending' = <<>>)
    BY <1>4 DEF CheckSubscriber, SubscriberDetected, SubscriberAwaited, SubscriberSettled,
                ResetScheduler
  <2> QED BY <1>1, <1>2, <2>1 DEF Work, Ahead
<1>5. CASE SetAnchor \/ KeepAnchor \/ FallBackToSequential
  <2>1. pc = "anchor" /\ pc' \in {"drain", "sequential"} /\ pending' = pending
    BY <1>5 DEF SetAnchor, KeepAnchor, FallBackToSequential
  <2> QED BY <1>1, <2>1 DEF Work, Ahead
<1>6. CASE DrainEmpty \/ LeaveEarly \/ SnapOverGap \/ RebufferBehind
  <2>1. pc \in {"drain", "sequential"} /\ pc' = "select" /\ (pending' = pending \/ pending' = <<>>)
    BY <1>6 DEF DrainEmpty, LeaveEarly, SnapOverGap, RebufferBehind, Placeable, Draining,
                ClearAndRebuffer, ResetScheduler
  <2> QED BY <1>1, <1>2, <2>1 DEF Work, Ahead
<1> QED BY <1>3, <1>4, <1>5, <1>6 DEF Drain, DrainChunk

\* Between the steps of a handler nothing adds to its work.
LEMMA OthersLeaveWork ==
  ASSUME pc \notin {"disconnected", "select"}, Next, ~Drain
  PROVE  Work' = Work
<1> USE DEF env, server, task, stage, queue, timing
<1>1. Environment
  BY DEF Next, Handlers, StreamStart, StreamClear, StreamEnd, Disconnect, Connect, ControlEvent,
         HandleAudio, CheckDrift, DriftSkipped, DriftRebuffers, DriftSampled, DriftCheckable
<1>2. pc' = pc /\ pending' = pending
  BY <1>1 DEF Environment, Tick, ClockJump, Subscribe, Unsubscribe, ClockSynchronizes
<1> QED BY <1>2 DEF Work, Ahead

\* Each step of a handler takes it nearer to its end, and what the transmitter,
\* the clocks and the receivers do in between takes it no further from it: the
\* drain loop takes a chunk off the queue in every round or leaves, on every
\* path, whatever the timestamps.
THEOREM DrainDescends ==
  Spec => [][/\ Work \in Nat
             /\ Drain => Work' < Work
             /\ pc \notin {"disconnected", "select"} /\ ~Drain => Work' = Work]_vars
<1>1. TypeOK => Work \in Nat
  BY LenProperties DEF TypeOK, Work, Ahead
<1>2. TypeOK /\ [Next]_vars =>
        [/\ Work \in Nat
         /\ Drain => Work' < Work
         /\ pc \notin {"disconnected", "select"} /\ ~Drain => Work' = Work]_vars
  BY <1>1, DrainStepDescends, OthersLeaveWork
<1> QED BY <1>2, TypeInit, TypeNext, PTL DEF Spec
=============================================================================
