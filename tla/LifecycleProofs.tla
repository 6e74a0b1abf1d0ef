--------------------------- MODULE LifecycleProofs ---------------------------
(***************************************************************************)
(* The playout scheduler implements the abstract bridge, for every value   *)
(* of its constants.                                                       *)
(***************************************************************************)
EXTENDS PlayoutProofs

\* Nothing is heard, queued, anchored or handled without a stream.
SilentWithoutStream ==
  stream = NoFormat =>
    /\ ring = {} /\ pending = <<>> /\ anchor = NoAnchor
    /\ pc \in {"select", "disconnected"}

\* The invariant that lets each step be read as one of the abstract bridge.
Implementing == Lifecycle /\ SilentWithoutStream /\ QueueIsCurrent

-----------------------------------------------------------------------------
LEMMA SilentInit == Init => SilentWithoutStream
BY DEF Init, SilentWithoutStream

LEMMA SilentStep == TypeOK /\ SilentWithoutStream /\ [Next]_vars => SilentWithoutStream'
<1> SUFFICES ASSUME TypeOK, SilentWithoutStream, [Next]_vars PROVE SilentWithoutStream'
  OBVIOUS
<1> USE DEF SilentWithoutStream, env, server, task, stage, queue, timing
<1>1. CASE Environment
  BY <1>1 DEF Environment, Tick, ClockJump, Subscribe, Unsubscribe, ClockSynchronizes
<1>2. CASE StreamStart
  <2>1. PICK format \in Formats :
          RestartIfRunning(format) \/ StartAtReadHead(format) \/ StartWaiting(format)
    BY <1>2 DEF StreamStart
  <2>2. stream' = format
    BY <2>1 DEF RestartIfRunning, StartAtReadHead, StartWaiting
  <2> QED BY <2>2, ConstantsAssumption
<1>3. CASE StreamClear
  <2>1. ring' \subseteq ring /\ pending' = <<>> /\ anchor' = NoAnchor
    BY <1>3, TimingSilence DEF StreamClear, ClearAndRebuffer, ResetScheduler, ResetTiming
  <2> QED BY <1>3, <2>1 DEF StreamClear, ControlEvent
<1>4. CASE StreamEnd \/ Disconnect
  <2>1. ring' = {} /\ pending' = <<>> /\ anchor' = NoAnchor
    BY <1>4, SilencedIsEmpty
    DEF StreamEnd, Disconnect, EnterIdle, ResetScheduler, ResetTiming
  <2> QED BY <1>4, <2>1 DEF StreamEnd, Disconnect, ControlEvent
<1>5. CASE Connect
  BY <1>5 DEF Connect
<1>6. CASE HandleAudio
  BY <1>6 DEF HandleAudio
<1>7. CASE CheckDrift
  BY <1>7 DEF CheckDrift, DriftSkipped, DriftRebuffers, DriftSampled, DriftCheckable, vars
<1>8. CASE Drain
  <2>1. pc \in {"bound", "anchor", "drain", "sequential"} /\ stream' = stream
    BY <1>8
    DEF Drain, EvictOldest, CheckSubscriber, SetAnchor, KeepAnchor, FallBackToSequential,
        WriteSequential, DrainEmpty, DrainChunk, LeaveEarly, DropStale, TrimStale,
        SnapOverGap, RebufferBehind, PlaceChunk, Placeable, Draining
  <2> QED BY <2>1
<1>9. CASE UNCHANGED vars
  BY <1>9 DEF vars
<1> QED
  BY <1>1, <1>2, <1>3, <1>4, <1>5, <1>6, <1>7, <1>8, <1>9 DEF Next, Handlers

-----------------------------------------------------------------------------
LEMMA ContractInit == Init => Contract!Init
BY ConstantsAssumption DEF Init, Contract!Init

LEMMA ContractClock == TypeOK /\ (Tick \/ ClockJump) => Contract!Play
<1> SUFFICES ASSUME TypeOK, Tick \/ ClockJump PROVE Contract!Play
  OBVIOUS
<1> USE DEF Contract!Play, server, task, stage
<1>1. CASE Tick
  <2>1. clock' = clock + 1 /\ ring' = {f \in ring : f.pos > clock} /\ clock \in Int
    BY <1>1 DEF Tick, TypeOK
  <2>2. \A f \in ring : f.pos > clock <=> f.pos >= clock'
    <3> SUFFICES ASSUME NEW f \in ring PROVE f.pos > clock <=> f.pos >= clock'
      OBVIOUS
    <3>1. PICK p \in Int : p = f.pos
      BY DEF TypeOK, Frame
    <3>2. p > clock <=> p >= clock'
      BY <2>1, <3>1
    <3> QED BY <3>1, <3>2
  <2>3. ring' = {f \in ring : f.pos >= clock'}
    BY <2>1, <2>2
  <2>4. clock' >= clock /\ UNCHANGED <<epoch, stream, state>>
    BY <1>1, <2>1 DEF Tick
  <2> QED BY <2>3, <2>4
<1>2. CASE ClockJump
  BY <1>2, ConstantsAssumption DEF ClockJump, TypeOK
<1> QED BY <1>1, <1>2

LEMMA ContractStart == TypeOK /\ StreamStart => Contract!Start
<1> SUFFICES ASSUME TypeOK, StreamStart PROVE Contract!Start
  OBVIOUS
<1>1. PICK format \in Formats :
        RestartIfRunning(format) \/ StartAtReadHead(format) \/ StartWaiting(format)
  BY DEF StreamStart
<1>2. stream' # NoFormat
  BY <1>1, ConstantsAssumption DEF RestartIfRunning, StartAtReadHead, StartWaiting
<1>3. epoch' = epoch + 1 /\ clock' = clock
  BY DEF StreamStart, ControlEvent, env
<1>4. /\ ring' \subseteq ring
      /\ state' \in {"WaitingForSubscriber", "Prebuffering", "Rebuffering"}
      /\ state' = "Rebuffering" => state = "Running"
  BY <1>1, TimingSilence
  DEF RestartIfRunning, StartAtReadHead, StartWaiting, ClearAndRebuffer, SnapToLive
<1> QED BY <1>2, <1>3, <1>4 DEF Contract!Start, Contract!Event

LEMMA ContractControl ==
  /\ StreamClear => Contract!Clear
  /\ TypeOK /\ (StreamEnd \/ Disconnect) => Contract!Stop
<1>1. ASSUME StreamClear PROVE Contract!Clear
  BY <1>1, TimingSilence
  DEF StreamClear, ControlEvent, ClearAndRebuffer, env, Contract!Clear, Contract!Event
<1>2. ASSUME TypeOK, StreamEnd \/ Disconnect PROVE Contract!Stop
  <2>1. ring' = {} /\ stream' = NoFormat /\ state' = "Idle"
    BY <1>2, SilencedIsEmpty DEF StreamEnd, Disconnect, EnterIdle
  <2>2. epoch' = epoch + 1 /\ clock' = clock
    BY <1>2 DEF StreamEnd, Disconnect, ControlEvent, env
  <2> QED BY <2>1, <2>2 DEF Contract!Stop, Contract!Event
<1> QED BY <1>1, <1>2

\* What the scheduler writes, the abstract bridge may write.
LEMMA ContractWrite ==
  ASSUME TypeOK, Implementing, WriteSequential \/ TrimStale \/ PlaceChunk
  PROVE  Contract!Write
<1> USE DEF Implementing, Lifecycle, SilentWithoutStream, env, server, task
<1>1. pc \in {"drain", "sequential"} /\ PopPendingFront /\ UNCHANGED <<epoch, clock, stream>>
  BY DEF WriteSequential, TrimStale, PlaceChunk, Placeable, Draining
<1>2. stream # NoFormat /\ state # "Idle"
  BY <1>1
<1>3. Head(pending).epoch = epoch
  BY <1>1, OldestIsCurrent
<1>4. PICK pos, n, from, net, mark : WriteAudio(pos, n, Head(pending), from, net, mark)
  BY DEF WriteSequential, TrimStale, PlaceChunk, Oldest
<1>5. \A f \in ring' \ ring : f.pos >= clock /\ f.epoch = epoch
  BY <1>3, <1>4 DEF WriteAudio, Uncovered
<1>6. PICK written : CountPrebuffered(written)
  BY DEF WriteSequential, TrimStale, PlaceChunk
<1>7. state' # state => state \in {"Prebuffering", "Rebuffering"} /\ state' = "Running"
  BY <1>6 DEF CountPrebuffered
<1> QED BY <1>1, <1>2, <1>5, <1>7 DEF Contract!Write

\* The scheduler's own restarts: realignment, subscriber, gap, drift.
LEMMA ContractRefill ==
  ASSUME TypeOK, Implementing, SnapToLive \/ ClearAndRebuffer,
         stream # NoFormat, state # "Idle", UNCHANGED <<epoch, clock, stream>>
  PROVE  Contract!Refill
BY TimingSilence DEF SnapToLive, ClearAndRebuffer, Contract!Refill

LEMMA ContractStep ==
  TypeOK /\ Implementing /\ [Next]_vars => [Contract!Next]_(Contract!vars)
<1> SUFFICES ASSUME TypeOK, Implementing, [Next]_vars PROVE [Contract!Next]_(Contract!vars)
  OBVIOUS
<1> USE DEF Contract!Next, Contract!vars, env, server, task, stage, queue, timing, HandlerDone
<1>1. CASE UNCHANGED <<clock, epoch, stream, state, ring>>
  BY <1>1
<1>2. CASE Tick \/ ClockJump
  BY <1>2, ContractClock
<1>3. CASE Subscribe \/ Unsubscribe \/ ClockSynchronizes \/ Connect
  BY <1>1, <1>3 DEF Subscribe, Unsubscribe, ClockSynchronizes, Connect
<1>4. CASE StreamStart \/ StreamClear \/ StreamEnd \/ Disconnect
  BY <1>4, ContractStart, ContractControl
<1>5. CASE HandleAudio
  <2>1. \/ SnapToLive
        \/ UNCHANGED <<state, ring>>
    BY <1>5 DEF HandleAudio
  <2>2. stream # NoFormat /\ state # "Idle" /\ UNCHANGED <<epoch, clock, stream>>
    BY <1>5 DEF HandleAudio
  <2> QED BY <1>1, <2>1, <2>2, ContractRefill
<1>6. CASE CheckDrift
  <2>1. CASE DriftRebuffers
    <3>1. anchor # NoAnchor /\ ClearAndRebuffer /\ UNCHANGED <<epoch, clock, stream>>
      BY <2>1 DEF DriftRebuffers, DriftCheckable
    <3>2. stream # NoFormat /\ state # "Idle"
      BY <3>1 DEF Implementing, Lifecycle, IdleIsSilent, SilentWithoutStream
    <3> QED BY <3>1, <3>2, ContractRefill
  <2> QED BY <1>1, <1>6, <2>1 DEF CheckDrift, DriftSkipped, DriftSampled, vars
<1>7. CASE Drain
  <2>1. pc \in {"bound", "anchor", "drain", "sequential"} /\ UNCHANGED <<epoch, clock, stream>>
    BY <1>7
    DEF Drain, EvictOldest, CheckSubscriber, SetAnchor, KeepAnchor, FallBackToSequential,
        WriteSequential, DrainEmpty, DrainChunk, LeaveEarly, DropStale, TrimStale,
        SnapOverGap, RebufferBehind, PlaceChunk, Placeable, Draining
  <2>2. stream # NoFormat /\ state # "Idle"
    BY <2>1 DEF Implementing, Lifecycle, SilentWithoutStream
  <2>3. CASE CheckSubscriber
    <3>1. CASE SubscriberDetected
      BY <2>1, <2>2, <3>1, ContractRefill DEF SubscriberDetected
    <3>2. CASE SubscriberAwaited
      BY <1>1, <2>1, <2>2, <3>2 DEF SubscriberAwaited, Contract!Refill
    <3>3. CASE SubscriberSettled
      BY <1>1, <2>1, <3>3 DEF SubscriberSettled
    <3> QED BY <2>3, <3>1, <3>2, <3>3 DEF CheckSubscriber
  <2>4. CASE SnapOverGap \/ RebufferBehind
    BY <2>1, <2>2, <2>4, ContractRefill DEF SnapOverGap, RebufferBehind
  <2>5. CASE WriteSequential \/ TrimStale \/ PlaceChunk
    BY <2>5, ContractWrite
  <2>6. CASE \/ EvictOldest \/ SetAnchor \/ KeepAnchor \/ FallBackToSequential
             \/ DrainEmpty \/ LeaveEarly \/ DropStale
    BY <1>1, <2>6 DEF EvictOldest, SetAnchor, KeepAnchor, FallBackToSequential,
                      DrainEmpty, LeaveEarly, DropStale
  <2> QED BY <1>7, <2>3, <2>4, <2>5, <2>6 DEF Drain, DrainChunk
<1>8. CASE UNCHANGED vars
  BY <1>1, <1>8 DEF vars
<1> QED
  BY <1>2, <1>3, <1>4, <1>5, <1>6, <1>7, <1>8 DEF Next, Environment, Handlers

\* The scheduler keeps the promises of the abstract bridge: no stage is
\* reached, no audio appears and none outlives its stream in another way.
THEOREM Implements == Spec => ImplementsLifecycle
<1>1. Init => Implementing
  BY LifecycleInit, SilentInit, QueueInit DEF Implementing
<1>2. TypeOK /\ Implementing /\ [Next]_vars => Implementing'
  BY LifecycleStep, SilentStep, QueueStep DEF Implementing
<1> QED
  BY <1>1, <1>2, TypeInit, TypeNext, ContractInit, ContractStep, PTL
  DEF Spec, ImplementsLifecycle, Contract!Spec
=============================================================================
