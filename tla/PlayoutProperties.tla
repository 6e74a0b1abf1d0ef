-------------------------- MODULE PlayoutProperties --------------------------
(***************************************************************************)
(* What the playout scheduler must get right.  The properties that need a  *)
(* well-behaved environment say which; the runs that check them set it up. *)
(***************************************************************************)
EXTENDS PlayoutScheduler, Functions

Chunk == [ts : Int, frames : 1 .. RingSize, epoch : Nat]
Frame == [pos : Int, ts : Int, epoch : Nat, mark : Int]

\* The values every variable ranges over.
TypeOK ==
  /\ clock \in Nat /\ serverNow \in Nat
  /\ subscribed \in BOOLEAN /\ synced \in BOOLEAN
  /\ readPos \in Nat /\ snapNow \in Nat
  /\ nextTs \in Int /\ epoch \in Nat
  /\ pc \in {"disconnected", "select", "bound", "anchor", "drain", "sequential"}
  /\ seen \in Nat
  /\ state \in States
  /\ stream \in Formats \cup {NoFormat}
  /\ writePos \in Int /\ prebufferWritten \in Nat /\ lastReadPos \in Nat
  /\ pending \in Seq(Chunk) /\ pendingFrames \in Nat
  /\ anchor \in [us : Int, pos : Int, since : Int]
  /\ settled \in BOOLEAN
  /\ schedule \in {"off", "insert", "drop"}
  /\ driftHistory \in Seq(Int)
  /\ ring \subseteq Frame

-----------------------------------------------------------------------------
(***************************************************************************)
(* The pending queue.                                                      *)
(***************************************************************************)
\* pending_frames is kept by hand at every push, pop, eviction and reset; at
\* every point of every handler it is the number of frames queued.
PendingAccounted ==
  pendingFrames = SumFunction([i \in DOMAIN pending |-> pending[i].frames])

\* Once an arriving chunk has been dealt with, the queue is within both of its
\* bounds, whatever the server sends and however long the front chunk stays
\* too early to be written.
QueueBounded ==
  pc # "bound" => pendingFrames <= MaxPendingFrames /\ Len(pending) <= MaxPendingChunks

\* A stream start, clear or end and a lost connection discard what was queued:
\* no later write puts audio of an earlier epoch in the ring.
DiscardedAudioNeverWritten ==
  [][\A f \in ring' : f.epoch < epoch' => f \in ring]_vars

\* Every handler that has begun comes to its end: the drain loop takes a chunk
\* off the queue or leaves at each turn, while the clocks run on.
DrainEnds == pc \notin {"select", "disconnected"} ~> pc = "select"

-----------------------------------------------------------------------------
(***************************************************************************)
(* The ring.                                                               *)
(***************************************************************************)
\* In Idle nothing is left to be heard: no audio in the ring, none queued, and
\* no anchor that could place any, whichever handler was the last to write.
IdleIsSilent ==
  state = "Idle" => ring = {} /\ pending = <<>> /\ anchor = NoAnchor /\ stream = NoFormat

\* With clocks of the same rate, a frame written under an anchor sounds one
\* prebuffer after its timestamp, whatever happened between: any number of
\* anchors, breaks in the server's timestamps, late chunks trimmed to the read
\* head, receivers coming and going.
ScheduledOnTime ==
  \A f \in ring : f.mark # Sequential =>
     f.pos - clock = MicrosToSamples(f.ts - serverNow) + Prebuffer

\* A scheduled write stays within one ring of what the transmitter plays, so
\* that it replaces no audio that has yet to be heard.
UnreadAudioSurvives ==
  \A f \in ring : f.mark # Sequential => f.pos < clock + RingSize

\* Repeated frames lengthen a chunk that has already passed the horizon; the
\* write still ends within as many frames of it as a chunk can have repeats,
\* whatever the clocks do and wherever the corrections have moved the anchor.
OverreachBounded ==
  \A f \in ring : f.mark # Sequential => f.pos < clock + RingSize + MaxPerChunk

\* With a contiguous stream the settled scheduler moves the write position
\* only over audio: corrections leave no unwritten frame between two chunks.
SettledFrontierIsFilled ==
  [][settled /\ settled' =>
       \A p \in writePos .. writePos' - 1 :
          p >= clock => \E f \in ring' : f.pos = p]_vars

\* With a contiguous stream, clocks of the same rate and a server that keeps
\* its lead, a running bridge has written beyond what the transmitter plays.
RunningStaysAhead == state = "Running" /\ settled => clock < writePos

-----------------------------------------------------------------------------
(***************************************************************************)
(* Anchors and corrections.                                                *)
(***************************************************************************)
\* Under the same conditions an anchor that audio has been placed under is
\* neither given up nor moved but for a control event, or when the scheduler
\* finds the subscriber it was waiting for: neither the realignment guard nor a
\* discontinuity nor a drift anomaly fires.  (The first chunk under a new anchor
\* may still find the write position off, left there before the anchor was set.)
HealthyLeadKeepsAnchor ==
  [][settled /\ anchor' # anchor =>
       epoch' # epoch \/ state = "WaitingForSubscriber"]_vars

\* With clocks of the same rate every drift sample is zero, for every anchor
\* and every way of reaching it, and no correction is ever scheduled.
ClocksAgree ==
  schedule = "off" /\ \A i \in DOMAIN driftHistory : driftHistory[i] = 0

\* A correction moves the anchor against the filtered drift that called for
\* it: a read head ahead of the server's timeline is answered by repeating
\* frames, one behind it by dropping them.
CorrectionsOpposeDrift ==
  [][anchor # NoAnchor /\ anchor' # NoAnchor /\ anchor'.pos # anchor.pos =>
       LET drift == MedianDriftSample(driftHistory)
       IN  anchor'.pos > anchor.pos <=> drift > 0]_vars

-----------------------------------------------------------------------------
(***************************************************************************)
(* The abstract bridge.                                                    *)
(***************************************************************************)
Contract == INSTANCE BridgeLifecycle WITH
  now <- clock, open <- (stream # NoFormat), stage <- state, audio <- ring

\* Each step of the scheduler is a step of the abstract bridge: a clear that
\* arrives in Idle opens no stream and lets no audio in, Running is reached by
\* filling a prebuffer only, Idle is left by a control event only, no frame is
\* written behind the transmitter or for a stream that is no longer the
\* current one.
ImplementsLifecycle == Contract!Spec

-----------------------------------------------------------------------------
(***************************************************************************)
(* What the design document says and the code does not do.                 *)
(***************************************************************************)
\* A stream/clear and a stream/start replace what the listener hears: the
\* audio the transmitter is about to play belongs to the latest of them.
StaleAudioNeverDue == \A f \in ring : f.pos = clock => f.epoch = epoch
=============================================================================
