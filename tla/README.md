# A verification project for spin2dante

spin2dante receives a Sendspin audio stream over a WebSocket and plays it as a
DANTE device. This directory holds TLA+ models of its core, TLC runs that check
them on small instances, and TLAPS proofs that hold for every instance.

## The system

| part | source | state it keeps | operations |
|---|---|---|---|
| bridge task | `src/bridge.rs`, `SendspinBridge` | lifecycle state, stream format, write position, pending queue, anchor, corrections | one `select!` loop over messages, audio, the metrics timer and the drift timer |
| playout ring and transmitter | inferno (external crate) | the samples of the ring, the read position and its snapshot | `write_from_at` from the bridge; a real-time thread that plays at the pace of the PTP clock |
| Sendspin client | sendspin (external crate) | connection, clock synchronisation, correction planner | delivers messages and chunks on two channels; answers what the server's time is |
| session | `src/bridge.rs`, `run_session` | the two channels, what is to be told the server | connects, backs off, selects a branch, reports, ends when a channel has closed |
| frame corrections | `src/bridge.rs`, `CorrectionState` | two counters and the last frame | repeats or drops single frames of a chunk |
| gain ramp | `src/gain.rs` | current and target gain, frames left of a ramp | applied to a chunk when it is written, advanced over a chunk that is dropped |
| volume file | `src/state.rs` | a JSON file | loaded at start, replaced at every volume command |
| subscriber reporting | `src/bridge.rs`, `log_metrics`, `take_pending_client_state` | whether a receiver listens, what is to be told the server | on the metrics timer |
| add-on | `addons/spin2dante/run.sh` | one process per configured bridge | starts them, waits for the first to end, stops the others |

The other parts, which no model describes: start-up, command line and client id
(`main.rs`), log metrics (`metrics.rs`), PCM decoding (`decode_pcm`), the statime
add-on, the test servers and analysers. "Not modelled" below says why.

Messages and chunks enter the bridge task and a handler runs to its end before
the next one starts; nothing in a handler waits but for the system calls of a
volume's save. What runs beside it is the
transmitter thread, which moves the read position and plays the ring while the
handler writes it, and the two clocks: the server's, in microseconds, and the
PTP clock, in frames. The bridge reads the transmitter's position once at the
start of `handle_audio` and again, fresh, in `snap_to_live`,
`clear_and_rebuffer` and for the anchor.

What is hard here: positions read before and used after the transmitter has
moved; two clocks of different rate; a ring that wraps, in which whatever is not
overwritten is played again; control events between the moment a chunk is queued
and the moment it is written; a read position that stands still, or is zero,
because no one listens; reconnection at any moment; two channels read in random
order; a process that is killed wherever it is. What each part must get
right is listed with its properties below and, line by line, as the hazards of
`PROJECT.json`.

## Modules

| module | models | lines of the code |
|---|---|---|
| `RingMath` | conversions between microseconds and frames, targets, expected position, median filter, sizes | `bridge.rs` 58-71, 326-343, 945-949, 1160-1167, 1288-1293 |
| `PlayoutScheduler` | the bridge task from message to ring, with transmitter, receiver and clocks as its environment | `bridge.rs` 345-437, 614-752, 828-1011, 1066-1508 |
| `PlayoutProperties` | what the scheduler must get right | |
| `BridgeLifecycle` | what a bridge promises its listener, which `PlayoutScheduler` implements | `bridge.rs` 627-752, 1066-1126, 1386-1429 |
| `MCPlayout` | instances for TLC | |
| `PlayoutProofs`, `QueueProofs`, `LifecycleProofs` | theorems about the scheduler, its queue, and the refinement | |
| `FrameCorrection` | which frames of the stream are repeated and dropped | `bridge.rs` 126-211, 836-857, 964-979, 1302-1336, 1388, 1418-1429 |
| `FrameProofs` | theorems about the corrections | |
| `GainRamp`, `MCGain` | the gain of every frame written | `gain.rs` 26-193; `bridge.rs` 54-57, 343-354, 753-774, 856 and the calls of `advance` and `apply` |
| `GainProofs` | theorems about the ramp | |
| `SubscriberReport` | what the server is told about DANTE receivers | `bridge.rs` 421-437, 607-660, 666-752, 1018-1085, 1149-1231, 1582-1606 |
| `SubscriberProofs` | theorems about the reporting | |
| `VolumeStore` | the volume in memory and on disk, each system call of a save a step | `state.rs` 5-76; `bridge.rs` 343-354, 753-775 |
| `SessionChannels` | the session: channels, select, reports, connection, kill and restart; it composes with `VolumeStore` | `bridge.rs` 430-434, 586-661, 664-775, 1026-1064, 1608-1617 |
| `SessionProofs` | theorems about session and volume | |
| `AddonSupervisor` | the script that runs one bridge per entry | `run.sh` 20-24, 52-193 |
| `AddonProofs` | theorems about the script | |

`PlayoutScheduler` is the core and stands on `RingMath`. `FrameCorrection`,
`GainRamp` and `SubscriberReport` look closely at a part it leaves open, each with
the same handlers of the bridge as far as they touch that part: `FrameCorrection`
at where in a chunk a frame is repeated or dropped, `GainRamp` at the samples' gain, `SubscriberReport` at the
option `report_dante_subscriber`. One result crosses over: in `FrameCorrection`
the cadence is never below `MinInterval`, which is the bound `MaxPerChunk` that
`PlayoutScheduler` puts on the corrections of a chunk. `SessionChannels` stands in
front of all of them: it says which messages and chunks reach the handlers, and in
what order. `PlayoutScheduler` takes them in any order, and so in each of these.
`AddonSupervisor` stands around the processes.

### PlayoutScheduler

State. `clock` is the PTP position played next and `serverNow` the server's time
at that instant. `readPos` and `snapNow` are what the transmitter has published:
`read_position`, and the instant of `ReadPositionSnapshot` in server time. The
other variables carry the names of the fields of `SendspinBridge`, but for
`anchor` (`anchor_server_us`, `anchor_ring_pos`, `anchor_set_at` together),
`settled` (`scheduler_settled`) and `schedule` (whether the correction schedule
repeats or drops frames). `pc` says where the task is inside `handle_audio`, and
`seen` is the read position it loaded when it began.

`ring` is the set of audio frames that can still be heard. Position p lives in
slot p mod `RingSize`, a write replaces what its slots held, and silence is the
absence of a frame. A frame knows its position, the server timestamp of its
sample, the epoch (the number of control events so far) of the chunk it came
from, and the anchor it was written under.

Actions. One per message (`StreamStart`, `StreamClear`, `StreamEnd`), for loss
of the connection and reconnection (`Disconnect`, `Connect`), for the drift
timer (`CheckDrift`), and `HandleAudio`, which ends in a chain of steps:
`EvictOldest` (the bound on the queue), `CheckSubscriber`, then `SetAnchor`,
`KeepAnchor` or `FallBackToSequential`, and one action per turn of the drain
loop: `LeaveEarly`, `DropStale`, `TrimStale`, `SnapOverGap`, `RebufferBehind`,
`PlaceChunk`, or `WriteSequential`. The chain is one step per loop turn because
the transmitter plays on while the loop runs; the environment (`Tick`,
`ClockJump`, `Subscribe`, `Unsubscribe`, `ClockSynchronizes`) may move between
any two of them.

Abstracted. Positions are integers, not `usize`: the code compares them by their
wrapped signed difference, which is the integer difference as long as two
positions are less than 2^63 apart. The ten seconds before drift is looked at
are `SettleMicros` of the server's clock, and whether the five seconds of
`WaitingForSubscriber` are over is left open. Where in a chunk a frame is
repeated or dropped is left open up to `MaxPerChunk` frames of a chunk; the
planner's choice is any schedule that corrects against the drift, or none. The
snapshot's `try_read` may fail when `SnapshotRaces`. Sample values and counters
that only feed the log are left out; gain and subscriber reporting have modules
of their own.

The environment is a server that keeps between `MinLead` and `MaxLead`
microseconds ahead, in the runs that need a well-behaved one, and any other in
the rest; timestamps may jump by `TimestampJumps`. Without a published read
position the code lets the write position grow without bound, and the model
stops the server at `MaxClock`.

### BridgeLifecycle

The abstract bridge has five variables: the position played next, the epoch,
whether a stream is open, the stage, and the audio that can be heard. Its steps
say what each control event may do (`Start`, `Clear`, `Stop` take audio away, never
add any; only `Start` opens a stream), when audio may be added (`Write`: ahead of
the transmitter, of the current epoch, for an open stream), how a bridge comes to
run (by filling a prebuffer) and what it may do on its own (`Refill`).
`PlayoutProperties` maps `clock`, `epoch`, `stream # NoFormat`, `state` and `ring` to
them; queue, anchor, drift and corrections are hidden. Shown by TLC in `churn`, and
by TLAPS.

### FrameCorrection

State. `every` is the schedule (`insert_every_n_frames`, `drop_every_n_frames`)
and `counter` the two counters, both indexed by direction; `lastFrame` is
`last_frame`; `left` counts the frames of the chunk in `apply`. The stream's
frames are numbered by `source`, `heard` is the last one written, `corrected`
has the frames at which a correction fell, `waited` the frames since each
direction was due.

Actions. `SetSchedule` (the end of `check_drift`: budget, then `set_schedule`),
`Reset` (`reset_scheduler`), `SetAnchor`, one per way a chunk passes
(`WriteSequential`, `DropStale`, `TrimStale`, `WriteUncorrected`), and
`BeginCorrected` with one action for each frame of the loop of `apply`
(`DropFrame`, `WriteFrame`). The planner, external, asks for any cadence in
`Cadences`, in one direction at a time, as sendspin's planner does.

### GainRamp

State. `volume` and `muted` are `GainControl`; `currentGain`, `remaining`, `step`
and `lastTarget` are the ramp's fields; `left` counts the frames of the chunk in
`apply`. `began`, `done`, `since`, `heardGain`, `skipped`, `fresh` and `unheard`
are what the properties need to remember.

Actions. `Command` (a volume or mute command), `Transition` (`reset_to_current`,
which every `reset_scheduler` calls), `Advance` (audio dropped: stale, evicted or
trimmed off), `BeginWrite` and `WriteFrame` (`apply` and `apply_range`).

Abstracted. A gain is an integer from 0 to `Unity`, the taper any function from
volumes to gains; a ramp's step is rounded toward zero, so that a ramp falls
short of its target before its last frame, which is set to the target: the same
as the code does with its last place of a float.

### SubscriberReport

State. Of the read position and `last_read_pos` only their relation matters:
`published` (nonzero) and `baseline` (`last_read_pos` is at zero, at the position,
or elsewhere). `changeAge` is the age of `last_read_pos_change`; `pendingSync` is
`pending_sync_state`; `told` is what the server has last received; `listening`,
`still` and `consumed` are the receiver's side. `pc` says whether the task waits
in `select!` or is about to send.

Actions. `LogMetrics` (with its five outcomes), `StreamStart`, `StreamClear`,
`StreamEnd`, `Chunk`, `OtherHandler`, `Send`, `LoseConnection`, `NoticeBroken`,
`Connect`; of the environment `Consume`, `TimePasses`, `Join`, `Leave`,
`Withdraw`. `Lose` is the timer's report of a lost receiver.

Abstracted. While a receiver listens the position moves in every unit of time. A
session is entered after the two seconds' wait or at once; `Idle`, `Waiting` and
`Streaming` stand for the lifecycle. The player state that rides along with the
report is in `SessionChannels`.

### VolumeStore and SessionChannels

State. `messages` and `audio` are the two channels, `linkUp` the connection as the
client's reader finds it, `stream` is `stream_format`, `queued` stands for
`pending_sync_state` and `pending_player_state`. `level` is `GainControl`, `file` and
`tmp` the state file and the temporary file beside it. `history` and `handled` are
what is needed to say what server and bridge must agree on: each stream message
opens an epoch, each message and chunk carries the epoch it was sent in. `told` is
what the server has last heard of the volume.

Actions. Of the server `SendStart` (of formats the bridge accepts and of one it
refuses), `SendEnd`, `SendClear`, `SendCommand`, `SendChunk`. Of the session `Connect`,
`ConnectFails`, `Retry`, `HandleMessage`, `HandleAudio`, `Timer`, `Send`, `EndSession`. A
command goes through `SaveStep`: the temporary file is emptied, written, renamed,
and each may fail. `Kill` ends the process at any step, `Interrupt` from the select
only; `Boot` starts it again with what the file holds.

Abstracted. To send is to reach the channel: what a broken connection takes with it
on the way was never sent. The bridge runs with `--volume-control bridge` and a state
file; without them it has no level to keep. A file holds a level, is cut off, or is
missing. Power loss, which may undo or tear what a file system has not synced, is
left out.

### AddonSupervisor

State. `options` are the configured entries (id, whether it has a name, process
id, port), `running` the living processes, `recorded` those in `PIDS`, `killed` those
sent the signal; `missed` are bridges that ended before `wait -n` was reached and that
bash overlooks.

Actions. One per command of the script that matters (`ValidateEntry`, `AwaitClock`,
`Launch`, `Record`, `BeginWait`, `WaitReturns`, `Terminate`, `Reap`), `LaunchFails` for a
command of the loop that fails under `set -e`, `Stop` for the signal, which the trap
takes between any two commands, and `BridgeEnds`.

Abstracted. What is passed to a bridge, logging, and the warnings about mixed
values, which refuse nothing.

## Runs

The ring's and the queue's sizes of an instance come from the code's own
formulas (`RingBufferSize`, `MaxPendingFramesFor`) unless stated. Bounds:
`MaxClock` ends time two to seven frames after `ClockBase`, while audio is
written up to a ring ahead of the clock: enough for the ring to wrap, for a chunk
to be early, due, cut and stale, and in `healthy` and `skew` for an anchor to age
beyond `SettleMicros` and gather three drift samples; `MaxEvents` allows one to
three control events, enough for a start, a clear or end, and another start, or a
reconnection in between. `healthy` has three because it takes as many before
an anchor is given up that nothing has been placed under yet: `enter_idle` moves the
write position on by a ring every time, so that after a stream's end, a lost connection
and a start that waits in vain the first anchored chunk finds the write position ahead
of it and rebuffers. Deadlock is checked in every run but `corrections`, whose
stream is finite, and `addon`, whose script ends.

| run | expects | shows |
|---|---|---|
| `healthy` | pass | clocks of one pace and a server that keeps its lead: types; no drift is ever measured and no correction scheduled (`ClocksAgree`); a running bridge has written past the read head (`RunningStaysAhead`); an anchor that audio has been placed under is given up only for a control event or a found subscriber (`HealthyLeadKeepsAnchor`) |
| `hostile` | pass | timestamps that come late, early and with jumps, and small queue bounds: the queue's frame count is right at every step (`PendingAccounted`), its bounds hold (`QueueBounded`), every scheduled frame is where its timestamp says (`ScheduledOnTime`) and within one ring (`UnreadAudioSurvives`) |
| `skew` | pass | a server clock of another rate: corrections oppose the drift (`CorrectionsOpposeDrift`), leave no hole behind the write position (`SettledFrontierIsFilled`), and take a chunk no further beyond the ring than they have lengthened it (`OverreachBounded`) |
| `churn` | pass | receivers leave, the PTP clock jumps, snapshots race, chunks come early or late, the planner asks for a new anchor: Idle is silent (`IdleIsSilent`), discarded audio is never written (`DiscardedAudioNeverWritten`), a handler that has begun ends (`DrainEnds`), and every step is one of the abstract bridge (`ImplementsLifecycle`) |
| `stale_audio` | violation | a clear silences one prebuffer; audio further ahead, up to the server's whole credit, is still played after it |
| `corrections` | pass | types; no stretch as long as a drift check interval has more corrections than the budget (`BudgetKept`); a repeated frame is the one before it (`RepeatsWhatSounded`); a schedule that keeps changing does not starve a direction (`CorrectionsKeepComing`) |
| `gain` | pass | gains between silence and unity (`TypeOK`); a command takes effect within one ramp (`VolumeTakesEffect`) and without clicks (`NoClicks`); dropping audio moves the ramp as playing it does (`AdvanceMatchesApply`); no ramp is carried into new audio, once audio has followed the command (`NewAudioAtItsGain`) |
| `reporting` | pass | types; a receiver that has consumed within the period is not reported lost (`LossNotPremature`); one that stays is reported (`ListenerReported`) and one that has left does not stay reported (`LeaverReported`), whatever streams, failed sends and lost connections came before |
| `session` | pass | a chunk is decoded in the format it was sent in (`DecodedAsSent`); bridge and server mean the same stream when all is handled (`QuietMeansAgreed`); a connected server knows the volume (`ServerKnowsVolume`); a kill at any system call of a save loses at most that save (`VolumeSurvives`); audio that never stops does not starve a control message (`ControlNotStarved`); a lost connection is noticed (`LossIsNoticed`) |
| `addon` | pass | bridges that run together do not clash (`RunApart`); the script outlives them (`NoneLeftRunning`); a stop and a bridge's end bring all to an end (`StopEnds`, `OneDownAllDown`) |
| `static_position` | violation | after a stream's end a standing position is detected as a receiver |
| `masked_wait` | violation | with a known receiver a waiting stream misses the movement it waits for |

Bounds of the others. `corrections`: an interval of 7 frames with a budget of
2, cadences shorter than, equal to and longer than the cadence the budget
allows, and a stream of two intervals, so that schedules change, reset and turn
round inside every window. `gain`: a ramp of 3 frames, chunks shorter than,
within and longer than a ramp, three commands (enough to interrupt a ramp twice)
and two transitions. `reporting` and the two violations after it: the code's
proportion of timer and loss, 5 s to 10 s, in units of 2.5 s, and three messages
or failures, so that a stream may start, end and start again in one silence;
a receiver may come and go without end. `session`: one message and
two chunks in the channels (which never need more for one to overtake the other),
two stream messages in a session and any number of sessions, one volume beyond the
limit of 100 and mute. `addon`: one to three entries, with ports that are equal,
nine apart and ten apart in either order; three is the least at which a clash with
the entry before differs from a clash with any.

The run `gain` has a remark of its own. `src/DESIGN.md:262` says that the ramp is reset
at transitions "to avoid carrying stale ramp state into new audio". What holds is
that no ramp in progress is carried over; but `reset_to_current` resets to the target
of the last audio, so that a volume commanded while nothing is written is ramped to
over the first 20 ms of the new stream. `NewAudioAtItsGain` states the condition
(`unheard`) under which the design's sentence is true.

`OverreachBounded` is the honest form of `UnreadAudioSurvives` under correction: a chunk
is admitted at the horizon and lengthened afterwards, and does reach beyond one ring
by the frames repeated in it, replacing as many that are due next.

`LeaverReported` deserves a remark. `enter_idle` forgets the receiver without
telling the server, so that a receiver that leaves around a stream's end would
stay on the server's books; that it does not rests on the divergence
`static_position` shows: the timer takes the standing position for a new receiver
and loses it again ten seconds later. Whoever mends the one must see to the other.
It also needs a position that stays published: after a withdrawal (which the code
provides for, and the transmitter may never do within a session) a stream's end, a
start that waits and a short visit leave the server with a receiver that is gone.

`session` states two exceptions instead of hiding them. A chunk that has overtaken a
stream message, or been overtaken by one, is decoded in the format of the stream
that is open: chunks carry no stream. And a start that is refused leaves the old
stream open, so that the refused stream's chunks are decoded in the old format.
`addon` states three: a stop between `&` and `PIDS+=` waits for a bridge nobody signals
(`StopEnds`), a bridge that ends before `wait -n` may be overlooked (`OneDownAllDown`),
and a failing command in the loop leaves bridges behind (`NoneLeftRunning`).

Fairness: `PlayoutScheduler`'s `FairSpec` has weak fairness of `Drain`, the steps of a handler that
has begun. The code justifies it: a handler is a plain function on a worker
thread, it takes no lock that another thread holds for long and awaits nothing.
No fairness is assumed of messages, timers or clocks.

`SubscriberReport`'s `FairSpec` has weak fairness of `TimePasses`, of
`LogMetrics` (the timer is due again and again, and `select!` picks at random
among the branches that are ready), of `Send` (a send returns, with success or
an error), of `NoticeBroken` (the channels of a broken connection close) and of
`Connect` (connecting is retried every two seconds). The bound on events makes
failures finitely many: a server that is never reached again is told nothing.

`SessionChannels`' `FairSpec` has strong fairness of `HandleMessage` and of `EndSession`:
tokio's `select!` polls its branches from a random one on, so that a branch that is
ready again and again is taken with probability one; and weak fairness of `SaveStep`
and `Send`, since a write to a file or a socket returns, well or not. Nothing is
assumed of the server, of the connection or of `Connect`.

`AddonSupervisor`'s `FairSpec` has weak fairness of the script's steps, for bash goes on
when it can, and of `KilledEnds`: a bridge catches no SIGTERM, whose default ends it.
That a bridge ends on its own is never assumed.

## Proofs

`PlayoutProofs` proves for every value of the constants that satisfies the
assumptions named in `RingMath` and `PlayoutScheduler` (positive rate; even,
positive ring; chunks with at least one frame that fit the ring):

* `TypeCorrect`: the type invariant.
* `IdleSilence`: `IdleIsSilent`. It is not inductive; `Lifecycle` adds that no
  handler is running in Idle and that a lost connection is Idle. The step into
  Idle needs `HalvesCover`: two writes of half the ring, one after the other,
  cover every slot wherever they start.
* `DiscardedAudio`: `DiscardedAudioNeverWritten`, from `QueueIsCurrent`: what is
  queued belongs to the current epoch.
* `ClocksInStep` and `OnTime`: with clocks of one pace (`SameClocks`),
  `ClocksAgree` and `ScheduledOnTime`. The invariant `Timing` says that snapshot
  and anchor are pairs of one instant: the distance from clock to position is
  that from server's now to time. It survives corrections because there are
  none, which it also says.
* `UnreadSurvivesInStep` and `UnreadSurvivesUncorrected`: `UnreadAudioSurvives`,
  with clocks of one pace or with corrections off. `Reach` adds that no position
  the task holds is ahead of the transmitter.
* `OverreachHolds`: `OverreachBounded`, without either assumption.
* `CorrectionsOppose`: `CorrectionsOpposeDrift`. The invariant `Planned` says that a
  schedule in force answers the median of a full history of samples.
* `StaysAhead`, `KeepsAnchor` and `NothingDropped`: with clocks of one pace and a
  steady server (`SteadyServer`), `RunningStaysAhead`, `HealthyLeadKeepsAnchor`, and that
  no chunk is evicted, left in the queue, dropped, trimmed or given up for a gap. The
  invariant `Steady` has four parts: the published position is the current one and
  the lead is kept (`Punctual`); at most one chunk is queued, the last one sent, and
  only inside a handler (`OneQueued`); chunks are placed under an anchor and at a
  position loaded (`Anchored`); a settled write position is where the stream's next
  frame belongs (`AtFrontier`). Together with `Timing` they put every chunk's target
  exactly at the write position and inside the horizon.
* `FrontierFilled`: `SettledFrontierIsFilled`, for clocks of any rate and under
  correction, if the stream is contiguous (`ContiguousStream`) and nothing is evicted
  (`NoneEvicted`); `FrontierFilledSteady`: a steady server makes both so. The
  invariant `Filling` says that queued chunks follow one another (`Chained`), that the
  next frame of the stream belongs no further on than what is written, or is late
  (`Reached`), and that a scheduler that is settled has an anchor (`Rooted`).
* `NeighboursMeet`: positions are truncated toward zero, on either side of the
  anchor's time and again in the length of a chunk. Where a rate has at most one frame
  to a microsecond, two chunks that follow one another in time never leave a gap, and
  the second begins at most two frames before the first ends.
* `DrainDescends`: `Work`, the stages of a handler ahead and the chunks queued, becomes
  less with every step of a handler and with none of the others in between. This is
  the argument for `DrainEnds` that does not depend on how far TLC looks; that an
  unfinished handler has a next step, and that fairness takes it, stays with TLC.

Assumptions. `SameClocks` is two ideal clocks: no drift to measure, the case in which
every correction would be an error. `SteadyServer` is a receiver that stays and a
server that sends without gaps, ahead of its time by more than a chunk less the
prebuffer, and not further than ring and queue have room for; that the sizes the
code computes leave this room to a server which keeps to its credit is itself proved
(`CreditHasRoom`, in `QueueProofs`). All three are assumptions on constants that the run
`healthy` satisfies, and `skew` satisfies `ContiguousStream` and, in every state,
`NoneEvicted`.

`QueueProofs` proves `BoundsHold` (`QueueBounded`). The bound on frames is tested against
a count kept by hand, so the invariant has to say that the count is right; a sum over
the queue is a recursion, which `Accounted` replaces by a sequence of partial sums
whose existence each push and pop maintains.

`CountIsSum` (`PendingAccounted`) says that the count is the sum as the library's fold
computes it. The fold is a recursive function over subsets of the queue's indices, of
which the provers know neither that it exists nor what it is. The proof exhibits a
solution of its equation that needs no recursion, the number of `Dots` (pairs of an
index and a number below the frames there); shows that there is only one solution, for
a least set on which two differ does not exist (`AddsUnique`); and counts the dots from
the last index up to match the partial sums (`TotalsAreSum`).

`CreditHasRoom`: with a ring of `RingBufferSize` and a queue of `MaxPendingFramesFor`, a
chunk that ends within the credit fits both. `PowerIsEnough` is the part about the next
power of two.

`LifecycleProofs` proves `Implements`: `Spec => ImplementsLifecycle`. The invariant
`Implementing` is the scheduler's `Lifecycle` and `QueueIsCurrent`, and that without a
stream nothing is heard, queued or anchored (`SilentWithoutStream`); under it one
lemma per group of actions names the abstract step (`ContractStart`, `ContractControl`,
`ContractWrite`, `ContractRefill`).

`FrameProofs` proves for every budget, interval, set of cadences and chunk size:

* `TypeCorrect`: a counter in use is never zero and never beyond its cadence.
* `RepeatSound`: `RepeatsWhatSounded`. `Anchoring` adds that without an anchor
  there is no frame to repeat, which is why sequential writes may pass it by.
* `TurnsComeRound`: `CorrectionsKeepComing`, from `Waiting`: a counter and the
  frames waited make up one cadence at most, whatever changes the schedule.
* `Budget`: `BudgetKept`. The invariant `Spacing` says that two corrections are at
  least `MinInterval` frames apart and that the counters keep the next one from
  coming sooner; `SpacedCount` counts: numbers so spaced are no more than
  `MaxCorrections` in a window of `TickFrames`. That the planner never asks for
  both directions at once (`Cadence`) is needed here.

`GainProofs` proves for every ramp length, taper and chunk size:

* `TypeCorrect`: no gain leaves the range from silence to unity. The invariant
  `Good` says so of every frame a ramp in progress has yet to reach, since a
  command may stop it at any of them.
* `TakesEffect`: `VolumeTakesEffect`, from `Following`, the relation of the frames
  left of the ramp and the frames since the command.
* `AdvanceIsApply`: `AdvanceMatchesApply`, from `InChunk`: after each frame of a
  chunk the ramp is what `advance` would have made of it at once.
* `NewAudio`: `NewAudioAtItsGain`; the invariant relates `lastTarget` to the level
  commanded once audio has followed the command.
* `Clickless`: `NoClicks`. The invariant `Smooth` says that no step is larger than that
  of a ramp over the full range, that the steps left lead to the target but for their
  rounding (`Gentle`: the last frame, which is set to the target, does not jump), and
  that the ramp is as far from the last frame heard as it may have moved over the
  frames dropped since. A command in the middle of a ramp starts from where that is.

`SubscriberProofs` proves for every period `TypeCorrect` and `LossKeepsItsTime`
(`LossNotPremature`). `Fresh` says that a known receiver whose position has been
looked at stands still at least as long as the age kept for it, which every
writer of the shared baseline must respect.

`SessionProofs` proves for every set of volumes and formats and channels of any length
`TypeCorrect`, `Decoded` (`DecodedAsSent`), `Agreed` (`QuietMeansAgreed`), `VolumeKept`
(`VolumeSurvives`) and `VolumeTold` (`ServerKnowsVolume`). `ChannelInv` says that the
stream messages in the channel are exactly the epochs from `handled` on, in order
(`Chained`), that each chunk has the format of its epoch (`ChunksFit`), and that the
bridge's stream is that of the epoch handled last, a refused one aside (`StreamFits`).
`StoreInv` says what file and temporary file hold at each step of a save.

`AddonProofs` proves for any number of entries `TypeCorrect`, `Apart` (`RunApart`) and
`NoneLeft` (`NoneLeftRunning`). The invariant adds that the entries looked at so far
do not clash, and that all have been looked at when a bridge runs.

Only model-checked: the liveness properties `ListenerReported`, `LeaverReported`,
`DrainEnds`, `ControlNotStarved`, `LossIsNoticed`, `StopEnds` and `OneDownAllDown`, for
liveness under fairness is beyond the prover. Every invariant and action property of a
passing run is stated by a theorem.

## Not modelled

* Start-up, command line and client id (`main.rs`): straight-line configuration and a
  hash, no state after it.
* Log metrics (`metrics.rs`) and the counters that feed the log: read by nobody.
* PCM decoding (`decode_pcm`): a pure conversion of samples, which have no values here.
* The statime add-on (packages an external daemon; its effect, a PTP clock that may
  jump, is in `PlayoutScheduler`), the test servers and analysers.
* Of the external crates, what the bridge does not use. In inferno a ring write and a
  ring read are one step each, where threads may really meet in one slot.
* Power loss during a save: nothing is synced, and what is left is the file system's
  affair.
* Chunks longer than the ring, whose horizon wraps round as an unsigned number: the
  models assume, as the code does, that the server does not send them.
* Two bridges side by side. That they sound together follows from `ScheduledOnTime` as
  far as their clocks are of one pace: each frame sounds one prebuffer after its
  timestamp in either. Under correction each bridge is within its own drift threshold,
  about which no property is stated.
