--------------------------- MODULE BridgeLifecycle ---------------------------
(***************************************************************************)
(* What a bridge promises its listener, whatever the schedule inside it:   *)
(* which control event leads to which stage, when audio may appear in the  *)
(* ring, of which stream, and when it must be gone.  PlayoutScheduler      *)
(* implements it.                                                          *)
(***************************************************************************)
EXTENDS Naturals

VARIABLES
  now,    \* the position the transmitter plays next
  epoch,  \* control events so far
  open,   \* a stream is open
  stage,  \* the bridge's state
  audio   \* frames of audio that can still be heard

vars == <<now, epoch, open, stage, audio>>

Init ==
  /\ now \in Nat
  /\ epoch = 0
  /\ open = FALSE
  /\ stage = "Idle"
  /\ audio = {}

\* The transmitter plays what is due and nothing twice.
Play ==
  /\ now' >= now
  /\ audio' = {f \in audio : f.pos >= now'}
  /\ UNCHANGED <<epoch, open, stage>>

-----------------------------------------------------------------------------
(* Control events take audio away; they never add any. *)
Event ==
  /\ epoch' = epoch + 1
  /\ audio' \subseteq audio
  /\ UNCHANGED now

\* Only a running bridge restarts without looking for its receiver again.
Start ==
  /\ Event
  /\ open' = TRUE
  /\ stage' \in {"WaitingForSubscriber", "Prebuffering", "Rebuffering"}
  /\ stage' = "Rebuffering" => stage = "Running"

\* A clear that finds no stream opens none.
Clear ==
  /\ Event
  /\ stage' = "Rebuffering"
  /\ UNCHANGED open

\* The end of a stream, or of the connection.
Stop ==
  /\ Event
  /\ audio' = {}
  /\ open' = FALSE
  /\ stage' = "Idle"

-----------------------------------------------------------------------------
\* Audio of the current epoch, ahead of the transmitter, for an open stream.
\* A bridge runs once it has filled its prebuffer, and only then.
Write ==
  /\ open /\ stage # "Idle"
  /\ \A f \in audio' \ audio : f.pos >= now /\ f.epoch = epoch
  /\ stage' # stage => stage \in {"Prebuffering", "Rebuffering"} /\ stage' = "Running"
  /\ UNCHANGED <<now, epoch, open>>

\* The bridge starts afresh on its own: its receiver is there (or was waited
\* for long enough), or the stream or the clock has jumped.
Refill ==
  /\ open /\ stage # "Idle"
  /\ audio' \subseteq audio
  /\ stage' \in {"Prebuffering", "Rebuffering"}
  /\ UNCHANGED <<now, epoch, open>>

Next == Play \/ Start \/ Clear \/ Stop \/ Write \/ Refill

Spec == Init /\ [][Next]_vars
=============================================================================
