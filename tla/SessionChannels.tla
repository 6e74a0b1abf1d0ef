--------------------------- MODULE SessionChannels ---------------------------
(***************************************************************************)
(* A session of src/bridge.rs: the server sends one ordered stream of      *)
(* control messages and chunks, which the client splits in two channels;   *)
(* the bridge task selects from the two at random, saves and reports the   *)
(* volume, loses the connection, backs off and connects again.  A kill may *)
(* come at any step.  What a chunk or a control message does to the ring   *)
(* is in PlayoutScheduler.                                                 *)
(*                                                                         *)
(* To send is to reach the channel: what a lost connection takes with it   *)
(* on the way is as good as never sent.                                    *)
(***************************************************************************)
EXTENDS VolumeStore, Sequences

CONSTANTS
  Formats,   \* stream formats the bridge accepts
  Reporting, \* --report-dante-subscriber
  MessageCap, AudioCap,  \* bounds of an instance: what a channel holds
  MaxEpoch               \*   and the stream messages of a session, plus one

NoFormat == "none"
Refused == "refused"  \* any format the bridge does not accept

ASSUME SessionAssumption ==
  /\ {NoFormat, Refused} \cap Formats = {} /\ Reporting \in BOOLEAN
  /\ {MessageCap, AudioCap, MaxEpoch} \subseteq Nat

VARIABLES
  pc,       \* where the bridge task is
  linkUp,   \* the connection, as the client's reader task finds it
  messages, audio,  \* the two channels
  stream,   \* stream_format
  queued,   \* pending_sync_state or pending_player_state
  told,     \* the level the server was told
  \* What is needed to say what must be agreed.
  history,  \* what the server streams after each of its stream messages,
            \*   the session's begin counted as one
  handled   \* how many of those the bridge has handled

channels == <<messages, audio>>
epochs == <<history, handled>>
vars == <<pc, linkUp, channels, stream, queued, told, epochs, store>>

StreamKinds == {"start", "end", "clear"}

\* epoch: the stream messages sent up to and including this item.
Item(kind, format, epoch, l) ==
  [kind |-> kind, format |-> format, epoch |-> epoch, level |-> l]

InSession == pc \in {"select", "saving", "writing", "renaming", "sending"}

Streaming == history[Len(history)]

-----------------------------------------------------------------------------
(***************************************************************************)
(* The server and the connection.                                          *)
(***************************************************************************)
SendsStream(kind, format) ==
  /\ linkUp /\ Len(messages) < MessageCap /\ Len(history) < MaxEpoch
  /\ messages' = Append(messages, Item(kind, format, Len(history) + 1, Default))
  /\ history' = Append(history, format)
  /\ UNCHANGED <<pc, linkUp, audio, stream, queued, told, handled, store>>

SendStart == \E f \in Formats \cup {Refused} : SendsStream("start", f)
SendEnd == SendsStream("end", NoFormat)
SendClear == SendsStream("clear", Streaming)

Commands ==
  {Item("volume", Streaming, Len(history), [volume |-> v, muted |-> FALSE]) : v \in Volumes}
  \cup {Item("mute", Streaming, Len(history), [volume |-> 0, muted |-> m]) : m \in BOOLEAN}

SendCommand ==
  /\ linkUp /\ Len(messages) < MessageCap
  /\ \E c \in Commands : messages' = Append(messages, c)
  /\ UNCHANGED <<pc, linkUp, audio, stream, queued, told, epochs, store>>

SendChunk ==
  /\ linkUp /\ Len(audio) < AudioCap /\ Streaming # NoFormat
  /\ audio' = Append(audio, Item("chunk", Streaming, Len(history), Default))
  /\ UNCHANGED <<pc, linkUp, messages, stream, queued, told, epochs, store>>

LoseLink ==
  /\ linkUp /\ linkUp' = FALSE
  /\ UNCHANGED <<pc, channels, stream, queued, told, epochs, store>>

-----------------------------------------------------------------------------
(***************************************************************************)
(* Connecting, and the end of a session.                                   *)
(***************************************************************************)
\* A session's channels and what was in them end with it.
NoSession ==
  /\ linkUp' = FALSE
  /\ messages' = <<>> /\ audio' = <<>>
  /\ history' = <<NoFormat>> /\ handled' = 1

\* The handshake carries the level.
Connect ==
  /\ pc = "connecting" /\ pc' = "select"
  /\ linkUp' = TRUE
  /\ told' = level
  /\ queued' = (queued \/ Reporting)
  /\ UNCHANGED <<channels, stream, epochs, store>>

ConnectFails ==
  /\ pc = "connecting" /\ pc' = "backoff"
  /\ UNCHANGED <<linkUp, channels, stream, queued, told, epochs, store>>

Retry ==
  /\ pc = "backoff" /\ pc' = "connecting"
  /\ UNCHANGED <<linkUp, channels, stream, queued, told, epochs, store>>

\* Mutant: the stream survives its connection.
EndSessionKeepingStream ==
  /\ pc = "select" /\ pc' = "backoff"
  /\ ~linkUp /\ (messages = <<>> \/ audio = <<>>)
  /\ NoSession
  /\ UNCHANGED <<stream, queued, told, store>>

\* A channel that is closed and empty ends the session, though the other may
\* still hold something; run enters Idle.
EndSession ==
  /\ pc = "select" /\ pc' = "backoff"
  /\ ~linkUp /\ (messages = <<>> \/ audio = <<>>)
  /\ NoSession
  /\ stream' = NoFormat
  /\ UNCHANGED <<queued, told, store>>

\* The process ends, and its memory with it.
Ends ==
  /\ pc' = "down"
  /\ NoSession
  /\ stream' = NoFormat /\ queued' = FALSE
  /\ UNCHANGED <<told, store>>

\* Ctrl-C is heard in the select only; SIGTERM, or a crash, anywhere.
Interrupt == pc = "select" /\ Ends
Kill == pc # "down" /\ Ends

Boot ==
  /\ pc = "down" /\ pc' = "connecting"
  /\ LoadLevel
  /\ UNCHANGED <<linkUp, channels, stream, queued, told, epochs>>

-----------------------------------------------------------------------------
(***************************************************************************)
(* The loop of run_session: one branch of the select, then whatever there  *)
(* is to report.                                                           *)
(***************************************************************************)
AfterBranch == pc' = IF queued' THEN "sending" ELSE "select"

\* Mutant: a new start keeps the format of the stream that is open.
AcceptedKeepingFormat(m) == IF stream = NoFormat THEN m.format ELSE stream

\* A stream start the bridge accepts sets its format.
Accepted(m) == m.format

\* What handle_message makes of stream_format; a refused start returns early.
HandledStream(m) ==
  CASE m.kind = "end" -> NoFormat
    [] m.kind = "start" /\ m.format # Refused -> Accepted(m)
    [] OTHER -> stream

HandleStreamMessage ==
  /\ pc = "select" /\ messages # <<>> /\ Head(messages).kind \in StreamKinds
  /\ LET m == Head(messages)
     IN  /\ stream' = HandledStream(m)
         /\ queued' = (queued \/ m.kind # "start" \/ m.format # Refused)
         /\ handled' = m.epoch
  /\ messages' = Tail(messages)
  /\ AfterBranch
  /\ UNCHANGED <<linkUp, audio, told, history, store>>

HandleCommand ==
  /\ pc = "select" /\ messages # <<>> /\ Head(messages).kind \notin StreamKinds
  /\ LET m == Head(messages)
     IN  IF m.kind = "volume"
         THEN SetLevel([level EXCEPT !.volume = Clamped(m.level.volume)])
         ELSE SetLevel([level EXCEPT !.muted = m.level.muted])
  /\ messages' = Tail(messages)
  /\ pc' = "saving"
  /\ UNCHANGED <<linkUp, audio, stream, queued, told, epochs>>

\* Mutant: a command is not reported back.
SavedUnreported ==
  UNCHANGED queued /\ AfterBranch

\* queue_player_state, once save_volume_state has returned.
SaveReturns ==
  queued' = TRUE /\ AfterBranch

SaveStep ==
  /\ \/ pc = "saving" /\ pc' = "writing" /\ OpenTmp /\ UNCHANGED queued
     \/ pc = "writing" /\ pc' = "renaming" /\ WriteTmp /\ UNCHANGED queued
     \/ pc = "renaming" /\ Rename /\ SaveReturns
     \/ pc \in {"saving", "writing", "renaming"} /\ GiveUp /\ SaveReturns
  /\ UNCHANGED <<linkUp, channels, stream, told, epochs>>

HandleAudio ==
  /\ pc = "select" /\ audio # <<>>
  /\ audio' = Tail(audio)
  /\ UNCHANGED queued /\ AfterBranch
  /\ UNCHANGED <<linkUp, messages, stream, told, epochs, store>>

\* A timer branch may find a receiver come or gone (SubscriberReport).
Timer ==
  /\ pc = "select" /\ Reporting
  /\ queued' = TRUE /\ AfterBranch
  /\ UNCHANGED <<linkUp, channels, stream, told, epochs, store>>

\* Mutant: a report waits for a connection to take it.
SendWhenLinked ==
  /\ pc = "sending" /\ linkUp /\ pc' = "select"
  /\ queued' = FALSE /\ told' = level
  /\ UNCHANGED <<linkUp, channels, stream, epochs, store>>

\* Every report carries the level of the moment; one that fails is dropped.
Send ==
  /\ pc = "sending" /\ pc' = "select"
  /\ queued' = FALSE
  /\ told' = IF linkUp THEN level ELSE told
  /\ UNCHANGED <<linkUp, channels, stream, epochs, store>>

-----------------------------------------------------------------------------
Init ==
  /\ pc = "connecting" /\ linkUp = FALSE
  /\ messages = <<>> /\ audio = <<>>
  /\ stream = NoFormat /\ queued = FALSE
  /\ history = <<NoFormat>> /\ handled = 1
  /\ StoreInit
  /\ told = level

\* Mutant: the select looks at the audio first.
HandleMessageAfterAudio ==
  audio = <<>> /\ (HandleStreamMessage \/ HandleCommand)

HandleMessage == HandleStreamMessage \/ HandleCommand

Next ==
  \/ SendStart \/ SendEnd \/ SendClear \/ SendCommand \/ SendChunk
  \/ LoseLink
  \/ Connect \/ ConnectFails \/ Retry \/ EndSession \/ Interrupt \/ Kill \/ Boot
  \/ HandleMessage \/ SaveStep \/ HandleAudio \/ Timer \/ Send

Spec == Init /\ [][Next]_vars

\* The select takes a ready branch at random, so a branch that is ready again
\* and again is taken; what a branch began ends (a write to the file or to
\* the connection returns, well or not).
FairSpec ==
  /\ Spec
  /\ SF_vars(HandleMessage) /\ SF_vars(EndSession)
  /\ WF_vars(SaveStep) /\ WF_vars(Send)

-----------------------------------------------------------------------------
(***************************************************************************)
(* What the bridge, the server and the file must agree on.                 *)
(***************************************************************************)
TypeOK ==
  /\ pc \in {"down", "connecting", "backoff", "select",
             "saving", "writing", "renaming", "sending"}
  /\ linkUp \in BOOLEAN /\ queued \in BOOLEAN
  /\ stream \in Formats \cup {NoFormat}
  /\ told \in Levels
  /\ history \in Seq(Formats \cup {NoFormat, Refused})
  /\ handled \in 1 .. Len(history)
  /\ StoreTypeOK

\* A chunk is decoded in the format it was sent in (decode_pcm takes the
\* stream's), whatever of several sessions and streams is still in the
\* channels.  Two exceptions: a stream message the chunk has overtaken, or
\* that has overtaken it, and a stream whose start the bridge refused.
DecodedAsSent ==
  \A i \in 1 .. Len(audio) :
    audio[i].epoch = handled => audio[i].format \in {stream, Refused}

\* When the bridge has handled what the server has sent, both mean the same
\* stream, or none; a refused start aside, which the server is not told of.
QuietMeansAgreed ==
  InSession /\ handled = Len(history) => Streaming \in {stream, Refused}

\* Between two turns of the loop the server knows the volume, as long as it
\* can be told.
ServerKnowsVolume == pc = "select" /\ linkUp => told = level

\* Wherever a save is cut off by a kill, the next start finds the level last
\* commanded or the one before it, and nothing else, unless the last save
\* has failed: the file is never half written and never missing.
VolumeSurvives == ~failed => Loaded(file) \in {level, previous}

\* However much audio keeps coming, a stream message that has reached its
\* channel is handled, unless the session ends first.
ControlNotStarved ==
  handled # Len(history) ~> handled = Len(history) \/ ~InSession

\* A lost connection is noticed, and audio with it, also in the middle of a
\* report or a save.
LossIsNoticed == InSession /\ ~linkUp ~> ~InSession
=============================================================================
