---------------------------- MODULE SessionProofs ----------------------------
(***************************************************************************)
(* Theorems about sessions and the volume file, for every set of formats   *)
(* and volumes and channels of every length.                               *)
(***************************************************************************)
EXTENDS SessionChannels, TLAPS

-----------------------------------------------------------------------------
(***************************************************************************)
(* Sequences.                                                              *)
(***************************************************************************)
LEMMA TailFacts ==
  ASSUME NEW S, NEW s \in Seq(S), s # <<>>
  PROVE  /\ Len(s) \in Nat \ {0} /\ Head(s) = s[1] /\ Head(s) \in S
         /\ Tail(s) \in Seq(S) /\ Len(Tail(s)) = Len(s) - 1
         /\ \A i \in 1 .. Len(s) - 1 : Tail(s)[i] = s[i + 1]
  OBVIOUS

LEMMA AppendFacts ==
  ASSUME NEW S, NEW s \in Seq(S), NEW x \in S
  PROVE  /\ Append(s, x) \in Seq(S) /\ Len(Append(s, x)) = Len(s) + 1
         /\ Append(s, x)[Len(s) + 1] = x
         /\ \A i \in 1 .. Len(s) : Append(s, x)[i] = s[i]
  OBVIOUS

-----------------------------------------------------------------------------
(***************************************************************************)
(* The volume and its file.                                                *)
(***************************************************************************)
LEMMA LoadedInRange ==
  ASSUME NEW f \in Contents
  PROVE  Loaded(f) \in Levels
<1>1. /\ FullVolume \in Nat /\ Volumes \subseteq Nat /\ Default \in Levels
  BY VolumeAssumption DEF Default, Levels
<1>2. CASE f \in {Absent, CutOff}
  BY <1>1, <1>2 DEF Loaded, Absent, CutOff
<1>3. CASE f \notin {Absent, CutOff}
  <2>1. PICK v \in Volumes \cup 0 .. FullVolume, m \in BOOLEAN :
           f = Holding([volume |-> v, muted |-> m])
    BY <1>3 DEF Contents, HoldingAny, Holding
  <2>2. Loaded(f) = [volume |-> Clamped(v), muted |-> m]
    BY <2>1 DEF Loaded, Holding
  <2>3. Clamped(v) \in 0 .. FullVolume
    BY <1>1 DEF Clamped
  <2> QED
    BY <2>2, <2>3 DEF Levels
<1> QED
  BY <1>2, <1>3

\* What is saved is loaded back.
LEMMA SavedIsLoaded ==
  ASSUME NEW l \in Levels
  PROVE  Holding(l) \in Contents /\ Loaded(Holding(l)) = l
<1>1. PICK v \in 0 .. FullVolume, m \in BOOLEAN : l = [volume |-> v, muted |-> m]
  BY DEF Levels
<1>2. Clamped(v) = v
  BY VolumeAssumption DEF Clamped
<1>3. Loaded(Holding(l)) = [volume |-> Clamped(v), muted |-> m]
  BY <1>1 DEF Loaded, Holding
<1>4. Loaded(Holding(l)) = l
  BY <1>1, <1>2, <1>3
<1>5. Holding([volume |-> v, muted |-> m]) \in Contents
  BY DEF Contents, HoldingAny, Holding
<1> QED
  BY <1>1, <1>4, <1>5

\* Outside a save the file holds the level, unless the last save has failed;
\* during one, a kill leaves the level before it or the level itself.
StoreInv ==
  /\ StoreTypeOK
  /\ ~failed => Loaded(file) \in {level, previous}
  /\ ~failed /\ pc \notin {"saving", "writing", "renaming", "down"} => Loaded(file) = level
  /\ pc = "renaming" => tmp = Holding(level)

LEMMA StoreInitially == Init => StoreInv
<1> SUFFICES ASSUME Init PROVE StoreInv
  OBVIOUS
<1>1. file \in Contents /\ tmp \in Contents
  BY DEF Init, StoreInit, Contents, HoldingAny
<1>2. level \in Levels /\ previous = level /\ level = Loaded(file) /\ failed = FALSE
  BY <1>1, LoadedInRange DEF Init, StoreInit
<1> QED
  BY <1>1, <1>2 DEF Init, StoreInv, StoreTypeOK

LEMMA SettingKeepsStore ==
  ASSUME StoreInv, pc = "select", pc' = "saving", NEW l \in Levels, SetLevel(l)
  PROVE  StoreInv'
<1>1. /\ level' = l /\ previous' = level
      /\ UNCHANGED <<file, tmp, failed>>
  BY DEF SetLevel
<1>2. Loaded(file)' = Loaded(file)
  BY <1>1 DEF Loaded
<1> QED
  BY <1>1, <1>2 DEF StoreInv, StoreTypeOK

LEMMA SaveKeepsStore ==
  ASSUME StoreInv, SaveStep
  PROVE  StoreInv'
<1>1. CASE pc = "saving" /\ pc' = "writing" /\ OpenTmp
  <2>1. tmp' = CutOff /\ UNCHANGED <<level, file, previous, failed>>
    BY <1>1 DEF OpenTmp
  <2>2. Loaded(file)' = Loaded(file) /\ CutOff \in Contents
    BY <2>1 DEF Loaded, Contents
  <2> QED
    BY <1>1, <2>1, <2>2 DEF StoreInv, StoreTypeOK
<1>2. CASE pc = "writing" /\ pc' = "renaming" /\ WriteTmp
  <2>1. tmp' = Holding(level) /\ UNCHANGED <<level, file, previous, failed>>
    BY <1>2 DEF WriteTmp
  <2>2. Loaded(file)' = Loaded(file) /\ Holding(level)' = Holding(level)
    BY <2>1 DEF Loaded, Holding
  <2>3. Holding(level) \in Contents
    BY SavedIsLoaded DEF StoreInv, StoreTypeOK
  <2> QED
    BY <1>2, <2>1, <2>2, <2>3 DEF StoreInv, StoreTypeOK
<1>3. CASE pc = "renaming" /\ Rename /\ SaveReturns
  <2>1. /\ file' = Holding(level) /\ tmp' = Absent
        /\ previous' = level /\ failed' = FALSE /\ level' = level
    BY <1>3 DEF Rename, StoreInv
  <2>2. Holding(level) \in Contents /\ Loaded(Holding(level)) = level
    BY SavedIsLoaded DEF StoreInv, StoreTypeOK
  <2>3. Loaded(file)' = level' /\ Absent \in Contents
    BY <2>1, <2>2 DEF Loaded, Contents
  <2>4. pc' # "renaming"
    BY <1>3 DEF SaveReturns, AfterBranch
  <2> QED
    BY <2>1, <2>2, <2>3, <2>4 DEF StoreInv, StoreTypeOK
<1>4. CASE GiveUp /\ SaveReturns
  BY <1>4 DEF GiveUp, SaveReturns, AfterBranch, StoreInv, StoreTypeOK
<1> QED
  BY <1>1, <1>2, <1>3, <1>4 DEF SaveStep

LEMMA BootKeepsStore ==
  ASSUME StoreInv, Boot
  PROVE  StoreInv'
<1>1. /\ level' = Loaded(file) /\ previous' = Loaded(file) /\ failed' = FALSE
      /\ UNCHANGED <<file, tmp>> /\ pc' = "connecting"
  BY DEF Boot, LoadLevel
<1>2. Loaded(file)' = Loaded(file)
  BY <1>1 DEF Loaded
<1>3. Loaded(file) \in Levels
  BY LoadedInRange DEF StoreInv, StoreTypeOK
<1> QED
  BY <1>1, <1>2, <1>3 DEF StoreInv, StoreTypeOK

\* A step that leaves the store alone, and begins and ends no save.
LEMMA ElsewhereKeepsStore ==
  ASSUME StoreInv, UNCHANGED store,
         \/ pc' = pc
         \/ pc' \in {"down"}
         \/ pc \notin {"saving", "writing", "renaming", "down"} /\ pc' # "renaming"
  PROVE  StoreInv'
<1>1. UNCHANGED <<level, file, tmp, previous, failed>>
  BY DEF store
<1>2. Loaded(file)' = Loaded(file) /\ Holding(level)' = Holding(level)
  BY <1>1 DEF Loaded, Holding
<1> QED
  BY <1>1, <1>2 DEF StoreInv, StoreTypeOK

-----------------------------------------------------------------------------
(***************************************************************************)
(* The stream and its channels.                                            *)
(***************************************************************************)
Told == Formats \cup {NoFormat, Refused}
MessageItems ==
  [kind : StreamKinds \cup {"volume", "mute"}, format : Told, epoch : Nat,
   level : [volume : Nat, muted : BOOLEAN]]
ChunkItems ==
  [kind : {"chunk"}, format : Told, epoch : Nat, level : Levels]

SessionTypes ==
  /\ pc \in {"down", "connecting", "backoff", "select",
             "saving", "writing", "renaming", "sending"}
  /\ linkUp \in BOOLEAN /\ queued \in BOOLEAN
  /\ stream \in Formats \cup {NoFormat}
  /\ told \in Levels
  /\ history \in Seq(Told) /\ Len(history) >= 1
  /\ handled \in 1 .. Len(history)
  /\ messages \in Seq(MessageItems) /\ audio \in Seq(ChunkItems)

\* The epoch a message is handled in.
Before(i) == IF i = 1 THEN handled ELSE messages[i - 1].epoch
Step(kind) == IF kind \in StreamKinds THEN 1 ELSE 0

\* A stream message is one epoch on from the message before it, and says what
\* the server has streamed since.
MessageFits(i) ==
  LET m == messages[i]
  IN  /\ m.epoch \in 1 .. Len(history)
      /\ m.epoch = Before(i) + Step(m.kind)
      /\ m.kind \in {"start", "end"} => history[m.epoch] = m.format
      /\ m.kind = "start" => m.format # NoFormat
      /\ m.kind = "end" => m.format = NoFormat
      /\ m.kind = "clear" => history[m.epoch] = history[Before(i)]

Chained ==
  /\ \A i \in 1 .. Len(messages) : MessageFits(i)
  /\ Before(Len(messages) + 1) = Len(history)

\* A chunk has the format that was streamed when it was sent, the bridge that
\* of the last stream message it has handled, unless that was refused.
ChunksFit ==
  \A i \in 1 .. Len(audio) :
    audio[i].epoch \in 1 .. Len(history) /\ audio[i].format = history[audio[i].epoch]

StreamFits == history[handled] \in {stream, Refused}

Unconnected ==
  /\ stream = NoFormat /\ linkUp = FALSE
  /\ messages = <<>> /\ audio = <<>>
  /\ history = <<NoFormat>> /\ handled = 1

ChannelInv ==
  /\ SessionTypes /\ Chained /\ ChunksFit /\ StreamFits
  /\ ~InSession => Unconnected

LEMMA UnconnectedFits ==
  ASSUME messages = <<>>, audio = <<>>, history = <<NoFormat>>, handled = 1,
         stream = NoFormat
  PROVE  Chained /\ ChunksFit /\ StreamFits
<1>1. /\ Len(messages) = 0 /\ Len(audio) = 0 /\ Len(history) = 1
      /\ history[1] = NoFormat
  OBVIOUS
<1> QED
  BY <1>1 DEF Chained, ChunksFit, StreamFits, Before

LEMMA ChannelsInitially == Init => ChannelInv
<1> SUFFICES ASSUME Init PROVE ChannelInv
  OBVIOUS
<1>1. Unconnected
  BY DEF Init, Unconnected
<1>2. Chained /\ ChunksFit /\ StreamFits
  BY <1>1, UnconnectedFits DEF Unconnected
<1>3. level \in Levels
  BY StoreInitially DEF StoreInv, StoreTypeOK
<1>4. SessionTypes
  <2>1. history \in Seq(Told) /\ Len(history) = 1
    BY <1>1 DEF Unconnected, Told
  <2>2. messages \in Seq(MessageItems) /\ audio \in Seq(ChunkItems)
    BY <1>1 DEF Unconnected
  <2>3. told \in Levels /\ pc = "connecting" /\ queued \in BOOLEAN
    BY <1>3 DEF Init
  <2>4. linkUp \in BOOLEAN /\ stream \in Formats \cup {NoFormat}
    BY <1>1 DEF Unconnected
  <2>5. handled \in 1 .. Len(history) /\ Len(history) >= 1
    BY <1>1, <2>1 DEF Unconnected
  <2> QED
    BY <2>1, <2>2, <2>3, <2>4, <2>5, Zenon DEF SessionTypes
<1> QED
  BY <1>1, <1>2, <1>4 DEF ChannelInv

\* The end of a session, or of the process.
LEMMA EndKeepsChannels ==
  ASSUME ChannelInv, NoSession, stream' = NoFormat, queued' \in BOOLEAN, told' = told,
         pc' \in {"backoff", "down"}
  PROVE  ChannelInv'
<1>1. Unconnected'
  BY DEF NoSession, Unconnected
<1>2. Chained' /\ ChunksFit' /\ StreamFits'
  <2>1. /\ Len(messages') = 0 /\ Len(audio') = 0 /\ Len(history') = 1
        /\ history'[1] = NoFormat
    BY <1>1 DEF Unconnected
  <2> QED
    BY <1>1, <2>1 DEF Unconnected, Chained, ChunksFit, StreamFits, Before
<1>3. SessionTypes'
  <2>1. history' \in Seq(Told) /\ Len(history') = 1
    BY <1>1 DEF Unconnected, Told
  <2>2. messages' \in Seq(MessageItems) /\ audio' \in Seq(ChunkItems)
    BY <1>1 DEF Unconnected
  <2>3. linkUp' \in BOOLEAN /\ stream' \in Formats \cup {NoFormat}
    BY <1>1 DEF Unconnected
  <2>4. told' \in Levels
    BY DEF ChannelInv, SessionTypes
  <2>5. handled' \in 1 .. Len(history') /\ Len(history') >= 1
    BY <1>1, <2>1 DEF Unconnected
  <2> QED
    BY <2>1, <2>2, <2>3, <2>4, <2>5, Zenon DEF SessionTypes
<1> QED
  BY <1>1, <1>2, <1>3 DEF ChannelInv

\* A step that leaves the stream, the channels and their epochs alone.
LEMMA ElsewhereKeepsChannels ==
  ASSUME ChannelInv, UNCHANGED <<channels, stream, epochs>>,
         linkUp' \in BOOLEAN, queued' \in BOOLEAN, told' \in Levels,
         \/ linkUp' \in {linkUp, FALSE} /\ pc' \in {"connecting", "backoff"} /\ ~InSession
         \/ pc' \in {"select", "saving", "writing", "renaming", "sending"}
  PROVE  ChannelInv'
<1>1. UNCHANGED <<messages, audio, stream, history, handled>>
  BY DEF channels, epochs
<1>2. Chained' /\ ChunksFit' /\ StreamFits'
  BY <1>1 DEF ChannelInv, Chained, ChunksFit, StreamFits, Before, MessageFits
<1>3. SessionTypes'
  BY <1>1 DEF ChannelInv, SessionTypes
<1>4. (~InSession => Unconnected)'
  BY <1>1 DEF ChannelInv, InSession, Unconnected
<1> QED
  BY <1>2, <1>3, <1>4 DEF ChannelInv

\* What an item that is sent adds to the chain.
LEMMA SentIsChained ==
  ASSUME ChannelInv, NEW x \in MessageItems,
         messages' = Append(messages, x), handled' = handled,
         history' \in Seq(Told), x.epoch = Len(history'),
         Len(history') = Len(history) + Step(x.kind),
         \A e \in 1 .. Len(history) : history'[e] = history[e],
         x.kind \in {"start", "end"} => history'[x.epoch] = x.format,
         x.kind = "start" => x.format # NoFormat,
         x.kind = "end" => x.format = NoFormat,
         x.kind = "clear" => history'[x.epoch] = history[Len(history)]
  PROVE  Chained' /\ messages' \in Seq(MessageItems) /\ handled' \in 1 .. Len(history')
<1>0. PICK n \in Nat, h \in Nat : n = Len(messages) /\ h = Len(history)
  BY DEF ChannelInv, SessionTypes
<1>1. /\ messages \in Seq(MessageItems) /\ n \in Nat
      /\ h \in Nat /\ h >= 1 /\ handled \in 1 .. h
  BY <1>0 DEF ChannelInv, SessionTypes
<1>2. /\ messages' \in Seq(MessageItems) /\ Len(messages') = n + 1
      /\ messages'[n + 1] = x
      /\ \A i \in 1 .. n : messages'[i] = messages[i]
  BY <1>0, <1>1, AppendFacts
<1>3. Step(x.kind) \in {0, 1} /\ Len(history') >= h
  BY <1>0, <1>1 DEF Step
<1>4. \A i \in 1 .. n : MessageFits(i)
  BY <1>0 DEF ChannelInv, Chained
<1>5. \A i \in 1 .. n + 1 : Before(i) \in 1 .. h /\ Before(i)' = Before(i)
  <2> SUFFICES ASSUME NEW i \in 1 .. n + 1
               PROVE  Before(i) \in 1 .. h /\ Before(i)' = Before(i)
    OBVIOUS
  <2>1. CASE i = 1
    BY <1>1, <2>1 DEF Before
  <2>2. CASE i # 1
    <3>1. i - 1 \in 1 .. n
      BY <1>1, <2>2
    <3>2. messages[i - 1].epoch \in 1 .. h /\ messages'[i - 1] = messages[i - 1]
      BY <1>0, <1>2, <1>4, <3>1 DEF MessageFits
    <3> QED
      BY <2>2, <3>2 DEF Before
  <2> QED
    BY <2>1, <2>2
<1>6. Before(n + 1) = h
  BY <1>0 DEF ChannelInv, Chained
<1>7. ASSUME NEW i \in 1 .. n
      PROVE  MessageFits(i)'
  <2>1. /\ i \in 1 .. n + 1 /\ messages'[i] = messages[i]
        /\ messages[i].epoch \in 1 .. h /\ messages[i].epoch \in 1 .. Len(history')
    BY <1>0, <1>1, <1>2, <1>3, <1>4 DEF MessageFits
  <2>2. Before(i) \in 1 .. h /\ Before(i)' = Before(i)
    BY <1>5, <2>1
  <2>3. /\ history'[messages[i].epoch] = history[messages[i].epoch]
        /\ history'[Before(i)] = history[Before(i)]
    BY <1>0, <2>1, <2>2
  <2>4. MessageFits(i)
    BY <1>4
  <2> QED
    BY <2>1, <2>2, <2>3, <2>4 DEF MessageFits
<1>8. MessageFits(n + 1)'
  <2>1. Before(n + 1)' = h /\ messages'[n + 1] = x /\ history'[h] = history[h]
    BY <1>0, <1>1, <1>2, <1>5, <1>6
  <2>2. x.epoch = h + Step(x.kind) /\ x.epoch \in 1 .. Len(history')
    BY <1>0, <1>1, <1>3
  <2> QED
    BY <1>0, <2>1, <2>2 DEF MessageFits
<1>9. Before(Len(messages) + 1)' = Len(history')
  <2>1. Len(messages') + 1 = n + 2 /\ n + 2 # 1 /\ (n + 2) - 1 = n + 1
    BY <1>1, <1>2
  <2> QED
    BY <1>2, <2>1 DEF Before
<1>10. handled' \in 1 .. Len(history')
  BY <1>1, <1>3
<1>11. \A i \in 1 .. Len(messages') : MessageFits(i)'
  <2>1. \A i \in 1 .. Len(messages') : i \in 1 .. n \/ i = n + 1
    BY <1>1, <1>2
  <2> QED
    BY <1>7, <1>8, <2>1
<1> QED
  BY <1>2, <1>9, <1>10, <1>11 DEF Chained

\* A message that is handled is the next of the chain.
LEMMA HandledIsChained ==
  ASSUME ChannelInv, messages # <<>>,
         messages' = Tail(messages), handled' = Head(messages).epoch, history' = history
  PROVE  /\ Chained' /\ messages' \in Seq(MessageItems) /\ handled' \in 1 .. Len(history')
         /\ Head(messages) \in MessageItems
         /\ Head(messages) = messages[1] /\ MessageFits(1) /\ Before(1) = handled
<1>0. PICK n \in Nat : n = Len(messages)
  BY DEF ChannelInv, SessionTypes
<1>1. /\ n \in Nat \ {0} /\ Head(messages) = messages[1] /\ Head(messages) \in MessageItems
      /\ messages' \in Seq(MessageItems) /\ Len(messages') = n - 1
      /\ \A i \in 1 .. n - 1 : messages'[i] = messages[i + 1]
  BY <1>0, TailFacts DEF ChannelInv, SessionTypes
<1>2. \A i \in 1 .. n : MessageFits(i)
  BY <1>0 DEF ChannelInv, Chained
<1>3. ASSUME NEW i \in 1 .. n
      PROVE  Before(i)' = Before(i + 1)
  <2>1. i + 1 # 1 /\ (i + 1) - 1 = i
    BY <1>1
  <2>2. CASE i = 1
    BY <1>1, <2>1, <2>2 DEF Before
  <2>3. CASE i # 1
    <3>1. i - 1 \in 1 .. n - 1 /\ (i - 1) + 1 = i
      BY <1>1, <2>3
    <3>2. messages'[i - 1] = messages[i]
      BY <1>1, <3>1
    <3> QED
      BY <2>1, <2>3, <3>2 DEF Before
  <2> QED
    BY <2>2, <2>3
<1>4. ASSUME NEW i \in 1 .. n - 1
      PROVE  MessageFits(i)'
  <2>1. i \in 1 .. n /\ i + 1 \in 1 .. n /\ messages'[i] = messages[i + 1]
    BY <1>1
  <2>2. Before(i)' = Before(i + 1) /\ MessageFits(i + 1)
    BY <1>2, <1>3, <2>1
  <2> QED
    BY <2>1, <2>2 DEF MessageFits
<1>5. Before(Len(messages) + 1)' = Len(history')
  <2>1. Len(messages') + 1 = n /\ n \in 1 .. n
    BY <1>1
  <2>2. Before(n)' = Before(n + 1)
    BY <1>3, <2>1
  <2>3. Before(n + 1) = Len(history)
    BY <1>0 DEF ChannelInv, Chained
  <2> QED
    BY <2>1, <2>2, <2>3 DEF Before
<1>6. MessageFits(1) /\ messages[1].epoch \in 1 .. Len(history)
  BY <1>1, <1>2 DEF MessageFits
<1>7. \A i \in 1 .. Len(messages') : MessageFits(i)'
  BY <1>1, <1>4
<1> QED
  BY <1>1, <1>5, <1>6, <1>7 DEF Chained, Before

-----------------------------------------------------------------------------
(***************************************************************************)
(* Every step keeps both invariants.                                       *)
(***************************************************************************)
LEMMA DefaultInRange == Default \in Levels
  BY VolumeAssumption DEF Default, Levels

LEMMA SendStreamStep ==
  ASSUME ChannelInv, NEW kind \in StreamKinds, NEW format \in Told,
         SendsStream(kind, format),
         kind = "start" => format # NoFormat,
         kind = "end" => format = NoFormat,
         kind = "clear" => format = Streaming
  PROVE  ChannelInv'
<1>1. PICK h \in Nat : h = Len(history) /\ h >= 1 /\ history \in Seq(Told)
  BY DEF ChannelInv, SessionTypes
<1> DEFINE x == Item(kind, format, h + 1, Default)
<1>2. /\ linkUp /\ messages' = Append(messages, x)
      /\ history' = Append(history, format)
      /\ UNCHANGED <<pc, linkUp, audio, stream, queued, told, handled>>
  BY <1>1 DEF SendsStream
<1>3. /\ x.kind = kind /\ x.format = format /\ x.epoch = h + 1 /\ x \in MessageItems
  BY <1>1, DefaultInRange, VolumeAssumption DEF Item, MessageItems, Levels
<1> HIDE DEF x
<1>4. /\ history' \in Seq(Told) /\ Len(history') = h + 1
      /\ history'[h + 1] = format
      /\ \A e \in 1 .. h : history'[e] = history[e]
  BY <1>1, <1>2, AppendFacts
<1>5. Chained' /\ messages' \in Seq(MessageItems) /\ handled' \in 1 .. Len(history')
  <2>1. Step(x.kind) = 1
    BY <1>3 DEF Step
  <2> QED
    BY <1>1, <1>2, <1>3, <1>4, <2>1, SentIsChained DEF Streaming
<1>6. ChunksFit'
  BY <1>1, <1>2, <1>4 DEF ChannelInv, ChunksFit
<1>7. StreamFits'
  <2>1. handled \in 1 .. h
    BY <1>1 DEF ChannelInv, SessionTypes
  <2> QED
    BY <1>2, <1>4, <2>1 DEF ChannelInv, StreamFits
<1>8. SessionTypes'
  <2>1. Len(history') >= 1
    BY <1>1, <1>4
  <2> QED
    BY <1>2, <1>4, <1>5, <2>1 DEF ChannelInv, SessionTypes
<1>9. InSession'
  BY <1>2 DEF ChannelInv, Unconnected, InSession
<1> QED
  BY <1>5, <1>6, <1>7, <1>8, <1>9 DEF ChannelInv

LEMMA SendCommandStep ==
  ASSUME ChannelInv, SendCommand
  PROVE  ChannelInv'
<1>1. PICK h \in Nat : h = Len(history) /\ h >= 1 /\ history \in Seq(Told)
  BY DEF ChannelInv, SessionTypes
<1>2. PICK x \in Commands : messages' = Append(messages, x)
  BY DEF SendCommand
<1>3. /\ linkUp
      /\ UNCHANGED <<pc, linkUp, audio, stream, queued, told, history, handled>>
  BY DEF SendCommand, epochs
<1>4. x.kind \in {"volume", "mute"} /\ x.epoch = h /\ x \in MessageItems
  <2>1. Streaming \in Told
    BY <1>1 DEF Streaming
  <2>2. Volumes \subseteq Nat
    BY VolumeAssumption
  <2>3. PICK kind \in {"volume", "mute"}, v \in Nat, m \in BOOLEAN :
           x = Item(kind, Streaming, h, [volume |-> v, muted |-> m])
    <3>1. \/ \E v \in Volumes : x = Item("volume", Streaming, h, [volume |-> v, muted |-> FALSE])
          \/ \E m \in BOOLEAN : x = Item("mute", Streaming, h, [volume |-> 0, muted |-> m])
      BY <1>1 DEF Commands
    <3> QED
      BY <2>2, <3>1
  <2> QED
    BY <2>1, <2>3 DEF Item, MessageItems
<1>5. Chained' /\ messages' \in Seq(MessageItems) /\ handled' \in 1 .. Len(history')
  <2>1. Step(x.kind) = 0 /\ x.kind \notin {"start", "end", "clear"}
    BY <1>4 DEF Step, StreamKinds
  <2> QED
    BY <1>1, <1>2, <1>3, <1>4, <2>1, SentIsChained
<1>6. ChunksFit' /\ StreamFits'
  BY <1>3 DEF ChannelInv, ChunksFit, StreamFits
<1>7. SessionTypes'
  BY <1>3, <1>5 DEF ChannelInv, SessionTypes
<1>8. InSession'
  BY <1>3 DEF ChannelInv, Unconnected, InSession
<1> QED
  BY <1>5, <1>6, <1>7, <1>8 DEF ChannelInv

LEMMA SendChunkStep ==
  ASSUME ChannelInv, SendChunk
  PROVE  ChannelInv'
<1>1. PICK h \in Nat : h = Len(history) /\ h >= 1 /\ history \in Seq(Told)
  BY DEF ChannelInv, SessionTypes
<1> DEFINE x == Item("chunk", history[h], h, Default)
<1>2. /\ linkUp /\ audio' = Append(audio, x)
      /\ UNCHANGED <<pc, linkUp, messages, stream, queued, told, history, handled>>
  BY <1>1 DEF SendChunk, Streaming, epochs
<1>3. x.epoch = h /\ x.format = history[h] /\ x \in ChunkItems
  BY <1>1, DefaultInRange DEF Item, ChunkItems
<1> HIDE DEF x
<1>4. audio \in Seq(ChunkItems)
  BY DEF ChannelInv, SessionTypes
<1>5. PICK n \in Nat : n = Len(audio)
  BY <1>4
<1>6. /\ audio' \in Seq(ChunkItems) /\ Len(audio') = n + 1
      /\ audio'[n + 1] = x
      /\ \A i \in 1 .. n : audio'[i] = audio[i]
  BY <1>2, <1>3, <1>4, <1>5, AppendFacts
<1>7. ChunksFit'
  <2> SUFFICES ASSUME NEW i \in 1 .. n + 1
               PROVE  audio'[i].epoch \in 1 .. h /\ audio'[i].format = history[audio'[i].epoch]
    BY <1>1, <1>2, <1>6 DEF ChunksFit
  <2>1. CASE i = n + 1
    BY <1>1, <1>3, <1>6, <2>1
  <2>2. CASE i # n + 1
    <3>1. i \in 1 .. n
      BY <2>2
    <3> QED
      BY <1>1, <1>5, <1>6, <3>1 DEF ChannelInv, ChunksFit
  <2> QED
    BY <2>1, <2>2
<1>8. Chained' /\ StreamFits'
  BY <1>2 DEF ChannelInv, Chained, StreamFits, Before, MessageFits
<1>9. SessionTypes'
  BY <1>2, <1>6 DEF ChannelInv, SessionTypes
<1>10. InSession'
  BY <1>2 DEF ChannelInv, Unconnected, InSession
<1> QED
  BY <1>7, <1>8, <1>9, <1>10 DEF ChannelInv

LEMMA HandleStreamStep ==
  ASSUME ChannelInv, HandleStreamMessage
  PROVE  ChannelInv'
<1> DEFINE m == Head(messages)
<1>1. /\ pc = "select" /\ messages # <<>> /\ m.kind \in StreamKinds
      /\ stream' = HandledStream(m)
      /\ queued' = (queued \/ m.kind # "start" \/ m.format # Refused)
      /\ handled' = m.epoch /\ messages' = Tail(messages)
      /\ UNCHANGED <<linkUp, audio, told, history>>
      /\ pc' \in {"sending", "select"}
  BY DEF HandleStreamMessage, AfterBranch
<1>2. /\ Chained' /\ messages' \in Seq(MessageItems) /\ handled' \in 1 .. Len(history')
      /\ m \in MessageItems /\ m = messages[1] /\ MessageFits(1) /\ Before(1) = handled
  BY <1>1, HandledIsChained
<1>3. /\ m.kind \in {"start", "end"} => history[m.epoch] = m.format
      /\ m.kind = "start" => m.format # NoFormat
      /\ m.kind = "end" => m.format = NoFormat
      /\ m.kind = "clear" => history[m.epoch] = history[handled]
  BY <1>2 DEF MessageFits
<1>4. /\ m.format \in Told /\ history[handled] \in {stream, Refused}
      /\ stream \in Formats \cup {NoFormat}
  BY <1>2 DEF ChannelInv, SessionTypes, StreamFits, MessageItems
<1> HIDE DEF m
<1>5. history[m.epoch] \in {stream', Refused} /\ stream' \in Formats \cup {NoFormat}
  <2>1. CASE m.kind = "start" /\ m.format # Refused
    BY <1>1, <1>3, <1>4, <2>1 DEF HandledStream, Accepted, Told
  <2>2. CASE m.kind = "start" /\ m.format = Refused
    BY <1>1, <1>3, <1>4, <2>2 DEF HandledStream
  <2>3. CASE m.kind = "end"
    BY <1>1, <1>3, <2>3 DEF HandledStream
  <2>4. CASE m.kind = "clear"
    BY <1>1, <1>3, <1>4, <2>4 DEF HandledStream
  <2> QED
    BY <1>1, <2>1, <2>2, <2>3, <2>4 DEF StreamKinds
<1>6. StreamFits' /\ ChunksFit'
  BY <1>1, <1>5 DEF ChannelInv, StreamFits, ChunksFit
<1>7. queued' \in BOOLEAN
  BY <1>1
<1>8. SessionTypes'
  BY <1>1, <1>2, <1>5, <1>7 DEF ChannelInv, SessionTypes
<1>9. InSession'
  BY <1>1 DEF InSession
<1> QED
  BY <1>2, <1>6, <1>8, <1>9 DEF ChannelInv

LEMMA HandleCommandStep ==
  ASSUME ChannelInv, StoreInv, HandleCommand
  PROVE  ChannelInv' /\ StoreInv'
<1> DEFINE m == Head(messages)
<1>1. /\ pc = "select" /\ messages # <<>> /\ m.kind \notin StreamKinds
      /\ messages' = Tail(messages) /\ pc' = "saving"
      /\ UNCHANGED <<linkUp, audio, stream, queued, told, history, handled>>
  BY DEF HandleCommand, epochs
<1>2. messages[1] = m /\ messages[1] \in MessageItems
  BY <1>1, TailFacts DEF ChannelInv, SessionTypes
<1>3. m.epoch = handled
  <2>1. MessageFits(1) /\ handled \in Nat
    BY <1>1, TailFacts DEF ChannelInv, Chained, SessionTypes
  <2> QED
    BY <1>1, <1>2, <2>1 DEF MessageFits, Before, Step
<1>4. Chained' /\ messages' \in Seq(MessageItems) /\ handled' \in 1 .. Len(history')
  BY <1>1, <1>3, HandledIsChained
<1>5. ChunksFit' /\ StreamFits'
  BY <1>1 DEF ChannelInv, ChunksFit, StreamFits
<1>6. SessionTypes'
  BY <1>1, <1>4 DEF ChannelInv, SessionTypes
<1>7. InSession'
  BY <1>1 DEF InSession
<1>8. StoreInv'
  <2>1. m.level.volume \in Nat /\ m.level.muted \in BOOLEAN
    BY <1>2 DEF MessageItems
  <2>2. /\ [level EXCEPT !.volume = Clamped(m.level.volume)] \in Levels
        /\ [level EXCEPT !.muted = m.level.muted] \in Levels
    <3>1. level \in Levels /\ Clamped(m.level.volume) \in 0 .. FullVolume
      BY <2>1, VolumeAssumption DEF StoreInv, StoreTypeOK, Clamped
    <3> QED
      BY <2>1, <3>1 DEF Levels
  <2>3. \/ SetLevel([level EXCEPT !.volume = Clamped(m.level.volume)])
        \/ SetLevel([level EXCEPT !.muted = m.level.muted])
    BY Zenon DEF HandleCommand
  <2> QED
    BY <1>1, <2>2, <2>3, SettingKeepsStore
<1> QED
  BY <1>4, <1>5, <1>6, <1>7, <1>8 DEF ChannelInv

LEMMA HandleAudioStep ==
  ASSUME ChannelInv, HandleAudio
  PROVE  ChannelInv'
<1>1. /\ audio # <<>> /\ audio' = Tail(audio) /\ pc' \in {"sending", "select"}
      /\ UNCHANGED <<linkUp, messages, stream, queued, told, history, handled>>
  BY DEF HandleAudio, AfterBranch, epochs
<1>2. PICK n \in Nat : n = Len(audio)
  BY DEF ChannelInv, SessionTypes
<1>3. /\ audio' \in Seq(ChunkItems) /\ Len(audio') = n - 1
      /\ \A i \in 1 .. n - 1 : audio'[i] = audio[i + 1]
  BY <1>1, <1>2, TailFacts DEF ChannelInv, SessionTypes
<1>4. ChunksFit'
  <2> SUFFICES ASSUME NEW i \in 1 .. n - 1
               PROVE  /\ audio'[i].epoch \in 1 .. Len(history)
                      /\ audio'[i].format = history[audio'[i].epoch]
    BY <1>1, <1>3 DEF ChunksFit
  <2>1. i + 1 \in 1 .. n
    OBVIOUS
  <2> QED
    BY <1>2, <1>3, <2>1 DEF ChannelInv, ChunksFit
<1>5. Chained' /\ StreamFits'
  BY <1>1 DEF ChannelInv, Chained, StreamFits, Before, MessageFits
<1>6. SessionTypes'
  BY <1>1, <1>3 DEF ChannelInv, SessionTypes
<1>7. InSession'
  BY <1>1 DEF InSession
<1> QED
  BY <1>4, <1>5, <1>6, <1>7 DEF ChannelInv

Inv == ChannelInv /\ StoreInv

LEMMA InvStep == Inv /\ [Next]_vars => Inv'
<1> SUFFICES ASSUME Inv, [Next]_vars PROVE Inv'
  OBVIOUS
<1> USE DEF Inv
<1>0. level \in Levels /\ told \in Levels /\ linkUp \in BOOLEAN /\ queued \in BOOLEAN
      /\ Reporting \in BOOLEAN
  BY SessionAssumption DEF StoreInv, StoreTypeOK, ChannelInv, SessionTypes
<1>1. CASE SendStart
  <2>1. PICK f \in Formats \cup {Refused} : SendsStream("start", f)
    BY <1>1 DEF SendStart
  <2>2. f # NoFormat /\ f \in Told
    BY SessionAssumption DEF Told, NoFormat, Refused
  <2>3. ChannelInv'
    BY <2>1, <2>2, SendStreamStep DEF StreamKinds
  <2> QED
    BY <2>1, <2>3, ElsewhereKeepsStore DEF SendsStream
<1>2. CASE SendEnd
  <2>1. ChannelInv'
    BY <1>2, SendStreamStep DEF SendEnd, StreamKinds, Told
  <2> QED
    BY <1>2, <2>1, ElsewhereKeepsStore DEF SendEnd, SendsStream
<1>3. CASE SendClear
  <2>1. Streaming \in Told
    BY DEF ChannelInv, SessionTypes, Streaming
  <2>2. ChannelInv'
    BY <1>3, <2>1, SendStreamStep DEF SendClear, StreamKinds
  <2> QED
    BY <1>3, <2>2, ElsewhereKeepsStore DEF SendClear, SendsStream
<1>4. CASE SendCommand
  BY <1>4, SendCommandStep, ElsewhereKeepsStore DEF SendCommand
<1>5. CASE SendChunk
  BY <1>5, SendChunkStep, ElsewhereKeepsStore DEF SendChunk
<1>6. CASE LoseLink
  <2>1. InSession /\ InSession'
    BY <1>6 DEF LoseLink, ChannelInv, Unconnected, InSession
  <2>2. ChannelInv'
    BY <1>0, <1>6, <2>1, ElsewhereKeepsChannels DEF LoseLink, InSession
  <2> QED
    BY <1>6, <2>2, ElsewhereKeepsStore DEF LoseLink
<1>7. CASE Connect
  <2>1. queued' \in BOOLEAN
    BY <1>0, <1>7 DEF Connect
  <2>2. ChannelInv'
    BY <1>0, <1>7, <2>1, ElsewhereKeepsChannels DEF Connect
  <2> QED
    BY <1>7, <2>2, ElsewhereKeepsStore DEF Connect
<1>8. CASE ConnectFails \/ Retry
  <2>1. ~InSession /\ UNCHANGED <<linkUp, queued, told, channels, stream, epochs, store>>
        /\ pc' \in {"connecting", "backoff"} /\ pc \in {"connecting", "backoff"}
    BY <1>8 DEF ConnectFails, Retry, InSession
  <2>2. ChannelInv'
    BY <1>0, <2>1, ElsewhereKeepsChannels
  <2> QED
    BY <2>1, <2>2, ElsewhereKeepsStore
<1>9. CASE EndSession
  <2>1. ChannelInv'
    BY <1>0, <1>9, EndKeepsChannels DEF EndSession
  <2> QED
    BY <1>9, <2>1, ElsewhereKeepsStore DEF EndSession
<1>10. CASE Interrupt \/ Kill
  <2>1. Ends
    BY <1>10 DEF Interrupt, Kill
  <2>2. ChannelInv'
    BY <2>1, EndKeepsChannels DEF Ends
  <2> QED
    BY <2>1, <2>2, ElsewhereKeepsStore DEF Ends
<1>11. CASE Boot
  <2>1. ~InSession
    BY <1>11 DEF Boot, InSession
  <2>2. ChannelInv'
    BY <1>0, <1>11, <2>1, ElsewhereKeepsChannels DEF Boot
  <2> QED
    BY <1>11, <2>2, BootKeepsStore
<1>12. CASE HandleStreamMessage
  BY <1>12, HandleStreamStep, ElsewhereKeepsStore DEF HandleStreamMessage, AfterBranch
<1>13. CASE HandleCommand
  BY <1>13, HandleCommandStep
<1>14. CASE SaveStep
  <2>1. /\ UNCHANGED <<linkUp, channels, stream, told, epochs>>
        /\ queued' \in BOOLEAN /\ pc' \in {"select", "writing", "renaming", "sending"}
    BY <1>0, <1>14 DEF SaveStep, SaveReturns, AfterBranch
  <2>2. ChannelInv'
    BY <1>0, <2>1, ElsewhereKeepsChannels
  <2> QED
    BY <1>14, <2>2, SaveKeepsStore
<1>15. CASE HandleAudio
  BY <1>15, HandleAudioStep, ElsewhereKeepsStore DEF HandleAudio, AfterBranch
<1>16. CASE Timer \/ Send
  <2>1. /\ UNCHANGED <<linkUp, channels, stream, epochs, store>>
        /\ queued' \in BOOLEAN /\ told' \in Levels
        /\ pc \in {"select", "sending"} /\ pc' \in {"select", "sending"}
    BY <1>0, <1>16 DEF Timer, Send, AfterBranch
  <2>2. ChannelInv'
    BY <1>0, <2>1, ElsewhereKeepsChannels
  <2> QED
    BY <2>1, <2>2, ElsewhereKeepsStore
<1>17. CASE UNCHANGED vars
  <2>1. UNCHANGED <<pc, linkUp, queued, told, messages, audio, stream, history, handled, store>>
    BY <1>17 DEF vars, channels, epochs
  <2>2. StoreInv'
    BY <2>1, ElsewhereKeepsStore
  <2>3. Chained' /\ ChunksFit' /\ StreamFits' /\ SessionTypes'
    BY <2>1 DEF ChannelInv, Chained, ChunksFit, StreamFits, SessionTypes, Before, MessageFits
  <2>4. (~InSession => Unconnected)'
    BY <2>1 DEF ChannelInv, InSession, Unconnected
  <2> QED
    BY <2>2, <2>3, <2>4 DEF ChannelInv
<1> QED
  BY <1>1, <1>2, <1>3, <1>4, <1>5, <1>6, <1>7, <1>8, <1>9, <1>10, <1>11, <1>12,
     <1>13, <1>14, <1>15, <1>16, <1>17 DEF Next, HandleMessage

LEMMA InvHolds == Spec => []Inv
<1>1. Init => Inv
  BY ChannelsInitially, StoreInitially DEF Inv
<1> QED
  BY <1>1, InvStep, PTL DEF Spec

-----------------------------------------------------------------------------
(***************************************************************************)
(* The theorems.                                                           *)
(***************************************************************************)
\* Every variable keeps to its type, whatever is sent, saved or lost and
\* wherever the process is killed: no level in memory is beyond full volume.
THEOREM TypeCorrect == Spec => []TypeOK
<1>1. Inv => TypeOK
  BY DEF Inv, ChannelInv, SessionTypes, StoreInv, TypeOK, Told
<1> QED
  BY <1>1, InvHolds, PTL

\* A chunk that is in step with the stream messages is decoded as it was sent.
THEOREM Decoded == Spec => []DecodedAsSent
<1>1. Inv => DecodedAsSent
  BY DEF Inv, ChannelInv, ChunksFit, StreamFits, DecodedAsSent
<1> QED
  BY <1>1, InvHolds, PTL

\* Once the server's stream messages are handled, server and bridge agree.
THEOREM Agreed == Spec => []QuietMeansAgreed
<1>1. Inv => QuietMeansAgreed
  BY DEF Inv, ChannelInv, StreamFits, QuietMeansAgreed, Streaming
<1> QED
  BY <1>1, InvHolds, PTL

\* A kill at any step of a save loses at most the command being saved.
THEOREM VolumeKept == Spec => []VolumeSurvives
<1>1. Inv => VolumeSurvives
  BY DEF Inv, StoreInv, VolumeSurvives
<1> QED
  BY <1>1, InvHolds, PTL

\* The server is told of every volume before the next message is looked at.
THEOREM VolumeTold == Spec => []ServerKnowsVolume
<1>1. Init => ServerKnowsVolume
  BY DEF Init, ServerKnowsVolume
<1>2. Inv /\ ServerKnowsVolume /\ [Next]_vars => ServerKnowsVolume'
  <2> SUFFICES ASSUME Inv, ServerKnowsVolume, [Next]_vars, pc' = "select", linkUp'
               PROVE  told' = level'
    BY DEF ServerKnowsVolume
  <2>1. CASE pc = "select" /\ linkUp /\ UNCHANGED <<told, level>>
    BY <2>1 DEF ServerKnowsVolume
  <2>2. CASE Connect \/ Send
    BY <2>2 DEF Connect, Send, store
  <2>3. ~SaveStep
    BY DEF SaveStep, SaveReturns, AfterBranch
  <2>4. CASE ~Connect /\ ~Send
    <3>1. pc = "select" /\ linkUp /\ UNCHANGED <<told, level>>
      BY <2>3, <2>4 DEF Next, HandleMessage, SendStart, SendEnd, SendClear, SendsStream,
           SendCommand, SendChunk, LoseLink, ConnectFails, Retry, EndSession, Interrupt,
           Kill, Ends, Boot, HandleStreamMessage, HandleCommand, HandleAudio, Timer,
           AfterBranch, NoSession, vars, store
    <3> QED
      BY <2>1, <3>1
  <2> QED
    BY <2>2, <2>4
<1> QED
  BY <1>1, <1>2, InvHolds, PTL DEF Spec
=============================================================================
