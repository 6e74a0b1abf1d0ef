----------------------------- MODULE QueueProofs -----------------------------
(***************************************************************************)
(* The pending queue keeps its bounds, for every bound, every chunk size   *)
(* and every server.                                                       *)
(***************************************************************************)
EXTENDS PlayoutProofs, FiniteSetTheorems

\* totals[i] is the number of frames queued from chunk i on.
Totals(totals) ==
  /\ totals \in [1 .. Len(pending) + 1 -> Nat]
  /\ totals[Len(pending) + 1] = 0
  /\ \A i \in 1 .. Len(pending) : totals[i] = pending[i].frames + totals[i + 1]

\* The count kept by hand is the number of frames queued.
Accounted == \E totals : Totals(totals) /\ pendingFrames = totals[1]

Within == Accounted /\ QueueBounded

-----------------------------------------------------------------------------
LEMMA EmptyAccounted ==
  ASSUME pending' = <<>>, pendingFrames' = 0
  PROVE  Accounted'
<1> DEFINE totals == [i \in 1 .. 1 |-> 0]
<1>1. Len(pending') = 0
  BY EmptySeq
<1>2. Totals(totals)'
  BY <1>1 DEF Totals
<1> QED BY <1>2 DEF Accounted

\* Taking the front chunk off takes its frames off the count.
LEMMA PopAccounted ==
  ASSUME TypeOK, Accounted, PopPendingFront
  PROVE  /\ Accounted'
         /\ pendingFrames' <= pendingFrames
         /\ Len(pending') = Len(pending) - 1
<1>1. /\ pending \in Seq(Chunk) /\ pending # <<>> /\ pending' = Tail(pending)
      /\ Len(pending) \in Nat /\ Len(pending) > 0
  BY LenProperties, EmptySeq DEF TypeOK, PopPendingFront
<1>2. PICK totals : Totals(totals) /\ pendingFrames = totals[1]
  BY DEF Accounted
<1>3. PICK n \in Nat : n = Len(pending) /\ n >= 1
  BY <1>1
<1>4. /\ Len(pending') = n - 1
      /\ \A i \in 1 .. n - 1 : pending'[i] = pending[i + 1]
  BY <1>1, <1>3, HeadTailProperties
<1>5. Head(pending) = pending[1]
  BY <1>1, HeadTailProperties
<1>6. totals[1] = Head(pending).frames + totals[2] /\ totals[1] \in Nat /\ totals[2] \in Nat
  BY <1>2, <1>3, <1>5 DEF Totals
<1>7. Head(pending).frames \in Nat
  <2>1. Head(pending) \in Chunk
    BY PopType
  <2> QED BY <2>1 DEF Chunk
<1>8. pendingFrames' = totals[2]
  BY <1>2, <1>6, <1>7 DEF PopPendingFront, Larger
<1> DEFINE rest == [i \in 1 .. n |-> totals[i + 1]]
<1>9. Totals(rest)'
  BY <1>2, <1>3, <1>4 DEF Totals
<1> QED BY <1>2, <1>3, <1>4, <1>6, <1>7, <1>8, <1>9 DEF Accounted

\* An arriving chunk adds its frames to the count.
LEMMA PushAccounted ==
  ASSUME TypeOK, Accounted, NEW chunk, chunk.frames \in Nat,
         pending' = Append(pending, chunk), pendingFrames' = pendingFrames + chunk.frames
  PROVE  Accounted'
<1>1. pending \in Seq(Chunk)
  BY DEF TypeOK
<1>2. PICK n \in Nat : n = Len(pending)
  BY <1>1, LenProperties
<1>3. PICK totals : Totals(totals) /\ pendingFrames = totals[1]
  BY DEF Accounted
<1>4. /\ Len(pending') = n + 1 /\ pending'[n + 1] = chunk
      /\ \A i \in 1 .. n : pending'[i] = pending[i]
  BY <1>1, <1>2
<1> DEFINE grown == [i \in 1 .. n + 2 |->
                       IF i = n + 2 THEN 0 ELSE totals[i] + chunk.frames]
<1>5. Totals(grown)'
  <2>1. grown \in [1 .. n + 2 -> Nat] /\ grown[n + 2] = 0
    BY <1>2, <1>3 DEF Totals
  <2>2. ASSUME NEW i \in 1 .. n + 1 PROVE grown[i] = pending'[i].frames + grown[i + 1]
    <3>1. CASE i = n + 1
      <4>1. totals[n + 1] = 0
        BY <1>2, <1>3 DEF Totals
      <4> QED BY <1>4, <3>1, <4>1
    <3>2. CASE i # n + 1
      <4>1. i \in 1 .. n /\ i + 1 # n + 2
        BY <3>2
      <4>2. totals[i] = pending'[i].frames + totals[i + 1] /\ totals[i + 1] \in Nat
            /\ totals[i] \in Nat
        BY <1>2, <1>3, <1>4, <4>1 DEF Totals
      <4>3. pending'[i].frames = pending[i].frames /\ pending[i].frames \in Nat
        <5>1. pending[i] \in Chunk
          BY <1>1, <1>2, <4>1
        <5> QED BY <1>4, <4>1, <5>1 DEF Chunk
      <4> QED BY <4>1, <4>2, <4>3
    <3> QED BY <3>1, <3>2
  <2>3. Len(pending') + 1 = n + 2 /\ 1 .. Len(pending') = 1 .. n + 1
    BY <1>4
  <2> HIDE DEF grown
  <2> QED BY <2>1, <2>2, <2>3 DEF Totals
<1>6. pendingFrames' = grown[1]
  BY <1>3
<1> QED BY <1>5, <1>6 DEF Accounted

-----------------------------------------------------------------------------
LEMMA WithinInit == Init => Within
<1> SUFFICES ASSUME Init PROVE Within
  OBVIOUS
<1>1. pending = <<>> /\ pendingFrames = 0 /\ Len(pending) = 0
  BY EmptySeq DEF Init
<1> DEFINE totals == [i \in 1 .. 1 |-> 0]
<1>2. Totals(totals)
  BY <1>1 DEF Totals
<1> QED BY <1>1, <1>2, ConstantsAssumption DEF Within, Accounted, QueueBounded

\* A step that leaves the queue alone, or empties it, keeps it within bounds.
LEMMA WithinKept ==
  ASSUME Within,
         \/ UNCHANGED queue /\ (pc' = "bound" \/ pc # "bound")
         \/ pending' = <<>> /\ pendingFrames' = 0
  PROVE  Within'
<1>1. CASE UNCHANGED queue /\ (pc' = "bound" \/ pc # "bound")
  BY <1>1 DEF Within, Accounted, Totals, QueueBounded, queue
<1>2. CASE pending' = <<>> /\ pendingFrames' = 0
  <2>1. Len(pending') = 0
    BY <1>2, EmptySeq
  <2> QED BY <1>2, <2>1, EmptyAccounted, ConstantsAssumption DEF Within, QueueBounded
<1> QED BY <1>1, <1>2

LEMMA WithinPop ==
  ASSUME TypeOK, Within, PopPendingFront, pc' = pc
  PROVE  Within'
<1>1. /\ Accounted' /\ pendingFrames' <= pendingFrames
      /\ Len(pending') = Len(pending) - 1
  BY PopAccounted DEF Within
<1>2. /\ pendingFrames \in Nat /\ pendingFrames' \in Nat /\ Len(pending) \in Nat
      /\ MaxPendingFrames \in Nat /\ MaxPendingChunks \in Nat
  BY PopType, LenProperties, ConstantsAssumption DEF TypeOK
<1> QED BY <1>1, <1>2 DEF Within, QueueBounded

LEMMA WithinStep == TypeOK /\ Within /\ [Next]_vars => Within'
<1> SUFFICES ASSUME TypeOK, Within, [Next]_vars PROVE Within'
  OBVIOUS
<1> USE DEF env, server, task, stage, timing, HandlerDone
<1>1. CASE Environment
  BY <1>1, WithinKept
  DEF Environment, Tick, ClockJump, Subscribe, Unsubscribe, ClockSynchronizes
<1>2. CASE StreamStart \/ StreamClear \/ StreamEnd \/ Disconnect
  BY <1>2, WithinKept
  DEF StreamStart, RestartIfRunning, StartAtReadHead, StartWaiting, StreamClear, StreamEnd,
      Disconnect, ClearAndRebuffer, EnterIdle, ResetScheduler
<1>3. CASE Connect \/ CheckDrift
  BY <1>3, WithinKept
  DEF Connect, CheckDrift, DriftSkipped, DriftRebuffers, DriftSampled, ClearAndRebuffer,
      ResetScheduler, vars
<1>4. CASE HandleAudio
  <2>1. PICK n \in ChunkSizes, jump \in TimestampJumps :
          LET chunk == [ts |-> nextTs + jump, frames |-> n, epoch |-> epoch]
          IN  \/ pending' = <<chunk>> /\ pendingFrames' = n
              \/ pending' = Append(pending, chunk) /\ pendingFrames' = pendingFrames + n
    BY <1>4 DEF HandleAudio
  <2> DEFINE chunk == [ts |-> nextTs + jump, frames |-> n, epoch |-> epoch]
  <2>2. n \in Nat /\ chunk.frames = n
    BY ConstantsAssumption, ChunkAssumption
  <2>3. CASE pending' = <<chunk>> /\ pendingFrames' = n
    <3> DEFINE totals == [i \in 1 .. 2 |-> IF i = 1 THEN n ELSE 0]
    <3>1. Len(pending') = 1 /\ pending'[1] = chunk
      BY <2>3
    <3>2. Totals(totals)'
      <4>1. totals \in [1 .. 2 -> Nat] /\ totals[1] = n /\ totals[2] = 0
        BY <2>2
      <4>2. totals[1] = pending'[1].frames + totals[2]
        BY <2>2, <3>1, <4>1
      <4> HIDE DEF totals, chunk
      <4> QED BY <3>1, <4>1, <4>2 DEF Totals
    <3>3. Accounted'
      BY <2>3, <3>2 DEF Accounted
    <3> QED BY <1>4, <3>3 DEF HandleAudio, Within, QueueBounded
  <2>4. CASE pending' = Append(pending, chunk) /\ pendingFrames' = pendingFrames + n
    <3>1. Accounted'
      BY <2>2, <2>4, PushAccounted DEF Within
    <3> QED BY <1>4, <3>1 DEF HandleAudio, Within, QueueBounded
  <2> QED BY <2>1, <2>3, <2>4
<1>5. CASE EvictOldest
  BY <1>5, WithinPop DEF EvictOldest
<1>6. CASE CheckSubscriber
  <2>1. CASE SubscriberDetected
    BY <2>1, WithinKept DEF SubscriberDetected, ResetScheduler
  <2>2. CASE UNCHANGED queue
    <3>1. pendingFrames <= MaxPendingFrames /\ Len(pending) <= MaxPendingChunks
      <4>1. CASE ~OverBound
        BY <4>1, LenProperties, ConstantsAssumption DEF OverBound, TypeOK
      <4>2. CASE pending = <<>>
        <5>1. Len(pending) = 0
          BY <4>2, EmptySeq
        <5>2. pendingFrames = 0
          BY <5>1 DEF Within, Accounted, Totals
        <5> QED BY <5>1, <5>2, ConstantsAssumption
      <4> QED BY <1>6, <4>1, <4>2 DEF CheckSubscriber
    <3> QED BY <2>2, <3>1 DEF Within, Accounted, Totals, QueueBounded, queue
  <2> QED BY <1>6, <2>1, <2>2 DEF CheckSubscriber, SubscriberAwaited, SubscriberSettled
<1>7. CASE SetAnchor \/ KeepAnchor \/ FallBackToSequential \/ DrainEmpty \/ LeaveEarly
  BY <1>7, WithinKept
  DEF SetAnchor, KeepAnchor, FallBackToSequential, DrainEmpty, LeaveEarly, Draining
<1>8. CASE WriteSequential \/ DropStale \/ TrimStale \/ PlaceChunk
  BY <1>8, WithinPop DEF WriteSequential, DropStale, TrimStale, PlaceChunk
<1>9. CASE SnapOverGap \/ RebufferBehind
  BY <1>9, WithinKept DEF SnapOverGap, RebufferBehind, ClearAndRebuffer, ResetScheduler
<1>10. CASE UNCHANGED vars
  BY <1>10, WithinKept DEF vars
<1> QED
  BY <1>1, <1>2, <1>3, <1>4, <1>5, <1>6, <1>7, <1>8, <1>9, <1>10
  DEF Next, Handlers, Drain, DrainChunk

\* The queue is within both of its bounds whenever an arriving chunk has been
\* dealt with, whatever the server sends: the bound on frames rests on the
\* count kept beside the queue being right.
THEOREM BoundsHold == Spec => []QueueBounded
<1>1. Within => QueueBounded
  BY DEF Within
<1> QED BY <1>1, TypeInit, TypeNext, WithinInit, WithinStep, PTL DEF Spec

-----------------------------------------------------------------------------
(***************************************************************************)
(* The sum of the queue, as the library adds it up.  It adds in an order   *)
(* it leaves open; that the order is of no consequence is shown by      *)
(* counting dots, f[i] of them under each argument i.                      *)
(***************************************************************************)
\* The library adds up a function by taking one argument after the other out of
\* its domain, in an order it leaves open.
Pick(s) == CHOOSE x \in s : TRUE

Adds(f, g) ==
  g = [s \in SUBSET DOMAIN f |-> IF s = {} THEN 0 ELSE f[Pick(s)] + g[s \ {Pick(s)}]]

LEMMA SumAdds ==
  ASSUME NEW f
  PROVE  SumFunction(f) = (CHOOSE g : Adds(f, g))[DOMAIN f]
BY DEF SumFunction, SumFunctionOnSet, FoldFunctionOnSet, MapThenFoldSet, Adds, Pick

\* Over a finite domain no two functions add up in that way.
LEMMA AddsUnique ==
  ASSUME NEW f, IsFiniteSet(DOMAIN f), NEW g, NEW h, Adds(f, g), Adds(f, h)
  PROVE  g = h
<1> DEFINE T == {s \in SUBSET DOMAIN f : g[s] # h[s]}
<1>1. CASE T = {}
  BY <1>1 DEF Adds
<1>2. CASE T # {}
  <2>1. IsWellFoundedOn(StrictSubsetOrdering(DOMAIN f), SUBSET DOMAIN f)
    BY FS_StrictSubsetOrderingWellFounded, FS_FiniteSubsetsOfFinite
  <2>2. T \subseteq SUBSET DOMAIN f
    OBVIOUS
  <2>3. PICK s \in T : \A r \in T : <<r, s>> \notin StrictSubsetOrdering(DOMAIN f)
    BY <1>2, <2>1, <2>2, WFMin
  <2>4. s \in SUBSET DOMAIN f /\ g[s] # h[s]
    OBVIOUS
  <2>5. s # {}
    BY <2>4 DEF Adds
  <2>6. Pick(s) \in s
    BY <2>5 DEF Pick
  <2> DEFINE r == s \ {Pick(s)}
  <2>7. r \in SUBSET DOMAIN f /\ r \subseteq s /\ r # s
    BY <2>4, <2>6
  <2>8. <<r, s>> \in StrictSubsetOrdering(DOMAIN f)
    BY <2>4, <2>7 DEF StrictSubsetOrdering
  <2>9. g[r] = h[r]
    BY <2>3, <2>7, <2>8
  <2>10. g[s] = f[Pick(s)] + g[r] /\ h[s] = f[Pick(s)] + h[r]
    BY <2>4, <2>5 DEF Adds
  <2> QED BY <2>4, <2>9, <2>10
<1> QED BY <1>1, <1>2

\* An interval is finite; one from 1 to v has v elements.
LEMMA UpTo ==
  ASSUME NEW a \in Int, NEW v \in Int
  PROVE  /\ IsFiniteSet(a .. v)
         /\ a = 1 /\ v >= 0 => Cardinality(a .. v) = v
<1>1. IsFiniteSet(a .. v) /\ Cardinality(a .. v) = IF a > v THEN 0 ELSE v - a + 1
  BY FS_Interval
<1>2. a = 1 /\ v >= 0 => (IF a > v THEN 0 ELSE v - a + 1) = v
  OBVIOUS
<1> QED BY <1>1, <1>2

\* As many dots under each argument in s as its value says.
Dots(f, s, m) == {d \in s \X (1 .. m) : d[2] <= f[d[1]]}

LEMMA DotsFinite ==
  ASSUME NEW f, NEW s, IsFiniteSet(s), NEW m \in Nat
  PROVE  IsFiniteSet(Dots(f, s, m)) /\ Cardinality(Dots(f, s, m)) \in Nat
<1>1. IsFiniteSet(1 .. m)
  BY UpTo
<1>2. IsFiniteSet(s \X (1 .. m))
  BY <1>1, FS_Product
<1>3. Dots(f, s, m) \in SUBSET (s \X (1 .. m))
  BY DEF Dots
<1>4. IsFiniteSet(Dots(f, s, m))
  BY <1>2, <1>3, FS_Subset
<1> QED BY <1>4, FS_CardinalityType

LEMMA DotsAdd ==
  ASSUME NEW f, NEW m \in Nat, NEW s, IsFiniteSet(s), NEW x \in s, f[x] \in 0 .. m
  PROVE  Cardinality(Dots(f, s, m)) = f[x] + Cardinality(Dots(f, s \ {x}, m))
<1> DEFINE rest == Dots(f, s \ {x}, m)
           column == {x} \X (1 .. f[x])
<1>1. IsFiniteSet(s \ {x})
  BY FS_RemoveElement
<1>2. IsFiniteSet(rest) /\ Cardinality(rest) \in Nat
  BY <1>1, DotsFinite
<1>3. IsFiniteSet(column) /\ Cardinality(column) = f[x]
  <2>1. IsFiniteSet(1 .. f[x]) /\ Cardinality(1 .. f[x]) = f[x]
    <3>1. PICK v \in Int : v = f[x] /\ v >= 0
      OBVIOUS
    <3>2. IsFiniteSet(1 .. v) /\ Cardinality(1 .. v) = v
      BY <3>1, UpTo
    <3> QED BY <3>1, <3>2
  <2>2. IsFiniteSet({x}) /\ Cardinality({x}) = 1
    BY FS_Singleton
  <2>3. IsFiniteSet(column) /\ Cardinality(column) = Cardinality({x}) * Cardinality(1 .. f[x])
    BY <2>1, <2>2, FS_Product
  <2> QED BY <2>1, <2>2, <2>3
<1>4. Dots(f, s, m) = rest \cup column
  <2>1. ASSUME NEW d \in Dots(f, s, m) PROVE d \in rest \cup column
    <3>1. d \in s \X (1 .. m) /\ d[2] <= f[d[1]]
      BY DEF Dots
    <3>2. CASE d[1] = x
      BY <3>1, <3>2
    <3>3. CASE d[1] # x
      <4>1. d \in (s \ {x}) \X (1 .. m)
        BY <3>1, <3>3
      <4> QED BY <3>1, <4>1 DEF Dots
    <3> QED BY <3>2, <3>3
  <2>2. rest \subseteq Dots(f, s, m)
    BY DEF Dots
  <2>3. column \subseteq Dots(f, s, m)
    <3> SUFFICES ASSUME NEW d \in column PROVE d \in Dots(f, s, m)
      OBVIOUS
    <3>1. d[1] = x /\ d[2] \in 1 .. f[x] /\ d = <<d[1], d[2]>>
      OBVIOUS
    <3>2. d[2] \in 1 .. m /\ d[2] <= f[x]
      BY <3>1
    <3> QED BY <3>1, <3>2 DEF Dots
  <2> QED BY <2>1, <2>2, <2>3
<1>5. rest \cap column = {}
  BY DEF Dots
<1> HIDE DEF rest, column
<1>6. Cardinality(rest \cup column)
        = Cardinality(rest) + Cardinality(column) - Cardinality(rest \cap column)
  BY <1>2, <1>3, FS_Union
<1>7. Cardinality(rest \cap column) = 0
  BY <1>5, FS_EmptySet
<1>8. Cardinality(Dots(f, s, m)) = f[x] + Cardinality(rest)
  <2>1. f[x] \in Int
    OBVIOUS
  <2> QED BY <1>2, <1>3, <1>4, <1>6, <1>7, <2>1
<1> QED BY <1>8 DEF rest

LEMMA SumIsDots ==
  ASSUME NEW f, IsFiniteSet(DOMAIN f), NEW m \in Nat, \A i \in DOMAIN f : f[i] \in 0 .. m
  PROVE  SumFunction(f) = Cardinality(Dots(f, DOMAIN f, m))
<1> DEFINE h == [s \in SUBSET DOMAIN f |-> Cardinality(Dots(f, s, m))]
<1>1. Adds(f, h)
  <2>1. ASSUME NEW s \in SUBSET DOMAIN f
        PROVE  h[s] = IF s = {} THEN 0 ELSE f[Pick(s)] + h[s \ {Pick(s)}]
    <3>1. CASE s = {}
      <4>1. Dots(f, s, m) = {}
        BY <3>1 DEF Dots
      <4> QED BY <3>1, <4>1, FS_EmptySet
    <3>2. CASE s # {}
      <4>1. Pick(s) \in s
        BY <3>2 DEF Pick
      <4>2. IsFiniteSet(s)
        BY FS_Subset
      <4>3. f[Pick(s)] \in 0 .. m
        BY <4>1
      <4>4. Cardinality(Dots(f, s, m)) = f[Pick(s)] + Cardinality(Dots(f, s \ {Pick(s)}, m))
        BY <4>1, <4>2, <4>3, DotsAdd
      <4>5. s \ {Pick(s)} \in SUBSET DOMAIN f
        OBVIOUS
      <4> QED BY <3>2, <4>4, <4>5
    <3> QED BY <3>1, <3>2
  <2>2. h = [s \in SUBSET DOMAIN f |-> h[s]]
    OBVIOUS
  <2> HIDE DEF h
  <2> QED BY <2>1, <2>2 DEF Adds
<1>2. Adds(f, CHOOSE g : Adds(f, g))
  BY <1>1
<1>3. (CHOOSE g : Adds(f, g)) = h
  BY <1>1, <1>2, AddsUnique
<1> QED BY <1>3, SumAdds

LEMMA DotsFrom ==
  ASSUME NEW n \in Nat, NEW m \in Nat, NEW f \in [1 .. n -> 0 .. m], NEW a \in 1 .. n
  PROVE  Cardinality(Dots(f, a .. n, m)) = f[a] + Cardinality(Dots(f, a + 1 .. n, m))
<1>1. (a .. n) \ {a} \subseteq a + 1 .. n
  OBVIOUS
<1>2. a + 1 .. n \subseteq (a .. n) \ {a}
  OBVIOUS
<1>3. IsFiniteSet(a .. n) /\ a \in a .. n
  BY UpTo
<1>4. f[a] \in 0 .. m
  OBVIOUS
<1>5. Cardinality(Dots(f, a .. n, m)) = f[a] + Cardinality(Dots(f, (a .. n) \ {a}, m))
  BY <1>3, <1>4, DotsAdd
<1>6. (a .. n) \ {a} = a + 1 .. n
  BY <1>1, <1>2
<1> QED BY <1>5, <1>6

\* Totals from each argument on add up to the sum.
LEMMA TotalsAreSum ==
  ASSUME NEW n \in Nat, NEW m \in Nat, NEW f \in [1 .. n -> 0 .. m],
         NEW totals \in [1 .. n + 1 -> Nat], totals[n + 1] = 0,
         \A i \in 1 .. n : totals[i] = f[i] + totals[i + 1]
  PROVE  SumFunction(f) = totals[1]
<1> DEFINE from(k) == (n + 1) - k
           dots(k) == Cardinality(Dots(f, from(k) .. n, m))
           T == {k \in 0 .. n : dots(k) # totals[from(k)]}
<1>1. T = {}
  <2> SUFFICES ASSUME T # {} PROVE FALSE
    OBVIOUS
  <2>1. T \subseteq Nat
    OBVIOUS
  <2>2. PICK k \in T : \A j \in T : <<j, k>> \notin OpToRel(<, Nat)
    BY <2>1, NatLessThanWellFounded, WFMin
  <2>3. k \in 0 .. n /\ dots(k) # totals[from(k)]
    OBVIOUS
  <2>4. \A j \in T : ~(j < k)
    BY <2>1, <2>2, <2>3 DEF OpToRel
  <2>5. CASE k = 0
    <3>1. from(k) .. n = {} /\ totals[from(k)] = 0
      BY <2>5
    <3>2. Dots(f, {}, m) = {}
      BY DEF Dots
    <3> QED BY <2>3, <3>1, <3>2, FS_EmptySet
  <2>6. CASE k > 0
    <3>1. /\ k - 1 \in 0 .. n /\ k - 1 < k /\ from(k) \in 1 .. n
          /\ from(k - 1) = from(k) + 1
      BY <2>3, <2>6
    <3>2. dots(k - 1) = totals[from(k) + 1]
      <4>1. k - 1 \notin T
        BY <2>4, <3>1
      <4> QED BY <3>1, <4>1
    <3>3. PICK a \in 1 .. n : a = from(k) /\ from(k - 1) = a + 1
      BY <3>1
    <3>4. Cardinality(Dots(f, a .. n, m)) = f[a] + Cardinality(Dots(f, a + 1 .. n, m))
      BY DotsFrom
    <3>5. dots(k) = f[a] + dots(k - 1)
      BY <3>3, <3>4
    <3> QED BY <2>3, <3>2, <3>3, <3>5
  <2> QED BY <2>3, <2>5, <2>6
<1>2. dots(n) = totals[1] /\ from(n) = 1
  <2>1. n \in 0 .. n /\ from(n) = 1
    OBVIOUS
  <2> QED BY <1>1, <2>1
<1>3. DOMAIN f = 1 .. n /\ IsFiniteSet(1 .. n) /\ \A i \in DOMAIN f : f[i] \in 0 .. m
  BY UpTo
<1>4. SumFunction(f) = Cardinality(Dots(f, 1 .. n, m))
  BY <1>3, SumIsDots
<1> QED BY <1>2, <1>4

-----------------------------------------------------------------------------
LEMMA AccountedIsSum == TypeOK /\ Accounted => PendingAccounted
<1> SUFFICES ASSUME TypeOK, Accounted PROVE PendingAccounted
  OBVIOUS
<1>1. PICK n \in Nat : n = Len(pending)
  BY LenProperties DEF TypeOK
<1>2. PICK totals : Totals(totals) /\ pendingFrames = totals[1]
  BY DEF Accounted
<1> DEFINE f == [i \in DOMAIN pending |-> pending[i].frames]
<1>3. pending \in Seq(Chunk) /\ DOMAIN pending = 1 .. n
  BY <1>1, LenProperties DEF TypeOK
<1>4. RingSize \in Nat
  BY ConstantsAssumption
<1>5. f \in [1 .. n -> 0 .. RingSize]
  <2> SUFFICES ASSUME NEW i \in 1 .. n PROVE pending[i].frames \in 0 .. RingSize
    BY <1>3
  <2>1. pending[i] \in Chunk
    BY <1>1, <1>3, ElementOfSeq
  <2>2. pending[i].frames \in 1 .. RingSize
    BY <2>1 DEF Chunk
  <2> QED BY <1>4, <2>2
<1>6. /\ totals \in [1 .. n + 1 -> Nat] /\ totals[n + 1] = 0
      /\ \A i \in 1 .. n : totals[i] = f[i] + totals[i + 1]
  BY <1>1, <1>2, <1>3 DEF Totals
<1> HIDE DEF f
<1>7. SumFunction(f) = totals[1]
  BY <1>4, <1>5, <1>6, TotalsAreSum
<1> QED BY <1>2, <1>7 DEF PendingAccounted, f

\* Between any two steps of any handler pending_frames is the sum of the frames
\* queued: no push, pop, eviction or reset miscounts, and no pop saturates.
THEOREM CountIsSum == Spec => []PendingAccounted
<1>1. Within => Accounted
  BY DEF Within
<1> QED BY <1>1, AccountedIsSum, TypeInit, TypeNext, WithinInit, WithinStep, PTL DEF Spec

-----------------------------------------------------------------------------
(***************************************************************************)
(* The sizes the code computes.                                            *)
(***************************************************************************)
\* next_power_of_two is no smaller than its argument.
LEMMA PowerIsEnough ==
  ASSUME NEW n \in Nat, \E p \in PowersOfTwo : p >= n
  PROVE  NextPowerOfTwo(n) \in Nat /\ NextPowerOfTwo(n) >= n
<1> DEFINE Enough == {p \in PowersOfTwo : p >= n}
<1>1. PowersOfTwo \subseteq Int
  BY DEF PowersOfTwo
<1>2. Enough \subseteq Nat /\ Enough # {}
  <2>1. ASSUME NEW p \in Enough PROVE p \in Nat
    <3>1. p \in Int /\ p >= n
      BY <1>1
    <3> QED BY <3>1
  <2>2. PICK p \in PowersOfTwo : p >= n
    OBVIOUS
  <2>3. p \in Enough
    BY <2>2
  <2> QED BY <2>1, <2>3
<1>3. IsWellFoundedOn(OpToRel(<, Nat), Nat)
  BY NatLessThanWellFounded
<1>4. PICK p \in Enough : \A q \in Enough : <<q, p>> \notin OpToRel(<, Nat)
  BY <1>2, <1>3, WFMin
<1>5. \A q \in PowersOfTwo : q >= n => p <= q
  <2> SUFFICES ASSUME NEW q \in PowersOfTwo, q >= n PROVE p <= q
    OBVIOUS
  <2>1. q \in Enough /\ q \in Nat /\ p \in Nat
    BY <1>2
  <2>2. ~(q < p)
    BY <1>4, <2>1 DEF OpToRel
  <2> QED BY <2>1, <2>2
<1>6. p \in PowersOfTwo /\ p >= n
  OBVIOUS
<1>7. \E r \in PowersOfTwo : r >= n /\ \A q \in PowersOfTwo : q >= n => r <= q
  BY <1>5, <1>6
<1> HIDE DEF Enough
<1>8. NextPowerOfTwo(n) \in PowersOfTwo /\ NextPowerOfTwo(n) >= n
  BY <1>7, Zenon DEF NextPowerOfTwo
<1>9. PICK least \in Int : least = NextPowerOfTwo(n) /\ least >= n
  BY <1>1, <1>8, Zenon
<1>10. least \in Nat
  BY <1>9
<1> QED BY <1>9, <1>10, Zenon

\* A ring of the size ring_buffer_size_for computes, and a queue with the bound
\* max_pending_frames_for computes, have room for whatever a server sends that
\* keeps to the credit it was given: the room SteadyServer asks for.
THEOREM CreditHasRoom ==
  ASSUME NEW credit \in Nat, NEW floor \in Nat,
         \E p \in PowersOfTwo : p >= (Prebuffer + credit) * 2,
         RingSize = RingBufferSize(Prebuffer, credit, floor),
         MaxPendingFrames = MaxPendingFramesFor(credit, RingSize),
         \A n \in ChunkSizes : MaxLead + n <= credit
  PROVE  \A n \in ChunkSizes : /\ MaxLead + Prebuffer + n <= RingSize
                               /\ n <= MaxPendingFrames
<1>1. Prebuffer \in Nat /\ MaxLead \in Int /\ RingSize \in Nat /\ (Prebuffer + credit) * 2 \in Nat
  BY ConstantsAssumption
<1>2. PICK power \in Nat : /\ power = NextPowerOfTwo((Prebuffer + credit) * 2)
                           /\ power >= (Prebuffer + credit) * 2
  BY <1>1, PowerIsEnough
<1>3. RingSize >= (Prebuffer + credit) * 2
  BY <1>1, <1>2 DEF RingBufferSize, Larger
<1> SUFFICES ASSUME NEW n \in ChunkSizes
             PROVE  MaxLead + Prebuffer + n <= RingSize /\ n <= MaxPendingFrames
  OBVIOUS
<1>4. n \in 1 .. RingSize /\ MaxLead + n <= credit
  BY ChunkAssumption
<1> QED BY <1>1, <1>3, <1>4 DEF MaxPendingFramesFor
=============================================================================
