-------------------------- MODULE SubscriberReport --------------------------
(***************************************************************************)
(* The reporting of DANTE receivers to the Sendspin server, with the       *)
(* option report_dante_subscriber on.  Whether a receiver listens is       *)
(* inferred from the transmitter's read position: it moves while one does. *)
(* The metrics timer compares it with the position it last looked at,      *)
(* last_read_pos, which stream starts, chunks and resets write as well.    *)
(*                                                                         *)
(* What matters of the two positions is whether the read position has been *)
(* published (is not zero) and where last_read_pos is: at it, at zero, or  *)
(* elsewhere.  Time passes in units of which the timer's period has        *)
(* TickPeriod and the silence after which a receiver counts as lost has    *)
(* LostAfter.                                                              *)
(***************************************************************************)
EXTENDS Integers

CONSTANTS
  TickPeriod,      \* METRICS_TICK_SECS
  LostAfter,       \* the ten seconds of log_metrics
  MaxEvents        \* bound of an instance: messages and failures

ASSUME PeriodAssumption ==
  /\ TickPeriod \in Nat \ {0} /\ LostAfter \in Nat
  /\ MaxEvents \in Nat

VARIABLES
  listening,  \* a receiver consumes the flow
  published,  \* the read position is not zero
  still,      \* time since it moved
  consumed,   \* it has moved since it was last looked at
  withdrawn,  \* it has been withdrawn before
  sinceTick,  \* time since the timer fired
  pc,         \* the task: "offline", in "select", or about to "send"
  broken,     \* the connection is: a send has failed
  state,      \* "Idle", "Waiting", or "Streaming" for the rest
  baseline,   \* where last_read_pos is: "zero", "here", "elsewhere"
  hasSubscriber,
  changeAge,  \* time since last_read_pos_change, if any
  pendingSync, \* pending_sync_state
  told,       \* the last state the server has received on this connection
  events

receiver == <<listening, published, still, consumed, withdrawn>>
report == <<hasSubscriber, changeAge, pendingSync>>
vars == <<receiver, sinceTick, pc, broken, state, baseline, report, told, events>>

Nothing == "nothing"
Synchronized == "Synchronized"
ExternalSource == "ExternalSource"
NoAge == -1

\* Ages are counted no further than LostAfter + 1.
Older(age) == IF age = NoAge \/ age > LostAfter THEN age ELSE age + 1

\* read_pos # last_read_pos
Moved == IF published THEN baseline # "here" ELSE baseline # "zero"

LookedAt == IF published THEN "here" ELSE "zero"

-----------------------------------------------------------------------------
(***************************************************************************)
(* Receiver, transmitter and time.                                         *)
(***************************************************************************)
Moves ==
  /\ published' = TRUE /\ still' = 0 /\ consumed' = TRUE
  /\ baseline' = IF baseline = "zero" THEN "zero" ELSE "elsewhere"

Consume ==
  /\ listening
  /\ Moves
  /\ UNCHANGED <<listening, withdrawn, sinceTick, pc, broken, state, report, told,
                 events>>

\* A session's timer is never late by more than a unit.
TimePasses ==
  /\ pc = "offline" \/ sinceTick <= TickPeriod
  /\ sinceTick' = IF pc = "offline" THEN sinceTick ELSE sinceTick + 1
  /\ changeAge' = Older(changeAge)
  /\ IF listening THEN Moves
     ELSE still' = Older(still) /\ UNCHANGED <<published, consumed, baseline>>
  /\ UNCHANGED <<listening, withdrawn, pc, broken, state, hasSubscriber, pendingSync,
                 told, events>>

Join ==
  /\ ~listening /\ listening' = TRUE
  /\ UNCHANGED <<published, still, consumed, withdrawn, sinceTick, pc, broken, state,
                 baseline, report, told, events>>

Leave ==
  /\ listening /\ listening' = FALSE
  /\ UNCHANGED <<published, still, consumed, withdrawn, sinceTick, pc, broken, state,
                 baseline, report, told, events>>

Withdraw ==
  /\ published /\ ~listening
  /\ published' = FALSE /\ withdrawn' = TRUE
  /\ baseline' = IF baseline = "zero" THEN "zero" ELSE "elsewhere"
  /\ UNCHANGED <<listening, still, consumed, sinceTick, pc, broken, state,
                 report, told, events>>

-----------------------------------------------------------------------------
(***************************************************************************)
(* The session's handlers.  After each the task sends what is pending.     *)
(***************************************************************************)
HandlerDone == pc' = IF pendingSync' = Nothing THEN "select" ELSE "send"

LookAt == baseline' = LookedAt /\ consumed' = FALSE

\* Mutant: a lost receiver is not reported.
LoseSilently ==
  /\ hasSubscriber /\ published /\ ~Moved
  /\ changeAge > LostAfter
  /\ hasSubscriber' = FALSE
  /\ UNCHANGED <<changeAge, baseline, consumed, pendingSync>>

\* Mutant: the receiver is lost as soon as it stands still.
LoseAtOnce ==
  /\ hasSubscriber /\ published /\ ~Moved
  /\ hasSubscriber' = FALSE
  /\ pendingSync' = ExternalSource
  /\ UNCHANGED <<changeAge, baseline, consumed>>

Detect ==
  /\ ~hasSubscriber /\ published /\ Moved
  /\ hasSubscriber' = TRUE /\ changeAge' = 0
  /\ LookAt
  /\ pendingSync' = Synchronized

Refresh ==
  /\ hasSubscriber /\ published /\ Moved
  /\ changeAge' = 0
  /\ LookAt
  /\ UNCHANGED <<hasSubscriber, pendingSync>>

Lose ==
  /\ hasSubscriber /\ published /\ ~Moved
  /\ changeAge > LostAfter
  /\ hasSubscriber' = FALSE
  /\ pendingSync' = ExternalSource
  /\ UNCHANGED <<changeAge, baseline, consumed>>

Forget ==
  /\ hasSubscriber /\ ~published
  /\ changeAge' = NoAge
  /\ UNCHANGED <<hasSubscriber, pendingSync, baseline, consumed>>

NothingToReport ==
  /\ \/ ~hasSubscriber /\ ~(published /\ Moved)
     \/ hasSubscriber /\ published /\ ~Moved /\ changeAge <= LostAfter
  /\ UNCHANGED <<report, baseline, consumed>>

LogMetrics ==
  /\ pc = "select" /\ sinceTick >= TickPeriod
  /\ sinceTick' = 0
  /\ Detect \/ Refresh \/ Lose \/ Forget \/ NothingToReport
  /\ HandlerDone
  /\ UNCHANGED <<listening, published, still, withdrawn, broken, state, told, events>>

Message == pc = "select" /\ events < MaxEvents /\ events' = events + 1

\* A running stream of the same format is rebuffered; any other start either
\* finds the transmitter moving or waits for it.
StreamStart ==
  /\ Message
  /\ \/ /\ state = "Streaming"
        /\ UNCHANGED <<state, baseline, consumed>>
     \/ /\ published /\ Moved
        /\ state' = "Streaming" /\ UNCHANGED <<baseline, consumed>>
     \/ /\ ~(published /\ Moved)
        /\ state' = "Waiting" /\ LookAt
  /\ UNCHANGED report
  /\ HandlerDone
  /\ UNCHANGED <<listening, published, still, withdrawn, sinceTick, broken, told>>

StreamClear ==
  /\ Message
  /\ state' = "Streaming"
  /\ UNCHANGED report
  /\ HandlerDone
  /\ UNCHANGED <<receiver, sinceTick, broken, baseline, told>>

\* Mutant: who was known is known in the next session.
IdleWithReceiver ==
  /\ state' = "Idle"
  /\ baseline' = "zero" /\ consumed' = FALSE
  /\ changeAge' = NoAge
  /\ UNCHANGED hasSubscriber

EnterIdle ==
  /\ state' = "Idle"
  /\ baseline' = "zero" /\ consumed' = FALSE
  /\ hasSubscriber' = FALSE /\ changeAge' = NoAge

StreamEnd ==
  /\ Message
  /\ EnterIdle
  /\ UNCHANGED pendingSync
  /\ HandlerDone
  /\ UNCHANGED <<listening, published, still, withdrawn, sinceTick, broken, told>>

\* handle_audio: a known receiver's movement is noted first, and what waits
\* for a receiver compares with the position noted.  A waiting stream gives up
\* after a while, and a misplaced write position ends the wait at once.
Noted == hasSubscriber /\ published /\ Moved
BaselineNoted == IF Noted THEN "here" ELSE baseline

\* Mutant: the position noted is not the one whose age is kept.
NoteWithoutAge == UNCHANGED report

\* Mutant: a chunk finds a receiver, and only the timer reports.
NoteReceiver ==
  /\ hasSubscriber' = (hasSubscriber \/ (published /\ Moved))
  /\ changeAge' = IF published /\ Moved THEN 0 ELSE changeAge
  /\ UNCHANGED pendingSync

Note ==
  /\ changeAge' = IF Noted THEN 0 ELSE changeAge
  /\ UNCHANGED <<hasSubscriber, pendingSync>>

WaitEnds ==
  \/ published /\ BaselineNoted # "here" /\ state' = "Streaming"
  \/ (~published \/ BaselineNoted = "here") /\ state' \in {"Waiting", "Streaming"}

Chunk ==
  /\ pc = "select" /\ state # "Idle"
  /\ Note
  /\ \/ /\ state = "Waiting" /\ WaitEnds /\ LookAt
     \/ /\ state = "Streaming" \/ published
        /\ state' = "Streaming"
        /\ baseline' = BaselineNoted
        /\ consumed' = IF Noted THEN FALSE ELSE consumed
  /\ HandlerDone
  /\ UNCHANGED <<listening, published, still, withdrawn, sinceTick, broken, told,
                 events>>

\* Messages, chunks and timers that leave all this alone; what was queued
\* when the session began is sent after the first of them.
OtherHandler ==
  /\ pc = "select"
  /\ UNCHANGED report
  /\ HandlerDone
  /\ UNCHANGED <<receiver, sinceTick, broken, state, baseline, told, events>>

\* The state is taken before it is sent: a failure loses it, and with it the
\* connection, as the task will find out.
Send ==
  /\ pc = "send"
  /\ \/ told' = pendingSync /\ UNCHANGED <<broken, events>>
     \/ /\ events < MaxEvents /\ events' = events + 1
        /\ broken' = TRUE /\ UNCHANGED told
  /\ pendingSync' = Nothing
  /\ pc' = "select"
  /\ UNCHANGED <<receiver, sinceTick, state, baseline, hasSubscriber, changeAge>>

-----------------------------------------------------------------------------
(***************************************************************************)
(* Sessions.                                                               *)
(***************************************************************************)
SessionEnds ==
  /\ pc = "select"
  /\ pc' = "offline" /\ broken' = FALSE
  /\ told' = Nothing
  /\ EnterIdle
  /\ UNCHANGED <<listening, published, still, withdrawn, sinceTick, pendingSync>>

LoseConnection == SessionEnds /\ events < MaxEvents /\ events' = events + 1

NoticeBroken == SessionEnds /\ broken /\ UNCHANGED events

\* The first turn of the timer is due at once.
Connect ==
  /\ pc = "offline"
  /\ pc' = "select"
  /\ hasSubscriber' = FALSE /\ changeAge' = NoAge
  /\ LookAt
  /\ pendingSync' = ExternalSource
  /\ sinceTick' = TickPeriod
  /\ UNCHANGED <<listening, published, still, withdrawn, broken, state, told, events>>

-----------------------------------------------------------------------------
Init ==
  /\ listening = FALSE /\ published = FALSE /\ still = 0 /\ consumed = FALSE
  /\ withdrawn = FALSE
  /\ sinceTick = 0 /\ pc = "offline" /\ broken = FALSE
  /\ state = "Idle" /\ baseline = "zero"
  /\ hasSubscriber = FALSE /\ changeAge = NoAge
  /\ pendingSync = Nothing /\ told = Nothing /\ events = 0

Environment == Consume \/ TimePasses \/ Join \/ Leave \/ Withdraw

Handlers ==
  \/ LogMetrics \/ StreamStart \/ StreamClear \/ StreamEnd \/ Chunk \/ OtherHandler
  \/ Send

Next == Environment \/ Handlers \/ LoseConnection \/ NoticeBroken \/ Connect

Spec == Init /\ [][Next]_vars

\* Time passes; select! picks among the ready branches at random, so that the
\* timer gets its turn; a send ends, a broken connection is noticed, and
\* connecting is retried until it succeeds.
FairSpec ==
  /\ Spec
  /\ WF_vars(TimePasses) /\ WF_vars(LogMetrics) /\ WF_vars(Send)
  /\ WF_vars(NoticeBroken) /\ WF_vars(Connect)

-----------------------------------------------------------------------------
(***************************************************************************)
(* What the reporting must get right.                                      *)
(***************************************************************************)
\* The values the variables range over; between sessions no receiver is known
\* and nothing has been reported.
TypeOK ==
  /\ listening \in BOOLEAN /\ published \in BOOLEAN /\ consumed \in BOOLEAN
  /\ withdrawn \in BOOLEAN /\ broken \in BOOLEAN /\ hasSubscriber \in BOOLEAN
  /\ still \in 0 .. LostAfter + 1
  /\ sinceTick \in 0 .. TickPeriod + 1
  /\ pc \in {"offline", "select", "send"}
  /\ state \in {"Idle", "Waiting", "Streaming"}
  /\ baseline \in {"zero", "here", "elsewhere"}
  /\ changeAge \in 0 .. LostAfter + 1 \cup {NoAge}
  /\ pendingSync \in {Nothing, Synchronized, ExternalSource}
  /\ told \in {Nothing, Synchronized, ExternalSource}
  /\ events \in Nat
  /\ pc = "offline" => ~hasSubscriber /\ told = Nothing

\* "read_pos stale for >10s while nonzero -> subscriber lost" (DESIGN.md): a
\* receiver that has consumed within that time is not reported lost, however
\* chunks, stream starts and the timer share the position they look at.
LossNotPremature ==
  [][hasSubscriber /\ pendingSync' = ExternalSource => still > LostAfter]_vars

\* A receiver that stays is reported in the end, whatever streams, resets,
\* lost connections and failed sends came before.
ListenerReported == <>[]listening => <>[](told = Synchronized)

\* Nor is one that has left kept on the server's books, unless the position has
\* been withdrawn at some time.
LeaverReported ==
  <>[](~listening /\ ~withdrawn) => <>[](told # Synchronized)

\* "a static nonzero read_pos is not sufficient" (DESIGN.md): a receiver is
\* detected only when the position has moved since it was last looked at.
DetectionNeedsMovement ==
  [][~hasSubscriber /\ hasSubscriber' => consumed]_vars

\* A chunk that finds the read position moved ends the wait for a receiver.
MovementEndsWait ==
  [][Chunk /\ state = "Waiting" /\ published /\ Moved => state' # "Waiting"]_vars
=============================================================================
