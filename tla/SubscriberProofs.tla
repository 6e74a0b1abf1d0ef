-------------------------- MODULE SubscriberProofs --------------------------
(***************************************************************************)
(* A receiver is never reported lost too early, whatever the periods: the  *)
(* age kept for the read position is not older than its last movement as   *)
(* long as a known receiver's position is the one last looked at.          *)
(***************************************************************************)
EXTENDS SubscriberReport, TLAPS

\* A known receiver whose position has been looked at is at least as fresh as
\* the age kept for it, and nothing unconfirmed waits to be sent.
Fresh ==
  /\ hasSubscriber /\ published /\ baseline = "here" => changeAge <= still
  /\ hasSubscriber => pendingSync # ExternalSource

Inv == TypeOK /\ Fresh

\* Ages stay within their range.
LEMMA OlderInRange ==
  ASSUME NEW age \in 0 .. LostAfter + 1 \cup {NoAge}
  PROVE  /\ Older(age) \in 0 .. LostAfter + 1 \cup {NoAge}
         /\ age # NoAge => Older(age) \in 0 .. LostAfter + 1
  BY PeriodAssumption DEF Older, NoAge

\* Of two ages the older one stays the older.
LEMMA OlderIsMonotone ==
  ASSUME NEW a \in 0 .. LostAfter + 1 \cup {NoAge}, NEW b \in 0 .. LostAfter + 1,
         a <= b
  PROVE  Older(a) <= Older(b)
  BY PeriodAssumption DEF Older, NoAge

\* The invariant holds initially.
LEMMA InitInv == Init => Inv
<1> SUFFICES ASSUME Init
             PROVE  Inv
    OBVIOUS
<1>1. TypeOK
  <2>1. 0 \in 0 .. LostAfter + 1 /\ 0 \in 0 .. TickPeriod + 1
        BY PeriodAssumption
  <2> QED BY <2>1 DEF Init, TypeOK
<1>2. Fresh
      BY DEF Init, Fresh
<1> QED BY <1>1, <1>2 DEF Inv

\* What is true or false, and what ranges over numbers and names.
Switches ==
  /\ listening \in BOOLEAN /\ published \in BOOLEAN /\ consumed \in BOOLEAN
  /\ withdrawn \in BOOLEAN /\ broken \in BOOLEAN /\ hasSubscriber \in BOOLEAN

Ranges ==
  /\ still \in 0 .. LostAfter + 1
  /\ sinceTick \in 0 .. TickPeriod + 1
  /\ pc \in {"offline", "select", "send"}
  /\ state \in {"Idle", "Waiting", "Streaming"}
  /\ baseline \in {"zero", "here", "elsewhere"}
  /\ changeAge \in 0 .. LostAfter + 1 \cup {NoAge}
  /\ pendingSync \in {Nothing, Synchronized, ExternalSource}
  /\ told \in {Nothing, Synchronized, ExternalSource}
  /\ events \in Nat

Between == pc = "offline" => ~hasSubscriber /\ told = Nothing

\* The type invariant in three parts.
LEMMA TypeParts == TypeOK <=> Switches /\ Ranges /\ Between
  BY DEF TypeOK, Switches, Ranges, Between

\* Every step keeps what is true or false so.
LEMMA SwitchStep == Switches /\ [Next]_vars => Switches'
<1> SUFFICES ASSUME Switches, [Next]_vars
             PROVE  Switches'
    OBVIOUS
<1> USE DEF Switches
<1>1. CASE Consume
      BY <1>1 DEF Consume, Moves, report
<1>2. CASE TimePasses
      BY <1>2 DEF TimePasses, Moves
<1>3. CASE Join
      BY <1>3 DEF Join, report
<1>4. CASE Leave
      BY <1>4 DEF Leave, report
<1>5. CASE Withdraw
      BY <1>5 DEF Withdraw, report
<1>6. CASE LogMetrics
  <2>1. hasSubscriber' \in BOOLEAN
        BY <1>6 DEF LogMetrics, Detect, Refresh, Lose, Forget, NothingToReport, report
  <2>2. consumed' \in BOOLEAN
        BY <1>6 DEF LogMetrics, Detect, Refresh, Lose, Forget, NothingToReport, LookAt
  <2> QED BY <1>6, <2>1, <2>2 DEF LogMetrics
<1>7. CASE StreamStart
      BY <1>7 DEF StreamStart, LookAt, report
<1>8. CASE StreamClear
      BY <1>8 DEF StreamClear, receiver, report
<1>9. CASE StreamEnd
      BY <1>9 DEF StreamEnd, EnterIdle
<1>10. CASE Chunk
  <2>1. consumed' \in BOOLEAN
        BY <1>10 DEF Chunk, LookAt
  <2> QED BY <1>10, <2>1 DEF Chunk, Note
<1>11. CASE OtherHandler
       BY <1>11 DEF OtherHandler, receiver, report
<1>12. CASE Send
       BY <1>12 DEF Send, receiver
<1>13. CASE LoseConnection \/ NoticeBroken
       BY <1>13 DEF LoseConnection, NoticeBroken, SessionEnds, EnterIdle
<1>14. CASE Connect
       BY <1>14 DEF Connect, LookAt
<1>15. CASE UNCHANGED vars
       BY <1>15 DEF vars, receiver, report
<1> QED
    BY <1>1, <1>2, <1>3, <1>4, <1>5, <1>6, <1>7, <1>8, <1>9, <1>10, <1>11, <1>12,
       <1>13, <1>14, <1>15 DEF Next, Environment, Handlers

\* Every step keeps numbers and names within their ranges.
LEMMA RangeStep == Ranges /\ [Next]_vars => Ranges'
<1> SUFFICES ASSUME Ranges, [Next]_vars
             PROVE  Ranges'
    OBVIOUS
<1> USE PeriodAssumption DEF Ranges, Nothing, Synchronized, ExternalSource
<1>0. /\ 0 \in 0 .. LostAfter + 1 /\ 0 \in 0 .. TickPeriod + 1
      /\ TickPeriod \in 0 .. TickPeriod + 1
      /\ NoAge \in 0 .. LostAfter + 1 \cup {NoAge}
      BY DEF NoAge
<1>1. CASE Consume
      BY <1>0, <1>1 DEF Consume, Moves, report
<1>2. CASE TimePasses
  <2>1. /\ Older(changeAge) \in 0 .. LostAfter + 1 \cup {NoAge}
        /\ Older(still) \in 0 .. LostAfter + 1
        BY OlderInRange DEF NoAge
  <2>2. still' \in 0 .. LostAfter + 1 /\ baseline' \in {"zero", "here", "elsewhere"}
        BY <1>0, <1>2, <2>1 DEF TimePasses, Moves
  <2>3. sinceTick' \in 0 .. TickPeriod + 1
        BY <1>2 DEF TimePasses
  <2> QED BY <1>2, <2>1, <2>2, <2>3 DEF TimePasses
<1>3. CASE Join
      BY <1>3 DEF Join, report
<1>4. CASE Leave
      BY <1>4 DEF Leave, report
<1>5. CASE Withdraw
      BY <1>5 DEF Withdraw, report
<1>6. CASE LogMetrics
  <2>1. changeAge' \in 0 .. LostAfter + 1 \cup {NoAge}
        BY <1>0, <1>6
        DEF LogMetrics, Detect, Refresh, Lose, Forget, NothingToReport, report
  <2>2. pendingSync' \in {Nothing, Synchronized, ExternalSource}
        BY <1>6 DEF LogMetrics, Detect, Refresh, Lose, Forget, NothingToReport, report
  <2>3. baseline' \in {"zero", "here", "elsewhere"}
        BY <1>6 DEF LogMetrics, Detect, Refresh, Lose, Forget, NothingToReport,
                    LookAt, LookedAt
  <2> QED BY <1>0, <1>6, <2>1, <2>2, <2>3 DEF LogMetrics, HandlerDone
<1>7. CASE StreamStart
      BY <1>7 DEF StreamStart, Message, HandlerDone, LookAt, LookedAt, report
<1>8. CASE StreamClear
      BY <1>8 DEF StreamClear, Message, HandlerDone, receiver, report
<1>9. CASE StreamEnd
      BY <1>0, <1>9 DEF StreamEnd, Message, HandlerDone, EnterIdle
<1>10. CASE Chunk
  <2>1. baseline' \in {"zero", "here", "elsewhere"}
        BY <1>10 DEF Chunk, LookAt, LookedAt, BaselineNoted
  <2>2. changeAge' \in 0 .. LostAfter + 1 \cup {NoAge}
        BY <1>0, <1>10 DEF Chunk, Note
  <2>3. state' \in {"Idle", "Waiting", "Streaming"}
        BY <1>10 DEF Chunk, WaitEnds
  <2> QED BY <1>10, <2>1, <2>2, <2>3 DEF Chunk, Note, HandlerDone
<1>11. CASE OtherHandler
       BY <1>11 DEF OtherHandler, HandlerDone, receiver, report
<1>12. CASE Send
  <2>1. events' \in Nat
        BY <1>12 DEF Send
  <2> QED BY <1>12, <2>1 DEF Send, receiver
<1>13. CASE LoseConnection \/ NoticeBroken
       BY <1>0, <1>13 DEF LoseConnection, NoticeBroken, SessionEnds, EnterIdle
<1>14. CASE Connect
       BY <1>0, <1>14 DEF Connect, LookAt, LookedAt
<1>15. CASE UNCHANGED vars
       BY <1>15 DEF vars, receiver, report
<1> QED
    BY <1>1, <1>2, <1>3, <1>4, <1>5, <1>6, <1>7, <1>8, <1>9, <1>10, <1>11, <1>12,
       <1>13, <1>14, <1>15 DEF Next, Environment, Handlers

\* Between sessions nothing is known and nothing has been told.
LEMMA BetweenStep == Between /\ [Next]_vars => Between'
<1> SUFFICES ASSUME Between, [Next]_vars
             PROVE  Between'
    OBVIOUS
<1> USE DEF Between
<1>1. CASE Environment
      BY <1>1 DEF Environment, Consume, TimePasses, Join, Leave, Withdraw, report
<1>2. CASE Handlers
  <2>1. pc' \in {"select", "send"}
        BY <1>2 DEF Handlers, LogMetrics, StreamStart, StreamClear, StreamEnd, Chunk,
                    OtherHandler, Send, HandlerDone
  <2> QED BY <2>1
<1>3. CASE LoseConnection \/ NoticeBroken
      BY <1>3 DEF LoseConnection, NoticeBroken, SessionEnds, EnterIdle
<1>4. CASE Connect
      BY <1>4 DEF Connect
<1>5. CASE UNCHANGED vars
      BY <1>5 DEF vars, report
<1> QED BY <1>1, <1>2, <1>3, <1>4, <1>5 DEF Next

\* Every step preserves the types.
LEMMA TypeStep == TypeOK /\ [Next]_vars => TypeOK'
<1>1. TypeOK' <=> Switches' /\ Ranges' /\ Between'
      BY DEF TypeOK, Switches, Ranges, Between
<1> QED BY <1>1, TypeParts, SwitchStep, RangeStep, BetweenStep

\* Every step keeps the age honest.
LEMMA FreshStep == Inv /\ [Next]_vars => Fresh'
<1> SUFFICES ASSUME TypeOK, Fresh, [Next]_vars
             PROVE  Fresh'
    BY DEF Inv
<1> USE PeriodAssumption DEF TypeOK, Fresh, Synchronized, ExternalSource, Nothing, NoAge
<1>1. CASE Consume
      BY <1>1 DEF Consume, Moves, report
<1>2. CASE TimePasses
  <2>1. CASE listening
        BY <1>2, <2>1 DEF TimePasses, Moves
  <2>2. CASE ~listening
    <3>1. changeAge <= still => Older(changeAge) <= Older(still)
          BY OlderIsMonotone
    <3> QED BY <1>2, <2>2, <3>1 DEF TimePasses
  <2> QED BY <2>1, <2>2
<1>3. CASE Join \/ Leave
      BY <1>3 DEF Join, Leave, report
<1>4. CASE Withdraw
      BY <1>4 DEF Withdraw, report
<1>5. CASE LogMetrics
  <2>1. CASE Detect \/ Refresh
        BY <1>5, <2>1 DEF LogMetrics, Detect, Refresh, LookAt, LookedAt
  <2>2. CASE Lose
        BY <1>5, <2>2 DEF LogMetrics, Lose
  <2>3. CASE Forget \/ NothingToReport
        BY <1>5, <2>3 DEF LogMetrics, Forget, NothingToReport, report
  <2> QED BY <1>5, <2>1, <2>2, <2>3 DEF LogMetrics
<1>6. CASE StreamStart
      BY <1>6 DEF StreamStart, Message, LookAt, LookedAt, Moved, report
<1>7. CASE StreamClear
      BY <1>7 DEF StreamClear, Message, receiver, report
<1>8. CASE StreamEnd
      BY <1>8 DEF StreamEnd, EnterIdle
<1>9. CASE Chunk
  <2>1. hasSubscriber /\ published /\ BaselineNoted = "here" => changeAge' <= still
        BY <1>9 DEF Chunk, Note, Noted, BaselineNoted, Moved
  <2>2. hasSubscriber /\ published /\ baseline' = "here" => BaselineNoted = "here"
        BY <1>9 DEF Chunk, LookAt, LookedAt, WaitEnds, BaselineNoted, Noted, Moved
  <2> QED BY <1>9, <2>1, <2>2 DEF Chunk, Note
<1>10. CASE OtherHandler
       BY <1>10 DEF OtherHandler, receiver, report
<1>11. CASE Send
       BY <1>11 DEF Send, receiver
<1>12. CASE LoseConnection \/ NoticeBroken
       BY <1>12 DEF LoseConnection, NoticeBroken, SessionEnds, EnterIdle
<1>13. CASE Connect
       BY <1>13 DEF Connect
<1>14. CASE UNCHANGED vars
       BY <1>14 DEF vars, receiver, report
<1> QED
    BY <1>1, <1>2, <1>3, <1>4, <1>5, <1>6, <1>7, <1>8, <1>9, <1>10, <1>11, <1>12,
       <1>13, <1>14 DEF Next, Environment, Handlers

\* The invariant always holds.
LEMMA Invariance == Spec => []Inv
<1>1. Inv /\ [Next]_vars => Inv'
      BY TypeStep, FreshStep DEF Inv
<1> QED BY InitInv, <1>1, PTL DEF Spec

\* Whatever the periods, the variables keep to their values.
THEOREM TypeCorrect == Spec => []TypeOK
<1>1. Inv => TypeOK
      BY DEF Inv
<1> QED BY Invariance, <1>1, PTL

\* No step that leaves a receiver reported lost does so before it has stood
\* still for longer than LostAfter.
LEMMA LossStep ==
  ASSUME Inv, [Next]_vars, hasSubscriber, pendingSync' = ExternalSource
  PROVE  still > LostAfter
<1> USE DEF Inv, TypeOK, Fresh, Nothing, Synchronized, ExternalSource, NoAge
<1>1. CASE LogMetrics
  <2>1. Lose
        BY <1>1 DEF LogMetrics, Detect, Refresh, Forget, NothingToReport, report
  <2>2. baseline = "here" /\ published /\ changeAge > LostAfter
        BY <2>1 DEF Lose, Moved
  <2> QED BY <2>2, PeriodAssumption
<1>2. CASE Connect
      BY <1>2 DEF Connect
<1>3. CASE ~LogMetrics /\ ~Connect
  <2>1. pendingSync' = pendingSync \/ pendingSync' = Nothing
        BY <1>3 DEF Next, Environment, Handlers, Consume, TimePasses, Join, Leave,
           Withdraw, StreamStart, StreamClear, StreamEnd, Chunk, Note, OtherHandler,
           Send, LoseConnection, NoticeBroken, SessionEnds, vars, report
  <2> QED BY <2>1
<1> QED BY <1>1, <1>2, <1>3

\* A receiver that has consumed within LostAfter is not reported lost.
THEOREM LossKeepsItsTime == Spec => LossNotPremature
<1>1. Inv /\ [Next]_vars
        => [hasSubscriber /\ pendingSync' = ExternalSource => still > LostAfter]_vars
      BY LossStep
<1> QED BY Invariance, <1>1, PTL DEF Spec, LossNotPremature
=============================================================================
