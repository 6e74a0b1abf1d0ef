----------------------------- MODULE AddonProofs -----------------------------
(***************************************************************************)
(* Theorems about the add-on's script, for any number of bridges and any   *)
(* options.                                                                *)
(***************************************************************************)
EXTENDS AddonSupervisor, SequenceTheorems, TLAPS

\* The entries up to k agree with each other.
Fit(k) == \A j \in 1 .. k : ~Clashes(j)

\* Until a bridge is started the entries looked at fit; from then on, all do.
Inv ==
  /\ TypeOK
  /\ options \in Seq(Entries)
  /\ pc = "validating" => Fit(next - 1) /\ running = {} /\ recorded = {}
  /\ pc \notin {"validating", "exited"} \/ running # {} => Fit(Len(options))
  /\ pc = "recording" => next <= Len(options)
  /\ NoneLeftRunning

LEMMA InvInit == Init => Inv
<1> SUFFICES ASSUME Init PROVE Inv
  OBVIOUS
<1>1. PICK n \in 1 .. MaxBridges : options \in [1 .. n -> Entries]
  BY DEF Init
<1>2. n \in Nat
  BY AddonAssumption
<1>3. options \in Seq(Entries) /\ Len(options) = n
  BY <1>1, <1>2, SeqDef
<1>4. Fit(next - 1)
  BY DEF Init, Fit
<1>5. next \in 1 .. Len(options) + 1
  BY <1>2, <1>3 DEF Init
<1>6. TypeOK
  BY <1>5 DEF Init, TypeOK
<1> QED
  BY <1>3, <1>4, <1>6 DEF Init, Inv, NoneLeftRunning

LEMMA InvNext == Inv /\ [Next]_vars => Inv'
<1> SUFFICES ASSUME Inv, [Next]_vars PROVE Inv'
  OBVIOUS
<1>1. options' = options
  BY DEF Next, Script, ValidateEntry, AwaitClock, Launch, Record, BeginWait, WaitReturns,
     Terminate, Reap, LaunchFails, Stop, BridgeEnds, vars
<1>2. Len(options) \in Nat /\ next \in 1 .. Len(options) + 1
  BY DEF Inv, TypeOK
<1>3. ASSUME NEW j
      PROVE  Clashes(j)' <=> Clashes(j)
  BY <1>1 DEF Clashes
<1>4. PICK n \in Nat, m \in Nat : n = Len(options) /\ m = next /\ m \in 1 .. n + 1
  BY <1>2
<1> USE DEF Inv, TypeOK, NoneLeftRunning, Fit
<1>5. CASE ValidateEntry
  <2>1. /\ pc = "validating" /\ m <= n /\ running' = {} /\ recorded' = {}
        /\ UNCHANGED <<killed, missed, signalled, failed>>
        /\ \/ Clashes(m) /\ pc' = "exited" /\ next' = m
           \/ ~Clashes(m) /\ next' = m + 1 /\ pc' = pc
    BY <1>4, <1>5 DEF ValidateEntry, Exit
  <2>2. ASSUME ~Clashes(m)
        PROVE  \A j \in 1 .. m : ~Clashes(j)'
    <3>1. \A j \in 1 .. m - 1 : ~Clashes(j)
      BY <1>4, <2>1
    <3> QED
      BY <1>3, <1>4, <2>2, <3>1
  <2> QED
    BY <1>1, <1>4, <2>1, <2>2
<1>6. CASE AwaitClock
  <2>1. /\ pc = "validating" /\ m = n + 1 /\ running' = {} /\ recorded' = {}
        /\ UNCHANGED <<killed, missed, signalled, failed>>
        /\ \/ pc' = "launching" /\ next' = 1
           \/ pc' = "exited" /\ next' = m
    BY <1>4, <1>6 DEF AwaitClock, Exit
  <2>2. \A j \in 1 .. n : ~Clashes(j)'
    BY <1>3, <1>4, <2>1
  <2> QED
    BY <1>1, <1>4, <2>1, <2>2
<1>7. CASE Launch
  <2>1. /\ pc = "launching" /\ pc' = "recording" /\ m <= n
        /\ running' = running \cup {m}
        /\ UNCHANGED <<next, recorded, killed, missed, signalled, failed>>
    BY <1>4, <1>7 DEF Launch, MoreToLaunch
  <2>2. \A j \in 1 .. n : ~Clashes(j)'
    BY <1>3, <1>4, <2>1
  <2> QED
    BY <1>1, <1>4, <2>1, <2>2
<1>8. CASE Record
  <2>1. /\ pc = "recording" /\ pc' = "launching" /\ m <= n
        /\ recorded' = recorded \cup {m} /\ next' = m + 1
        /\ UNCHANGED <<running, killed, missed, signalled, failed>>
    BY <1>4, <1>8 DEF Record
  <2>2. \A j \in 1 .. n : ~Clashes(j)'
    BY <1>3, <1>4, <2>1
  <2> QED
    BY <1>1, <1>4, <2>1, <2>2
<1>9. CASE LaunchFails \/ BeginWait \/ WaitReturns \/ Terminate
  <2>1. /\ pc \notin {"validating", "exited"} /\ pc' \notin {"validating", "recording"}
        /\ pc' \in {"exited", "waiting", "terminating", "reaping"}
        /\ pc' = "exited" => failed'
        /\ UNCHANGED <<next, running, recorded, signalled>>
        /\ killed' \subseteq recorded /\ missed' \subseteq recorded
        /\ failed' \in BOOLEAN
    BY <1>9 DEF LaunchFails, BeginWait, WaitReturns, Terminate, SignalAll, Exit
  <2>2. \A j \in 1 .. n : ~Clashes(j)'
    BY <1>3, <1>4, <2>1
  <2> QED
    BY <1>1, <1>4, <2>1, <2>2
<1>10. CASE Reap
  <2>1. /\ running = {} /\ pc' = "exited"
        /\ UNCHANGED <<next, running, recorded, killed, missed, signalled, failed>>
    BY <1>10 DEF Reap, Exit
  <2> QED
    BY <1>1, <1>4, <2>1
<1>11. CASE Stop
  <2>1. /\ pc # "exited" /\ signalled' = TRUE
        /\ pc' = IF pc = "validating" THEN "exited" ELSE "terminating"
        /\ UNCHANGED <<next, running, recorded, killed, missed, failed>>
    BY <1>11 DEF Stop
  <2>2. pc # "validating" => \A j \in 1 .. n : ~Clashes(j)'
    BY <1>3, <1>4, <2>1
  <2> QED
    BY <1>1, <1>4, <2>1, <2>2
<1>12. CASE \E i \in running : BridgeEnds(i)
  <2>1. /\ running # {} /\ running' \subseteq running
        /\ UNCHANGED <<pc, next, recorded, killed, missed, signalled, failed>>
    BY <1>12 DEF BridgeEnds
  <2>2. \A j \in 1 .. n : ~Clashes(j)'
    BY <1>3, <1>4, <2>1
  <2> QED
    BY <1>1, <1>4, <2>1, <2>2
<1>13. CASE UNCHANGED vars
  <2>1. UNCHANGED <<pc, next, running, recorded, killed, missed, signalled, failed>>
    BY <1>13 DEF vars
  <2> QED
    BY <1>1, <1>3, <1>4, <2>1
<1> QED
  BY <1>5, <1>6, <1>7, <1>8, <1>9, <1>10, <1>11, <1>12, <1>13 DEF Next, Script

LEMMA InvHolds == Spec => []Inv
  BY InvInit, InvNext, PTL DEF Spec

-----------------------------------------------------------------------------
\* Only configured bridges run, and at most the last one started is missing
\* from PIDS, whenever the script is stopped or a start fails.
THEOREM TypeCorrect == Spec => []TypeOK
<1>1. Inv => TypeOK
  BY DEF Inv
<1> QED
  BY <1>1, InvHolds, PTL

\* Bridges that run together never share a DANTE identity or a port.
THEOREM Apart == Spec => []RunApart
<1>1. Inv => RunApart
  <2> SUFFICES ASSUME Inv, NEW i \in running, NEW j \in running, i < j
               PROVE  /\ options[i].process # options[j].process
                      /\ Distance(options[i].port, options[j].port) >= 10
                      /\ options[i].id = options[j].id => ~options[i].named
    BY DEF RunApart
  <2>1. i \in 1 .. Len(options) /\ j \in 1 .. Len(options) /\ Len(options) \in Nat
    BY DEF Inv, TypeOK
  <2>2. ~Clashes(j) /\ i \in 1 .. j - 1
    BY <2>1 DEF Inv, Fit
  <2>3. options[i].port \in Nat /\ options[j].port \in Nat
    <3>1. options[i] \in Entries /\ options[j] \in Entries
      BY <2>1, ElementOfSeq DEF Inv
    <3> QED
      BY <3>1, AddonAssumption DEF Entries
  <2>4. Distance(options[i].port, options[j].port) \in Nat
    BY <2>3 DEF Distance
  <2> QED
    BY <2>2, <2>4 DEF Clashes
<1> QED
  BY <1>1, InvHolds, PTL

\* The script outlives its bridges, unless starting one has failed.
THEOREM NoneLeft == Spec => []NoneLeftRunning
<1>1. Inv => NoneLeftRunning
  BY DEF Inv
<1> QED
  BY <1>1, InvHolds, PTL
=============================================================================
