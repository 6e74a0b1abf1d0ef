--------------------------- MODULE AddonSupervisor ---------------------------
(***************************************************************************)
(* addons/spin2dante/run.sh: checks the configured bridges against each    *)
(* other, waits for the clock, starts one process per bridge and, when one *)
(* of them ends or the add-on is stopped, stops all.  Bridges end on their *)
(* own at any time; the stop may come between any two commands.            *)
(***************************************************************************)
EXTENDS Integers, Sequences

CONSTANTS Ids, ProcessIds, Ports,  \* what an entry of the options may say
          MaxBridges               \* bound of an instance

ASSUME AddonAssumption ==
  /\ ProcessIds \subseteq Nat /\ Ports \subseteq Nat /\ MaxBridges \in Nat

VARIABLES
  options,   \* .bridges of the options file
  pc,        \* what the script is at
  next,      \* the loop variable, from 1
  running,   \* bridges whose process lives
  recorded,  \* bridges whose process id is in PIDS
  killed,    \* bridges sent the signal
  missed,    \* bridges that had ended before wait -n, and that it overlooks
  signalled, \* the add-on has been told to stop
  failed     \* a command of the loop that starts the bridges has failed

vars == <<options, pc, next, running, recorded, killed, missed, signalled, failed>>

\* named: the entry's name is not empty.
Entries == [id : Ids, named : BOOLEAN, process : ProcessIds, port : Ports]

Distance(p, q) == IF p >= q THEN p - q ELSE q - p

\* Mutant: only the entry before is looked at.
ClashesWithLast(k) ==
  \E j \in {k - 1} \ {0} :
    \/ options[j].process = options[k].process
    \/ Distance(options[j].port, options[k].port) < 10

\* What an entry is refused for.  IDS keeps the name of the last entry with
\* an id, and an empty name is no mark.
Clashes(k) ==
  \E j \in 1 .. k - 1 :
    \/ options[j].id = options[k].id /\ options[j].named
    \/ options[j].process = options[k].process
    \/ Distance(options[j].port, options[k].port) < 10

-----------------------------------------------------------------------------
(***************************************************************************)
(* Before any bridge is started.                                           *)
(***************************************************************************)
Init ==
  /\ \E n \in 1 .. MaxBridges : options \in [1 .. n -> Entries]
  /\ pc = "validating" /\ next = 1
  /\ running = {} /\ recorded = {} /\ killed = {} /\ missed = {}
  /\ signalled = FALSE /\ failed = FALSE

Exit == pc' = "exited"

ValidateEntry ==
  /\ pc = "validating" /\ next <= Len(options)
  /\ IF Clashes(next) THEN Exit /\ UNCHANGED next
     ELSE next' = next + 1 /\ UNCHANGED pc
  /\ UNCHANGED <<options, running, recorded, killed, missed, signalled, failed>>

\* The clock's socket appears in time, or it does not.
AwaitClock ==
  /\ pc = "validating" /\ next > Len(options)
  /\ \/ pc' = "launching" /\ next' = 1
     \/ Exit /\ UNCHANGED next
  /\ UNCHANGED <<options, running, recorded, killed, missed, signalled, failed>>

-----------------------------------------------------------------------------
(***************************************************************************)
(* The bridges.                                                            *)
(***************************************************************************)
\* Mutant: the loop turns once too often.
OneMoreToLaunch == next <= Len(options) + 1

MoreToLaunch == next <= Len(options)

Launch ==
  /\ pc = "launching" /\ MoreToLaunch
  /\ running' = running \cup {next}
  /\ pc' = "recording"
  /\ UNCHANGED <<options, next, recorded, killed, missed, signalled, failed>>

\* PIDS+=("$!")
Record ==
  /\ pc = "recording"
  /\ recorded' = recorded \cup {next}
  /\ next' = next + 1 /\ pc' = "launching"
  /\ UNCHANGED <<options, running, killed, missed, signalled, failed>>

\* set -e: mkdir or jq fails, and what was started is left behind.
LaunchFails ==
  /\ pc = "launching" /\ MoreToLaunch
  /\ Exit /\ failed' = TRUE
  /\ UNCHANGED <<options, next, running, recorded, killed, missed, signalled>>

\* wait -n: of the bridges that have ended before, bash may overlook any.
BeginWait ==
  /\ pc = "launching" /\ ~MoreToLaunch
  /\ pc' = "waiting"
  /\ missed' \in SUBSET (recorded \ running)
  /\ UNCHANGED <<options, next, running, recorded, killed, signalled, failed>>

\* Mutant: wait without -n.
AllHaveEnded == recorded \cap running = {}

OneHasEnded ==
  \/ (recorded \ running) \ missed # {}
  \/ recorded \cap running = {}

WaitReturns ==
  /\ pc = "waiting" /\ OneHasEnded
  /\ pc' = "terminating"
  /\ UNCHANGED <<options, next, running, recorded, killed, missed, signalled, failed>>

\* Mutant: "$PIDS" is the first of them.
SignalFirst == killed \cup (recorded \cap {1})

SignalAll == killed \cup recorded

\* Mutant: under set -e, a process that is gone already ends the script.
TerminateOrFail ==
  /\ pc = "terminating"
  /\ killed' = SignalAll
  /\ pc' = IF recorded \subseteq running THEN "reaping" ELSE "exited"
  /\ UNCHANGED <<options, next, running, recorded, missed, signalled, failed>>

\* terminate_children: one that is gone already is no error.
Terminate ==
  /\ pc = "terminating"
  /\ killed' = SignalAll
  /\ pc' = "reaping"
  /\ UNCHANGED <<options, next, running, recorded, missed, signalled, failed>>

\* wait: for every child, recorded or not.
Reap ==
  /\ pc = "reaping" /\ running = {}
  /\ Exit
  /\ UNCHANGED <<options, next, running, recorded, killed, missed, signalled, failed>>

-----------------------------------------------------------------------------
(***************************************************************************)
(* What happens to the script.                                             *)
(***************************************************************************)
\* SIGTERM or SIGINT: before the trap is set it just ends the script; then
\* the trap runs between any two commands, and in place of a wait.
Stop ==
  /\ pc # "exited" /\ ~signalled
  /\ signalled' = TRUE
  /\ pc' = IF pc = "validating" THEN "exited" ELSE "terminating"
  /\ UNCHANGED <<options, next, running, recorded, killed, missed, failed>>

BridgeEnds(i) ==
  /\ i \in running /\ running' = running \ {i}
  /\ UNCHANGED <<options, pc, next, recorded, killed, missed, signalled, failed>>

\* SIGTERM is not caught by a bridge.
KilledEnds == \E i \in killed : BridgeEnds(i)

Script ==
  \/ ValidateEntry \/ AwaitClock \/ Launch \/ Record \/ BeginWait
  \/ WaitReturns \/ Terminate \/ Reap

Next ==
  \/ Script \/ LaunchFails \/ Stop
  \/ \E i \in running : BridgeEnds(i)

Spec == Init /\ [][Next]_vars

\* The shell goes on when it can, and a signal that kills kills.
FairSpec == Spec /\ WF_vars(Script) /\ WF_vars(KilledEnds)

-----------------------------------------------------------------------------
(***************************************************************************)
(* What the add-on must get right.                                         *)
(***************************************************************************)
\* Only the bridges of the options run, and all but the last started one are
\* recorded.
TypeOK ==
  /\ pc \in {"validating", "launching", "recording", "waiting",
             "terminating", "reaping", "exited"}
  /\ next \in 1 .. Len(options) + 1
  /\ recorded \subseteq 1 .. Len(options) /\ running \subseteq 1 .. Len(options)
  /\ running \subseteq recorded \cup {next}
  /\ killed \subseteq recorded /\ missed \subseteq recorded
  /\ signalled \in BOOLEAN /\ failed \in BOOLEAN

\* Bridges that run together have a DANTE identity each and ranges of ten
\* ports that do not meet; they share an id, and with it a volume file, only
\* when the earlier one has no name.
RunApart ==
  \A i, j \in running : i < j =>
    /\ options[i].process # options[j].process
    /\ Distance(options[i].port, options[j].port) >= 10
    /\ options[i].id = options[j].id => ~options[i].named

\* The script ends after its bridges: whatever has ended before, between and
\* during the signals, none is left running, unless a start has failed.
NoneLeftRunning == pc = "exited" /\ ~failed => running = {}

\* Told to stop, the add-on comes to an end.  One order is excepted: a stop
\* that comes after a bridge is started and before it is recorded waits for a
\* bridge that nobody signals.
StopEnds == pc = "terminating" /\ running \subseteq recorded ~> pc = "exited"

\* A bridge that ends while the add-on waits takes the add-on down with it,
\* for it to be started again.
OneDownAllDown ==
  pc = "waiting" /\ (recorded \ running) \ missed # {} ~> pc = "exited"
=============================================================================
