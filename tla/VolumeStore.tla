----------------------------- MODULE VolumeStore -----------------------------
(***************************************************************************)
(* The volume of src/state.rs and src/bridge.rs: the level in memory, the  *)
(* file it is kept in, and the temporary file it is written to first.      *)
(* Each system call of a save is a step of its own, for the add-on is      *)
(* stopped by a signal the bridge does not catch; each may fail.           *)
(***************************************************************************)
EXTENDS Naturals

CONSTANTS
  Volumes,    \* volumes a server may command, or a file hold
  FullVolume  \* 100

ASSUME VolumeAssumption == Volumes \subseteq Nat /\ FullVolume \in Nat

VARIABLES
  level,  \* GainControl
  file,   \* --state-file
  tmp,    \* the same path with extension tmp
  \* What is needed to say what a save must do.
  previous,  \* the level before the save under way, else the level
  failed     \* the last save failed

store == <<level, file, tmp, previous, failed>>

Levels == [volume : 0 .. FullVolume, muted : BOOLEAN]
Default == [volume |-> FullVolume, muted |-> FALSE]

\* A file is missing, cut off, or holds a level, maybe an edited one.
Absent == [kind |-> "absent", level |-> Default]
CutOff == [kind |-> "cutoff", level |-> Default]
Holding(l) == [kind |-> "level", level |-> l]
HoldingAny(vs) == [kind : {"level"}, level : [volume : vs, muted : BOOLEAN]]
Contents == {Absent, CutOff} \cup HoldingAny(Volumes \cup 0 .. FullVolume)

\* Mutant: a volume is taken as it comes.
AnyVolume(v) == v

Clamped(v) == IF v > FullVolume THEN FullVolume ELSE v

\* load
Loaded(f) ==
  IF f.kind = "level" THEN [f.level EXCEPT !.volume = Clamped(@)] ELSE Default

\* set_volume and set_mute, before save_volume_state.
SetLevel(l) ==
  /\ level' = l /\ previous' = level
  /\ UNCHANGED <<file, tmp, failed>>

\* Mutant: the file is written in place.
OpenFile ==
  /\ file' = CutOff
  /\ UNCHANGED <<level, tmp, previous, failed>>

\* fs::write: the temporary file is emptied, then written.
OpenTmp ==
  /\ tmp' = CutOff
  /\ UNCHANGED <<level, file, previous, failed>>

WriteTmp ==
  /\ tmp' = Holding(level)
  /\ UNCHANGED <<level, file, previous, failed>>

Rename ==
  /\ file' = tmp /\ tmp' = Absent
  /\ previous' = level /\ failed' = FALSE
  /\ UNCHANGED level

\* A step that fails is the save's last.
GiveUp ==
  /\ previous' = level /\ failed' = TRUE
  /\ UNCHANGED <<level, file, tmp>>

\* The process starts: new() loads the file.
LoadLevel ==
  /\ level' = Loaded(file) /\ previous' = Loaded(file) /\ failed' = FALSE
  /\ UNCHANGED <<file, tmp>>

StoreInit ==
  /\ file \in {Absent, CutOff} \cup HoldingAny(Volumes)
  /\ tmp \in {Absent, CutOff}
  /\ level = Loaded(file) /\ previous = level
  /\ failed = FALSE

StoreTypeOK ==
  /\ level \in Levels /\ previous \in Levels
  /\ file \in Contents /\ tmp \in Contents
  /\ failed \in BOOLEAN
=============================================================================
