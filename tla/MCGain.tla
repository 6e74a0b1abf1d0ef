------------------------------- MODULE MCGain -------------------------------
(***************************************************************************)
(* Instances of the gain ramp for TLC: silence, a low volume and unity.    *)
(***************************************************************************)
EXTENDS GainRamp

LowGain == Unity \div 3

ThreeStepTaper == [v \in Volumes |-> CASE v = 0 -> 0 [] v = 100 -> Unity [] OTHER -> LowGain]
=============================================================================
