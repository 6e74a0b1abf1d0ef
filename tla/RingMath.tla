------------------------------ MODULE RingMath ------------------------------
(***************************************************************************)
(* The arithmetic the bridge is built on: microseconds of the Sendspin     *)
(* timeline, frames of the DANTE ring, and the positions computed from     *)
(* both.  A frame lasts RateDen / RateNum microseconds; the code has       *)
(* 48000 / 1000000, and small instances take a ratio of small numbers.     *)
(*                                                                         *)
(* Positions are usize in the code and are subtracted with wrapping_sub    *)
(* into an isize, so a comparison sees the signed difference of the two;   *)
(* here positions are integers and the difference is the integer one.      *)
(***************************************************************************)
EXTENDS Integers

CONSTANTS RateNum, RateDen

\* Both terms of the sample rate are positive: the ratio is a rate.
ASSUME RateAssumption == RateNum \in Nat \ {0} /\ RateDen \in Nat \ {0}

\* Rust's integer division rounds toward zero; \div rounds down.
TruncDiv(a, b) == IF a >= 0 THEN a \div b ELSE -((-a) \div b)

Magnitude(x) == IF x >= 0 THEN x ELSE -x

Larger(x, y) == IF x >= y THEN x ELSE y

Smaller(x, y) == IF x <= y THEN x ELSE y

MicrosToSamples(us) == TruncDiv(us * RateNum, RateDen)

SamplesToMicros(frames) == TruncDiv(frames * RateDen, RateNum)

-----------------------------------------------------------------------------
\* The ring position at which a chunk stamped ts starts, under an anchor that
\* says the server's time us belongs to the ring position pos.
ChunkTarget(anchor, ts) == anchor.pos + MicrosToSamples(ts - anchor.us)

\* Mutant: the prebuffer between anchor and read head is left out.
ExpectedAtAnchor(anchorPos, prebuffer, elapsed) ==
  anchorPos + MicrosToSamples(elapsed)

\* Where the read head should be, elapsed microseconds after the anchor.
ExpectedReadPos(anchorPos, prebuffer, elapsed) ==
  anchorPos - prebuffer + MicrosToSamples(elapsed)

\* The middle one of three drift samples, sorted.
MedianDriftSample(s) ==
  Larger(Smaller(s[1], s[2]),
         Smaller(Larger(s[1], s[2]), s[3]))

\* The gap between two positions, whichever of them is ahead.
Distance(p, q) == Magnitude(p - q)

-----------------------------------------------------------------------------
\* Sizes derived from the configuration, in frames (the callers convert the
\* milliseconds of the command line).
PowersOfTwo == {2 ^ k : k \in 0 .. 24}

NextPowerOfTwo(n) ==
  CHOOSE p \in PowersOfTwo : p >= n /\ \A q \in PowersOfTwo : q >= n => p <= q

RingBufferSize(prebuffer, credit, floor) ==
  Larger(NextPowerOfTwo((prebuffer + credit) * 2), floor)

MaxPendingFramesFor(credit, ring) == 2 * credit + ring

=============================================================================
