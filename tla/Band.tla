-------------------------------- MODULE Band --------------------------------
(***************************************************************************)
(* Frequencies of a waveband, mw/src/service/tcradio_service.c.  A band is *)
(* configured by the application as [start, end, step]; a seek goes from   *)
(* one frequency of the band to the next and wraps around at its ends.     *)
(***************************************************************************)
EXTENDS Integers

(* checkValidBandFreqConfig for FM and AM: a whole number of steps.  The   *)
(* smallest start it accepts is greater than the largest step.             *)
IsBand(c) == /\ c.start \in Nat /\ c.end \in Nat /\ c.step \in 1 .. c.start
             /\ c.start < c.end
             /\ (c.end - c.start) % c.step = 0

(* checkValidFreqAccordingToConfig. *)
OnStep(c, f) == (f - c.start) % c.step = 0
Grid(c) == {f \in c.start .. c.end : OnStep(c, f)}

(* Wrong variants: a seek that turns around before the last frequency, and *)
(* a start that is moved into the band but not to one of its frequencies.  *)
NextShort(c, f, down) ==
  IF down THEN IF f <= c.start + c.step THEN c.end ELSE f - c.step
          ELSE IF f + c.step >= c.end THEN c.start ELSE f + c.step
AlignIntoRange(c, f, down) ==
  IF f < c.start THEN c.start ELSE IF f > c.end THEN c.end ELSE f

(* getFreqCounter: one step up or down, from one end to the other. *)
NextFreq(c, f, down) ==
  IF down THEN IF f <= c.start THEN c.end ELSE f - c.step
          ELSE IF f >= c.end THEN c.start ELSE f + c.step

(* The alignment in initSeek: the nearest end from outside the band, and   *)
(* between two frequencies the one the first step will come back over.     *)
Align(c, f, down) ==
  IF f < c.start THEN c.start
  ELSE IF f > c.end THEN c.end
  ELSE IF OnStep(c, f) THEN f
  ELSE IF down THEN f + (c.step - ((f - c.start) % c.step))
               ELSE f - ((f - c.start) % c.step)
=============================================================================
