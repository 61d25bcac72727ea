----------------------------- MODULE HdVectors -----------------------------
(***************************************************************************)
(* The samples of the HD radio framework on their way from the base band   *)
(* input thread to the core (hd/src/framework/tchdr_bbinput.c,             *)
(* tchdr_framework.c).  The base band input thread writes the samples of a *)
(* block into iqSampleBuffer; after LOOP blocks it posts the primary       *)
(* thread if a vector is there; that thread takes a vector and gives it to *)
(* the core.  The buffer is emptied by the base band input thread          *)
(* (opening, recovery, overrun) and by the application's close, and a      *)
(* change of band changes the size of a vector.                            *)
(*                                                                         *)
(* The buffer is modelled by its count, which wraps when it is emptied     *)
(* between the check and the copying of a read (CircBuff has the cells).   *)
(***************************************************************************)
EXTENDS Integers

CONSTANTS LOOP_V,     \* blocks per pass of the base band input thread (8)
          SAMPLES,    \* size of iqSampleBuffer
          WORD_V,     \* 2^32: its count is an unsigned word
          POSTS_V,    \* bound on the value of bbSamplesReadySem
          OPENS_V,    \* bound on the openings
          EVENTS_V    \* bound on changes of band and recoveries together

VBands == {"FM", "AM"}

(* What a block gives, and a vector: the ratio is 16 to 1 in the code. *)
Units(b)  == IF b = "AM" THEN 1 ELSE 2
Vector(b) == LOOP_V * Units(b)

ASSUME VectorsAssumption == /\ LOOP_V \in Nat \ {0} /\ SAMPLES \in Nat /\ WORD_V \in Nat
                            /\ SAMPLES >= Vector("FM") /\ WORD_V > SAMPLES

VARIABLES
  samples,     \* elemCount of iqSampleBuffer
  posts,       \* the value of bbSamplesReadySem
  size,        \* the band the block and vector sizes are set for, or "none"
  tunedBand,       \* stTcHdrTuneInfo.mainInstance.band
  band,        \* the band of the core; idle counts as FM
  fwOpen,      \* tchdrsvc_getOpenStatus
  fwClosing,   \* what tchdr_close does next, or "no"
  fwAsked,     \* an opening is on its way to the base band input thread
  fwOpens,     \* openings so far
  vStart,      \* fBbInputThreadStart
  retune,      \* a change of band is on its way
  vEvents,     \* changes of band and recoveries so far
  pass,        \* where the base band input thread is
  done,        \* accumulatedSampleCount, in blocks
  demod,       \* where the primary thread is
  want,        \* numReadSamples
  whole,       \* what it has for the core is a vector, of samples not given before
  orphans,     \* posts whose samples were thrown away, or are too few for a vector now
  wrapped      \* the buffer was emptied between check and copying of a read, and not since

fwSession == <<fwOpen, fwClosing, fwAsked, fwOpens>>
vTuning   == <<tunedBand, retune, vEvents>>
vCore     == <<demod, want, whole>>
vBuffer   == <<samples, orphans, wrapped>>
vectorsVars == <<vBuffer, posts, size, band, fwSession, vTuning, vStart, pass, done, vCore>>

VectorsInit ==
  /\ samples = 0 /\ posts = 0 /\ orphans = 0 /\ wrapped = FALSE
  /\ size = "none" /\ tunedBand \in VBands /\ band = "FM"
  /\ fwOpen = FALSE /\ fwClosing = "no" /\ fwAsked = FALSE /\ fwOpens = 0
  /\ vStart = FALSE /\ retune = FALSE /\ vEvents = 0
  /\ pass = "events" /\ done = 0
  /\ demod = "wait" /\ want = 0 /\ whole = FALSE

-----------------------------------------------------------------------------
Fewer(n) == IF n = 0 THEN 0 ELSE n - 1
Least(m, n) == IF m < n THEN m ELSE n

(* The primary thread has a post and has not got its samples yet. *)
Reading == demod \in {"look", "check", "take"} \/ (demod = "feed" /\ ~whole)
UnderWay(pending) == posts + (IF pending THEN 1 ELSE 0)

EmptySamples == samples' = 0 /\ orphans' = UnderWay(Reading) /\ wrapped' = (demod = "take" /\ want > 0)

(* HDR_set_band; the posts under way are for vectors of the band before. *)
SetBand(b) ==
  /\ band' = b
  /\ orphans' = IF b = "FM" /\ band = "AM"
                  THEN Least(orphans + UnderWay(demod = "look"), UnderWay(Reading)) ELSE orphans

-----------------------------------------------------------------------------
(* The application, which waits for its opening.                           *)

AppOpen == /\ ~fwOpen /\ fwClosing = "no" /\ ~fwAsked /\ fwOpens < OPENS_V
           /\ fwAsked' = TRUE /\ fwOpens' = fwOpens + 1
           /\ UNCHANGED <<vBuffer, posts, size, band, fwOpen, fwClosing, vTuning, vStart, pass, done, vCore>>

AppTune == /\ fwOpen /\ ~retune /\ vEvents < EVENTS_V
           /\ retune' = TRUE /\ vEvents' = vEvents + 1
           /\ UNCHANGED <<vBuffer, posts, size, band, fwSession, tunedBand, vStart, pass, done, vCore>>

AppClose == /\ fwOpen
            /\ fwOpen' = FALSE /\ fwClosing' = "fwk"
            /\ UNCHANGED <<vBuffer, posts, size, band, fwAsked, fwOpens, vTuning, vStart, pass, done, vCore>>

(* tchdrfwk_close: the core is idle. *)
CloseFwk == /\ fwClosing = "fwk"
            /\ SetBand("FM") /\ fwClosing' = "bb"
            /\ UNCHANGED <<samples, wrapped, posts, size, fwOpen, fwAsked, fwOpens, vTuning, vStart, pass, done, vCore>>

CloseBb == /\ fwClosing = "bb"
           /\ vStart' = FALSE /\ size' = "none" /\ fwClosing' = "no"
           /\ EmptySamples
           /\ UNCHANGED <<posts, band, fwOpen, fwAsked, fwOpens, vTuning, pass, done, vCore>>

Closing == CloseFwk \/ CloseBb

(* The IQ input thread, which has put a block.                             *)
BlockCame == /\ ~vStart /\ fwOpen
             /\ vStart' = TRUE
             /\ UNCHANGED <<vBuffer, posts, size, band, fwSession, vTuning, pass, done, vCore>>

-----------------------------------------------------------------------------
(* The base band input thread: a message or a recovery, ...                *)

BbvOpen == /\ pass = "events" /\ fwAsked
           /\ size' = tunedBand /\ EmptySamples
           /\ pass' = "fwk"
           /\ UNCHANGED <<posts, band, fwSession, vTuning, vStart, done, vCore>>

BbvFwkOpen == /\ pass = "fwk"
              /\ SetBand(tunedBand) /\ pass' = "answer"
              /\ UNCHANGED <<samples, wrapped, posts, size, fwSession, vTuning, vStart, done, vCore>>

(* The answer passes the service thread, which marks the framework open. *)
BbvAnswer == /\ pass = "answer" /\ fwClosing = "no"
             /\ fwOpen' = TRUE /\ fwAsked' = FALSE
             /\ pass' = "loop"
             /\ UNCHANGED <<vBuffer, posts, size, band, fwClosing, fwOpens, vTuning, vStart, done, vCore>>

(* The samples of the old band stay. *)
BbvTune == /\ pass = "events" /\ retune
           /\ retune' = FALSE
           /\ \E b \in VBands \ {tunedBand} : tunedBand' = b /\ size' = b /\ SetBand(b)
           /\ pass' = "loop"
           /\ UNCHANGED <<samples, wrapped, posts, fwSession, vEvents, vStart, done, vCore>>

(* After an overrun of the driver. *)
BbvRecover == /\ pass = "events" /\ ~fwAsked /\ ~retune /\ vEvents < EVENTS_V
              /\ vEvents' = vEvents + 1 /\ vStart' = FALSE
              /\ EmptySamples
              /\ pass' = "loop"
              /\ UNCHANGED <<posts, size, band, fwSession, tunedBand, retune, done, vCore>>

BbvNothing == /\ pass = "events" /\ ~fwAsked /\ ~retune
              /\ pass' = "loop"
              /\ UNCHANGED <<vBuffer, posts, size, band, fwSession, vTuning, vStart, done, vCore>>

-----------------------------------------------------------------------------
(* ... then LOOP_V blocks, which have come (HdPairs).                      *)

BbvKeeps == <<posts, size, band, fwSession, vTuning, vStart, vCore>>

BbvBlock == /\ pass = "loop" /\ size # "none" /\ done < LOOP_V
            /\ fwOpen /\ vStart
            /\ pass' = "read"
            /\ UNCHANGED <<BbvKeeps, vBuffer, done>>

(* A read may find too little; a size that a close has cleared makes it a  *)
(* read of nothing, after which the block before is written once more.     *)
BbvRead == /\ pass = "read"
           /\ pass' \in IF size = "none" THEN {"again"} ELSE IF vStart THEN {"write"} ELSE {"write", "loop"}
           /\ UNCHANGED <<BbvKeeps, vBuffer, done>>

BlockUnits == Units(IF size = "none" THEN tunedBand ELSE size)

BbvWrite == /\ pass \in {"write", "again"}
            /\ IF (SAMPLES - samples) % WORD_V >= BlockUnits
                 THEN /\ samples' = (samples + BlockUnits) % WORD_V
                      /\ done' = IF pass = "write" THEN done + 1 ELSE done
                      /\ pass' = "loop"
                 ELSE pass' = "overrun" /\ UNCHANGED <<samples, done>>
            /\ UNCHANGED <<BbvKeeps, orphans, wrapped>>

BbvOverrun == /\ pass = "overrun"
              /\ EmptySamples
              /\ pass' = "loop"
              /\ UNCHANGED <<BbvKeeps, done>>

(* The post is for what is there; and, wrongly, for every pass. *)
EveryPass   == size # "none"
VectorThere == size # "none" /\ samples >= Vector(size)

BbvPost == /\ pass = "loop" /\ (size = "none" \/ done >= LOOP_V)
           /\ VectorThere => posts < POSTS_V
           /\ posts' = IF VectorThere THEN posts + 1 ELSE posts
           /\ orphans' = IF VectorThere /\ size = "AM" /\ band = "FM" THEN orphans + 1 ELSE orphans
           /\ pass' = "events" /\ done' = 0
           /\ UNCHANGED <<samples, wrapped, size, band, fwSession, vTuning, vStart, vCore>>

BbvThread == \/ BbvOpen \/ BbvFwkOpen \/ BbvAnswer \/ BbvTune \/ BbvRecover \/ BbvNothing
             \/ BbvBlock \/ BbvRead \/ BbvWrite \/ BbvOverrun \/ BbvPost

-----------------------------------------------------------------------------
(* The primary thread.                                                     *)

DemodRest == <<size, band, fwSession, vTuning, vStart, pass, done>>

DemodWake == /\ demod = "wait" /\ posts > 0
             /\ posts' = posts - 1 /\ demod' = "look"
             /\ UNCHANGED <<DemodRest, vBuffer, want, whole>>

(* The size is chosen by what is there. *)
ToRead == IF samples >= Vector("FM") THEN Vector("FM") ELSE Vector("AM")

DemodLook == /\ demod = "look"
             /\ IF samples = 0
                  THEN demod' = "wait" /\ orphans' = Least(Fewer(orphans), posts) /\ UNCHANGED <<want, whole>>
                  ELSE demod' = "check" /\ want' = ToRead /\ whole' = (ToRead >= Vector(band))
                       /\ UNCHANGED orphans
             /\ UNCHANGED <<DemodRest, samples, wrapped, posts>>

DemodCheck == /\ demod = "check"
              /\ IF samples < want
                   THEN demod' = "feed" /\ want' = 0 /\ whole' = FALSE
                   ELSE demod' = "take" /\ UNCHANGED <<want, whole>>
              /\ UNCHANGED <<DemodRest, vBuffer, posts>>

DemodTake == /\ demod = "take"
             /\ samples' = (samples - want) % WORD_V
             /\ whole' = (whole /\ samples >= want)
             /\ demod' = "feed"
             /\ UNCHANGED <<DemodRest, orphans, wrapped, posts, want>>

(* HDR_baseband_input.  What was read too little or too much was taken     *)
(* from the samples of a later post.                                       *)
Spent == CASE want = 0 -> Fewer(orphans)
           [] want > Vector(band) -> orphans + 1
           [] OTHER -> orphans

DemodFeed == /\ demod = "feed"
             /\ orphans' = Least(Spent, posts)
             /\ demod' = "wait" /\ want' = 0 /\ whole' = FALSE
             /\ UNCHANGED <<DemodRest, samples, wrapped, posts>>

PrimaryThread == DemodWake \/ DemodLook \/ DemodCheck \/ DemodTake \/ DemodFeed

-----------------------------------------------------------------------------
VectorsNext == AppOpen \/ AppTune \/ AppClose \/ Closing \/ BlockCame \/ BbvThread \/ PrimaryThread

VectorsSpec == VectorsInit /\ [][VectorsNext]_vectorsVars

-----------------------------------------------------------------------------
(* What the core gets is a whole vector of samples it has not had before,  *)
(* however late the primary thread is: unless samples that a post was for  *)
(* were thrown away, a change of band made them too few, or the count has  *)
(* wrapped.  Each such post costs one vector at most.  (That a vector is   *)
(* whole again at some time takes more than fairness: a primary thread put *)
(* out of step by such a post, and always late by the same part of a       *)
(* vector, goes on taking parts.)                                          *)
VectorsWhole == demod = "feed" /\ ~whole => orphans > 0 \/ wrapped
=============================================================================
