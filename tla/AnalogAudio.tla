---------------------------- MODULE AnalogAudio -----------------------------
(***************************************************************************)
(* The analog audio of the HD radio framework on its way into the blending *)
(* (hd/src/framework/tchdr_bbinput.c, tchdr_framework.c): the audio input  *)
(* thread writes the samples of the tuner into analogAudioBuffer, the base *)
(* band input thread posts the blending thread whenever a block of IQ      *)
(* samples is there, and the blending thread takes a frame.  The buffer is *)
(* emptied by the base band input thread (opening, recovery from a driver  *)
(* overrun) and by the application's thread (closing), at any moment.      *)
(*                                                                         *)
(* As in AudioOutput a check and its critical section are two steps, but   *)
(* here an emptied buffer holds no silence for a reader whose check is     *)
(* already done.                                                           *)
(***************************************************************************)
EXTENDS CircBuff

CONSTANTS ANALOG_FRAME, \* HDR_AUDIO_FRAME_SIZE
          Samples,      \* what the driver can give
          Chunks,       \* how many samples one driver read can give
          POSTS         \* bound on the value of the semaphore

ASSUME AnalogAssumption == /\ ANALOG_FRAME \in 1 .. SIZE
                           /\ Samples \subseteq Elements
                           /\ Chunks \subseteq 1 .. SIZE
                           /\ POSTS \in Nat

VARIABLES
  analogBuffer,   \* analogAudioBuffer
  opened,         \* tchdrsvc_getOpenStatus
  inputStart,     \* stBbInputState.fAudioInputThreadStart
  xrun,           \* a recovery is due: the driver reported an overrun
  bb,             \* what the base band input thread is at
  closing,        \* the application is closing
  input,          \* where the audio input thread is
  chunk,          \* the samples it has got
  blendSem,       \* the value of audioBlendingThreadSem
  blender,        \* where the blending thread is
  raced           \* a reset came between a check of the blending thread and its read

inputControl == <<opened, xrun, bb, closing>>
reading      == <<input, chunk>>
blendState   == <<blendSem, blender>>
analogVars   == <<analogBuffer, raced, inputStart, inputControl, reading, blendState>>

AnalogTypeOK ==
  /\ analogBuffer \in [wp : Indices, rp : Indices, elemCount : Words, data : [Cells -> Elements]]
  /\ opened \in BOOLEAN /\ inputStart \in BOOLEAN /\ raced \in BOOLEAN
  /\ xrun \in BOOLEAN /\ closing \in BOOLEAN
  /\ bb \in {"idle", "open", "start", "answer"}
  /\ input \in {"idle", "check", "put"}
  /\ chunk \in Chunks \cup {0}
  /\ blendSem \in 0 .. POSTS
  /\ blender \in {"wait", "check", "take"}

AnalogInit ==
  /\ analogBuffer = Fresh([c \in Cells |-> Zero])
  /\ opened = FALSE /\ inputStart = FALSE /\ raced = FALSE
  /\ xrun = FALSE /\ closing = FALSE /\ bb = "idle" /\ input = "idle" /\ chunk = 0
  /\ blendSem = 0 /\ blender = "wait"

(* A wrong variant: a reader that takes what is there. *)
TakesAnything == TRUE

FrameThere == analogBuffer.elemCount >= ANALOG_FRAME
ChunkFits  == AvailSpace(analogBuffer) >= chunk

(* CB_reset of analogAudioBuffer. *)
Reset == analogBuffer' = Emptied(analogBuffer) /\ raced' = (raced \/ blender = "take")

-----------------------------------------------------------------------------
(* The base band input thread opens (tchdrbbinput_openIQandAudio, answered *)
(* by the service thread) and recovers (resetPrimaryInputDrvAndBuf, which  *)
(* closes and opens again); the application closes.                        *)

Open == /\ bb = "idle" /\ ~opened /\ ~closing
        /\ bb' = "open"
        /\ UNCHANGED <<analogBuffer, raced, inputStart, opened, xrun, closing, reading, blendState>>

(* A recovery is delayed, so the framework may be closed when it begins. *)
Recover == /\ bb = "idle" /\ xrun
           /\ xrun' = FALSE /\ inputStart' = FALSE
           /\ Reset
           /\ bb' = "open"
           /\ UNCHANGED <<opened, closing, reading, blendState>>

AudinputOpen == /\ bb = "open"
                /\ Reset
                /\ bb' = "start"
                /\ UNCHANGED <<inputStart, opened, xrun, closing, reading, blendState>>

(* tchdraudinput_start, and after an opening the answer is due. *)
AudinputStart == /\ bb = "start"
                 /\ inputStart' = TRUE
                 /\ bb' = IF opened THEN "idle" ELSE "answer"
                 /\ UNCHANGED <<analogBuffer, raced, opened, xrun, closing, reading, blendState>>

(* Answered for an opening only: a late recovery leaves it closed. *)
Answer == /\ bb = "answer"
          /\ opened' \in BOOLEAN /\ bb' = "idle"
          /\ UNCHANGED <<analogBuffer, raced, inputStart, xrun, closing, reading, blendState>>

BeginCloseInput == /\ opened
                   /\ opened' = FALSE /\ closing' = TRUE
                   /\ UNCHANGED <<analogBuffer, raced, inputStart, xrun, bb, reading, blendState>>

AudinputClose == /\ closing
                 /\ inputStart' = FALSE /\ closing' = FALSE
                 /\ Reset
                 /\ UNCHANGED <<opened, xrun, bb, reading, blendState>>

-----------------------------------------------------------------------------
(* tchdr_audioInputThread. *)

ReadInput == /\ input = "idle" /\ opened /\ inputStart
             /\ \/ /\ chunk' \in Chunks /\ input' = "check" /\ xrun' = xrun
                \/ /\ xrun' = TRUE /\ UNCHANGED reading
             /\ UNCHANGED <<analogBuffer, raced, inputStart, opened, bb, closing, blendState>>

CheckInputSpace == /\ input = "check"
                   /\ input' = IF ChunkFits THEN "put" ELSE "idle"
                   /\ UNCHANGED <<analogBuffer, raced, inputStart, inputControl, chunk, blendState>>

PutSamples == /\ input = "put"
              /\ \E v \in Samples : analogBuffer' = Put(analogBuffer, Filled(v, chunk))
              /\ input' = "idle"
              /\ UNCHANGED <<raced, inputStart, inputControl, chunk, blendState>>

-----------------------------------------------------------------------------
(* The base band input thread posts whether or not there is audio for it.  *)

AudinputReady == /\ opened /\ bb = "idle" /\ blendSem < POSTS
                 /\ blendSem' = blendSem + 1
                 /\ UNCHANGED <<analogBuffer, raced, inputStart, inputControl, reading, blender>>

(* tchdr_audioBlendingThread. *)

WaitBlend == /\ blender = "wait" /\ blendSem > 0
             /\ blendSem' = blendSem - 1 /\ blender' = "check"
             /\ UNCHANGED <<analogBuffer, raced, inputStart, inputControl, reading>>

CheckBlendData == /\ blender = "check"
                  /\ blender' = IF FrameThere THEN "take" ELSE "wait"
                  /\ UNCHANGED <<analogBuffer, raced, inputStart, inputControl, reading, blendSem>>

TakeAnalogFrame == /\ blender = "take"
                   /\ analogBuffer' = Taken(analogBuffer, ANALOG_FRAME)
                   /\ blender' = "wait"
                   /\ UNCHANGED <<raced, inputStart, inputControl, reading, blendSem>>

AnalogNext ==
  \/ Open \/ Recover \/ AudinputOpen \/ AudinputStart \/ Answer \/ BeginCloseInput \/ AudinputClose
  \/ ReadInput \/ CheckInputSpace \/ PutSamples
  \/ AudinputReady \/ WaitBlend \/ CheckBlendData \/ TakeAnalogFrame

AnalogSpec == AnalogInit /\ [][AnalogNext]_analogVars

-----------------------------------------------------------------------------

InRange == analogBuffer.elemCount \in 0 .. SIZE

(* What the mutex of the buffer is for: however its users are interleaved, *)
(* the count says how much is in the buffer.                               *)
CountInRange == InRange

(* The count only ever goes wrong when a reset comes between the check and *)
(* the read of the blending thread: no write, no overflow and no other     *)
(* order of the five threads can do it.                                    *)
OnlyResetsRace == raced \/ (InRange /\ Consistent(analogBuffer))
=============================================================================
