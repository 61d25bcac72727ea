----------------------------- MODULE HdBlending -----------------------------
(***************************************************************************)
(* What the blending thread of the HD radio framework makes of a frame     *)
(* (hd/src/framework/tchdr_framework.c), with the callbacks of the HD core *)
(* that reach into its state (tchdr_hdlibcb.c) and the alert of the        *)
(* service thread.  How the frame comes there is AnalogAudio, where it     *)
(* goes AudioOutput.                                                       *)
(*                                                                         *)
(* A frame is taken in steps, for the core's thread and the service thread *)
(* write alignmentSuccess and playAlertTone in between: its flag is looked *)
(* up, the automatic alignment (AAA) is asked, its offset applied and      *)
(* noted, the control read and the alert tone fetched and noted.           *)
(***************************************************************************)
EXTENDS Naturals

CONSTANTS TONE,      \* frames of an alert tone
          AudioModes \* the modes the application asks for

ASSUME BlendingAssumption == /\ TONE \in Nat \ {0}
                             /\ AudioModes \subseteq {"blend", "split", "analog", "digital"}

VARIABLES
  audioMode,            \* stHdrFrameworkData.audioMode
  asked,                \* the mode of a message in the thread's queue, or "none"
  aaaState,             \* "none", "apply" or "play"
  alignmentSuccess, playAlertTone, ballgameMode,
  prevBlendCtrlMode,    \* a static of tchdrblending_audioOutputHandler
  stage, blendFlag, hybridProgram, alertFinished,  \* of the frame in hand
  acquiring,            \* the core is acquiring a station
  hybrid,               \* its program has analog audio, too
  coreFlag,             \* its flag for the next frame
  lookedAt,             \* a frame was looked at since the last retuning
  txMode,               \* the station's raw blend control: 1 (ball game) or 0, as which 2 counts
  aligner,              \* what the AAA has: "nothing", "offset" or "aligned"
  tonePlayed,           \* frames of the tone that the core has given
  blendControlOld,      \* another: the control of the last frame
  applied,              \* the delay is adjusted for the audio as it is
  carried,              \* the last frame had the flag, or a program without analog
  overtaken,            \* a realignment came before the success of the last was noted
  alertDue              \* an alert was told and its tone has not begun

modeVars   == <<audioMode, asked>>
alignVars  == <<aaaState, alignmentSuccess, applied, overtaken>>
frameVars  == <<stage, blendFlag, hybridProgram, alertFinished>>
alertVars  == <<playAlertTone, alertDue>>
ballVars   == <<ballgameMode, prevBlendCtrlMode>>
endVars    == <<carried, blendControlOld>>
coreVars   == <<acquiring, hybrid, coreFlag, lookedAt, txMode>>
blendVars  == <<modeVars, alignVars, frameVars, alertVars, ballVars, coreVars, aligner, tonePlayed, endVars>>

BlendInit ==
  /\ audioMode = "blend" /\ asked = "none"
  /\ aaaState = "none" /\ alignmentSuccess = FALSE /\ playAlertTone = FALSE /\ ballgameMode = FALSE
  /\ prevBlendCtrlMode = 0
  /\ stage = "message" /\ blendFlag = FALSE /\ hybridProgram = TRUE /\ alertFinished = FALSE
  /\ acquiring = TRUE /\ hybrid = TRUE /\ coreFlag = FALSE /\ lookedAt = FALSE /\ txMode = 0
  /\ aligner = "nothing" /\ tonePlayed = 0
  /\ applied = FALSE /\ carried = FALSE /\ blendControlOld = "crossfade" /\ overtaken = FALSE
  /\ alertDue = FALSE

-----------------------------------------------------------------------------
(* The thread: a message first, one for each frame, then the frame.        *)
(* HDR_hybrid_program fails while the core acquires, and TRUE stands.  A   *)
(* program without analog resets the AAA and leaves its flag as it is.     *)
TakeNextFrame ==
  /\ stage = "message"
  /\ audioMode' = IF asked = "none" THEN audioMode ELSE asked
  /\ asked' = "none"
  /\ blendFlag' = coreFlag
  /\ hybridProgram' = (acquiring \/ hybrid)
  /\ lookedAt' = TRUE
  /\ IF hybridProgram'
     THEN stage' = "align" /\ UNCHANGED <<aaaState, aligner>>
     ELSE stage' = "out" /\ aaaState' = "play" /\ aligner' = "nothing"
  /\ UNCHANGED <<alignmentSuccess, applied, overtaken, alertFinished, alertVars, ballVars,
                 acquiring, hybrid, coreFlag, txMode, tonePlayed, endVars>>

(* HDR_auto_align_exec: it finds an offset, waits for the flag with the    *)
(* streams aligned, and plays digital; it may start looking anew.          *)
Answers == CASE aligner = "nothing" -> {"search", "apply"}
             [] OTHER -> {"search", "apply", "wait"} \cup (IF blendFlag THEN {"play"} ELSE {})

After(answer) == CASE answer = "search" -> "nothing" [] answer = "apply" -> "offset" [] OTHER -> "aligned"

(* Wrong variants: a success that is never noted as a failure, and a flag  *)
(* passed through for ever.                                                *)
SucceedsAlways(ok) == TRUE
ForgetsNever(state) == state

Succeeds(ok) == ok
AfterFalseFlag(state) == "none"

(* What the answer and the state kept from earlier frames make of the flag. *)
Decide(answer, state) ==
  IF state = "play"
  THEN /\ aaaState' = IF blendFlag THEN state ELSE AfterFalseFlag(state)
       /\ UNCHANGED blendFlag
  ELSE /\ blendFlag' = (answer = "play" /\ alignmentSuccess)
       /\ aaaState' = IF blendFlag' THEN "play" ELSE state

Align == /\ stage = "align"
         /\ \E answer \in Answers :
              /\ aligner' = After(answer)
              /\ IF answer = "apply"
                 THEN /\ stage' = "adjust" /\ aaaState' = "apply" /\ overtaken' = FALSE
                      /\ UNCHANGED blendFlag
                 ELSE /\ stage' = "out" /\ UNCHANGED overtaken
                      /\ Decide(answer, aaaState)
         /\ UNCHANGED <<modeVars, alignmentSuccess, applied, hybridProgram, alertFinished, alertVars,
                        ballVars, coreVars, tonePlayed, endVars>>

(* HDR_blend_adjust_audio_delay: too large an adjustment is refused; what  *)
(* the AAA found before it was reset fits no more.                         *)
Adjust == /\ stage = "adjust"
          /\ \E ok \in BOOLEAN :
               /\ stage' = IF ok THEN "adjusted" ELSE "refused"
               /\ applied' = IF ok THEN aligner = "offset" ELSE applied
          /\ UNCHANGED <<modeVars, aaaState, alignmentSuccess, overtaken, blendFlag, hybridProgram,
                         alertFinished, alertVars, ballVars, coreVars, aligner, tonePlayed, endVars>>

NoteSuccess == /\ stage \in {"adjusted", "refused"}
               /\ alignmentSuccess' = Succeeds(stage = "adjusted")
               /\ blendFlag' = FALSE
               /\ stage' = "out"
               /\ UNCHANGED <<modeVars, aaaState, applied, overtaken, hybridProgram, alertFinished,
                              alertVars,
                              ballVars, coreVars, aligner, tonePlayed, endVars>>

-----------------------------------------------------------------------------
(* tchdrblending_audioOutputHandler *)

(* A wrong variant: a tone that is over with its first frame. *)
NeverOn(finished) == FALSE

BallGameNews(current) == current # prevBlendCtrlMode
GoesOn(finished) == ~finished

(* HDR_get_blend_control: it fails while the core acquires. *)
Control == IF ~acquiring /\ txMode = 1 THEN "analog" ELSE "crossfade"
RawControl == IF acquiring THEN 2 ELSE txMode

(* The end of a frame, which is put out crossfaded by its flag or forced. *)
EndFrame(control) == /\ blendControlOld' = control
                     /\ carried' = (blendFlag \/ ~hybridProgram)
                     /\ stage' = "message" /\ blendFlag' = FALSE /\ hybridProgram' = TRUE
                     /\ alertFinished' = FALSE

KeepBallGame ==
  /\ IF BallGameNews(RawControl)
     THEN ballgameMode' = (RawControl = 1)
     ELSE UNCHANGED ballgameMode
  /\ prevBlendCtrlMode' = RawControl

Blend == /\ stage = "out" /\ audioMode = "blend" /\ ~playAlertTone
         /\ EndFrame(Control)
         /\ KeepBallGame
         /\ UNCHANGED <<modeVars, alignVars, alertVars, coreVars,
                        aligner, tonePlayed>>

(* HDR_alert_get_tone_audio gives a frame of the tone, and what it says is *)
(* noted over what the service thread may have set meanwhile.              *)
FetchTone == /\ stage = "out" /\ audioMode = "blend" /\ playAlertTone
             /\ alertFinished' = (tonePlayed + 1 = TONE)
             /\ tonePlayed' = (tonePlayed + 1) % TONE
             /\ alertDue' = FALSE /\ stage' = "tone"
             /\ UNCHANGED <<modeVars, alignVars, blendFlag, hybridProgram, playAlertTone, ballVars,
                            coreVars,
                            aligner, endVars>>

PlayTone == /\ stage = "tone"
            /\ playAlertTone' = GoesOn(alertFinished)
            /\ alertDue' = (alertDue /\ ~alertFinished)
            /\ EndFrame("digital")
            /\ KeepBallGame
            /\ UNCHANGED <<modeVars, alignVars, coreVars, aligner, tonePlayed>>

(* The other modes leave the control at its defaults. *)
Test == /\ stage = "out" /\ audioMode # "blend"
        /\ EndFrame("crossfade")
        /\ prevBlendCtrlMode' = 2
        /\ UNCHANGED <<modeVars, alignVars, alertVars, ballgameMode,
                       coreVars, aligner, tonePlayed>>

-----------------------------------------------------------------------------
(* The other threads. *)

(* tchdr_setAudioMode, passed on by the service thread; the mode there is  *)
(* changes nothing.                                                        *)
SetAudioMode == /\ asked = "none" /\ asked' \in AudioModes \ {audioMode}
                /\ UNCHANGED <<audioMode, alignVars, frameVars, alertVars, ballVars, coreVars, aligner,
                               tonePlayed, endVars>>

(* tchdrsvc_doEAProcess *)
Alert == /\ playAlertTone' = TRUE
         /\ alertDue' = TRUE
         /\ UNCHANGED <<modeVars, alignVars, frameVars, ballVars, coreVars, aligner, tonePlayed,
                        endVars>>

(* HDR_reacquire, and HDLIB_cb_reacq_complete in the core's thread, which  *)
(* resets the AAA and what it led to.                                      *)
Retune == /\ acquiring' = TRUE /\ coreFlag' = FALSE /\ lookedAt' = FALSE
          /\ UNCHANGED <<modeVars, alignVars, frameVars, alertVars, ballVars, hybrid, txMode,
                         aligner, tonePlayed, endVars>>

ReacqComplete == /\ acquiring
                 /\ acquiring' = FALSE /\ hybrid' \in BOOLEAN
                 /\ aligner' = "nothing" /\ alignmentSuccess' = FALSE /\ applied' = FALSE
                 /\ UNCHANGED <<modeVars, aaaState, overtaken, frameVars, alertVars, ballVars,
                                coreFlag, lookedAt, txMode, tonePlayed, endVars>>

(* HDLIB_cb_audio_align: the core is about to align, its flag is down. *)
AudioAlign == /\ ~acquiring /\ hybrid
              /\ coreFlag' = FALSE /\ lookedAt' = FALSE
              /\ alignmentSuccess' = FALSE /\ applied' = FALSE
              /\ overtaken' = (overtaken \/ stage \in {"adjust", "adjusted"})
              /\ UNCHANGED <<modeVars, aaaState, frameVars, alertVars, ballVars, acquiring, hybrid,
                             txMode, aligner, tonePlayed, endVars>>

(* The station.  The core needs more than a frame to raise its flag, and   *)
(* changes the program with the flag down.                                 *)
OnAir == /\ ~acquiring
         /\ \/ coreFlag' = (~coreFlag /\ lookedAt) /\ UNCHANGED <<hybrid, txMode>>
            \/ txMode' = 1 - txMode /\ UNCHANGED <<hybrid, coreFlag>>
            \/ hybrid' = ~hybrid /\ coreFlag' = FALSE /\ UNCHANGED txMode
         /\ UNCHANGED <<modeVars, alignVars, frameVars, alertVars, ballVars, acquiring, lookedAt,
                        aligner, tonePlayed, endVars>>

BlendNext == \/ TakeNextFrame \/ Align \/ Adjust \/ NoteSuccess
             \/ Blend \/ FetchTone \/ PlayTone \/ Test
             \/ SetAudioMode \/ Alert \/ Retune \/ ReacqComplete \/ AudioAlign \/ OnAir

BlendSpec == BlendInit /\ [][BlendNext]_blendVars

-----------------------------------------------------------------------------
(* The flag of a hybrid program goes up only when the streams are aligned  *)
(* as they are now; without that it may only go on from the frame before   *)
(* (digital audio that was playing is not interrupted by the alignment).   *)
(* Left out is a realignment that the success of the last one overtakes.   *)
AlignedOrCarried ==
  [][stage = "align" /\ stage' = "out" /\ blendFlag' => applied \/ carried \/ overtaken]_blendVars

(* An alert that is told sounds, if the mode lets it: its tone is not      *)
(* forgotten, whatever tone was playing when it came -- unless it came     *)
(* within the last frame of that one.                                      *)
AlertKept == alertDue => playAlertTone

(* "During Re-Acquisition this function will return an error condition and *)
(* blendControl should hold on to its last value."                         *)
HoldsControl ==
  [][stage = "out" /\ stage' = "message" /\ audioMode = "blend" /\ acquiring =>
       blendControlOld' = blendControlOld]_blendVars
=============================================================================
