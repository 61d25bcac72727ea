----------------------------- MODULE RadioSound -----------------------------
(***************************************************************************)
(* The radio's sound: mw/src/sound/tcradio_sound.c with the two ALSA       *)
(* devices of hal/src/audio/dev_audio.c and the I2S capture device of      *)
(* peri/src/i2s/dev_blend_audio_i2s.c.  The application opens, closes and  *)
(* mutes the sound, the service closes it, and the sound thread plays: it  *)
(* reads from the input its source names and writes to the output.  All of *)
(* them hold the sound's mutex, so each is one action; the thread's start  *)
(* does not hold it.                                                       *)
(***************************************************************************)
EXTENDS Integers

CONSTANTS MaxOpens   \* BOUND: calls that open the sound

ASSUME SoundAssumption == MaxOpens \in Nat

Sources == {"SDR", "I2S", "TC_I2S"}

VARIABLES driverOpen,   \* fSoundDriverOpen
          playing,      \* fSoundPlaying
          source,       \* soundSource, "NULL" at first
          firstTime,    \* the first frames after an opening are silence
          started,      \* the thread has begun, and has cleared driverOpen
          aout, ain,    \* the ALSA output and input have a handle
          blend,        \* the I2S device: closed, set up or started
          harmed,       \* devices an opening, a start or a failed write left amiss
          opens         \* openings so far

soundVars == <<driverOpen, playing, source, firstTime, started, aout, ain, blend, harmed, opens>>

devices == <<aout, ain, blend>>

SoundTypeOK ==
  /\ driverOpen \in BOOLEAN /\ playing \in BOOLEAN /\ firstTime \in BOOLEAN
  /\ started \in BOOLEAN /\ aout \in BOOLEAN /\ ain \in BOOLEAN
  /\ source \in Sources \cup {"NULL"}
  /\ blend \in {"closed", "set", "started"}
  /\ harmed \in BOOLEAN /\ opens \in 0 .. MaxOpens

SoundInit ==
  /\ driverOpen = FALSE /\ playing = FALSE /\ source = "NULL" /\ firstTime = TRUE
  /\ started = FALSE
  /\ aout = FALSE /\ ain = FALSE /\ blend = "closed"
  /\ harmed = FALSE /\ opens = 0

-----------------------------------------------------------------------------
(* The devices, as pairs of what they are afterwards and whether the call  *)
(* succeeded.  An ALSA device that cannot be configured keeps its handle.  *)

AlsaOpened == {<<TRUE, TRUE>>, <<TRUE, FALSE>>, <<FALSE, FALSE>>}

(* dev_blend_audio_i2s_open and _setParameters: a device that is open or   *)
(* set up stays as it is.  When the parameters are refused it is closed.   *)
BlendSetUp == IF blend \in {"set", "started"}
                THEN {<<blend, TRUE>>}
                ELSE {<<"set", TRUE>>, <<"closed", FALSE>>}

(* dev_blend_audio_i2s_start, whose result is not looked at. *)
BlendStarted(b) == {b, "started"}

-----------------------------------------------------------------------------
(* tcradiosound_open, after the output was opened: the source asked for,   *)
(* and the other one when that one's device cannot be opened.  What comes  *)
(* out is the state of the input devices, the source and the success.      *)

Input(a, b, src, ok) == [ain |-> a, blend |-> b, source |-> src, ok |-> ok]

(* Only an I2S device that does not open falls back to ALSA; refused       *)
(* parameters leave the source as it is and end the attempt.               *)
FromTcI2s ==
  {Input(ain, b, "TC_I2S", TRUE) : b \in UNION {BlendStarted(s[1]) : s \in {t \in BlendSetUp : t[2]}}}
  \cup {Input(ain, s[1], "TC_I2S", FALSE) : s \in {t \in BlendSetUp : ~t[2]}}
  \cup (IF blend # "closed" THEN {}
          ELSE {Input(a[1], blend, IF a[2] THEN "I2S" ELSE "TC_I2S", a[2]) : a \in AlsaOpened})

InputOpened(src) == IF src = "SDR" THEN {Input(ain, blend, "SDR", TRUE)} ELSE FromTcI2s

(* Wrong: the flag is set whatever came out. *)
FlagAlways(i) == TRUE

Flag(i) == i.ok

(* The callers ask for SDR when HD Radio demodulates, else for TC_I2S.     *)
OpenSound(src) ==
  /\ opens < MaxOpens
  /\ opens' = opens + 1
  /\ ~driverOpen
  /\ \E o \in AlsaOpened :
       /\ aout' = o[1]
       /\ IF ~o[2]
            THEN /\ UNCHANGED <<driverOpen, ain, blend, firstTime>>
                 /\ source' = src
                 /\ harmed' = (harmed \/ o[1])
            ELSE \E i \in InputOpened(src) :
                   /\ ain' = i.ain /\ blend' = i.blend /\ source' = i.source
                   /\ driverOpen' = Flag(i)
                   /\ firstTime' = (firstTime \/ i.ok)
                   /\ harmed' = (harmed \/ ~i.ok)
  /\ UNCHANGED <<playing, started>>

(* Opened once more, it only plays its first silence again. *)
OpenSoundAgain ==
  /\ driverOpen /\ opens < MaxOpens
  /\ opens' = opens + 1 /\ firstTime' = TRUE
  /\ UNCHANGED <<driverOpen, playing, source, started, devices, harmed>>

(* tcradiosound_close: the output and the input of the source.  The I2S    *)
(* device stays open when its stream cannot be stopped.                    *)
ClosedBlend == IF blend = "started" THEN {"closed", "started"} ELSE {"closed"}

CloseSound ==
  /\ driverOpen
  /\ driverOpen' = FALSE /\ firstTime' = FALSE
  /\ aout' = FALSE
  /\ ain' = (ain /\ source # "I2S")
  /\ \E b \in IF source = "TC_I2S" THEN ClosedBlend ELSE {blend} :
       /\ blend' = b
       /\ harmed' = (harmed \/ (source = "TC_I2S" /\ b # "closed"))
  /\ UNCHANGED <<playing, source, started, opens>>

SetAudio(play) ==
  /\ driverOpen
  /\ playing' = play
  /\ UNCHANGED <<driverOpen, source, firstTime, started, devices, harmed, opens>>

(* The DEINIT event, after it closed the sound: the thread ends. *)
DeinitSound ==
  /\ started /\ ~driverOpen
  /\ started' = FALSE /\ playing' = FALSE
  /\ UNCHANGED <<driverOpen, source, firstTime, devices, harmed, opens>>

-----------------------------------------------------------------------------
(* The sound thread. *)

StartSound ==
  /\ ~started
  /\ started' = TRUE /\ driverOpen' = FALSE
  /\ harmed' = (harmed \/ driverOpen)
  /\ UNCHANGED <<playing, source, firstTime, devices, opens>>

Frames == CASE source = "SDR"    -> {"none", "frames"}
            [] source = "I2S"    -> {"frames"}
            [] source = "TC_I2S" -> IF blend = "started" THEN {"none", "frames"} ELSE {"none"}

(* One turn: frames are read, silenced unless playing, and written.  A     *)
(* write that fails other than by an underrun closes the output and opens  *)
(* it again, which may fail; a write without an output ends the program.   *)
Playback ==
  /\ started /\ driverOpen
  /\ \E f \in Frames :
       IF f = "none"
         THEN UNCHANGED <<firstTime, aout, harmed>>
         ELSE /\ aout
              /\ firstTime' = (firstTime /\ source # "I2S")
              /\ \E o \in BOOLEAN : aout' = o /\ harmed' = (harmed \/ ~o)
  /\ UNCHANGED <<driverOpen, playing, source, started, ain, blend, opens>>

SoundNext == \/ \E src \in {"SDR", "TC_I2S"} : OpenSound(src)
             \/ OpenSoundAgain
             \/ CloseSound
             \/ DeinitSound
             \/ \E play \in BOOLEAN : SetAudio(play)
             \/ StartSound
             \/ Playback

SoundSpec == SoundInit /\ [][SoundNext]_soundVars

-----------------------------------------------------------------------------

(* The thread, which looks at nothing but the flag and the source, only    *)
(* reads from an input that is open, whatever failed and whichever source  *)
(* took the place of the other; and until something fails, nothing is open *)
(* but what the flag and the source tell, so that a close leaves nothing.  *)
FlagTells ==
  /\ driverOpen => /\ source = "I2S" => ain
                   /\ source = "TC_I2S" => blend # "closed"
  /\ ~harmed => /\ aout = driverOpen
                /\ ain = (driverOpen /\ source = "I2S")
                /\ (blend # "closed") = (driverOpen /\ source = "TC_I2S")
=============================================================================
