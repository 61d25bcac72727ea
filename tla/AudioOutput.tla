---------------------------- MODULE AudioOutput -----------------------------
(***************************************************************************)
(* The output of the HD radio framework, hd/src/framework/tchdr_audio.c:   *)
(* the blending thread hands over frames (tchdraudoutput_rxHandler), the   *)
(* playback thread takes them out of digitalAudioBuffer, one per post of   *)
(* its semaphore, and gives them to the audio callback; opening and        *)
(* closing the framework starts the buffer afresh from other threads.      *)
(*                                                                         *)
(* Every call on the buffer looks at its count before it takes the mutex,  *)
(* so a check and its critical section are two steps.  A frame is FRAME    *)
(* equal elements, its number; silence is number 0.                        *)
(***************************************************************************)
EXTENDS CircBuff

CONSTANTS FRAME,       \* HDR_AUDIO_FRAME_SIZE
          FILL,        \* FILL_ZERO_BUFFER_SIZE
          LAST,        \* the last frame the blending thread makes
          SESSIONS     \* how often the framework is opened

(* The comment at FILL_ZERO_BUFFER_SIZE asks for a multiple of a frame     *)
(* that is less than the buffer; four frames and two are compiled in.      *)
ASSUME AudioAssumption == /\ FRAME \in Nat \ {0}
                          /\ FILL \in Nat
                          /\ FRAME <= FILL
                          /\ FILL + FRAME <= SIZE
                          /\ LAST \in Nat
                          /\ Elements = 0 .. LAST
                          /\ Zero = 0
                          /\ SESSIONS \in Nat

VARIABLES cb,          \* digitalAudioBuffer
          ready,       \* bPlaybackReady
          start,       \* bPlaybackStart
          sem,         \* the value of audioOutputThreadSem
          open,        \* tchdr_getHDRadioOpenStatus
          target,      \* the last call that began was an opening
          ctl,         \* how far that call is
          blend,       \* where the blending thread is in rxHandler
          play,        \* where the playback thread is
          frame,       \* the number of the frame that is handed over
          out,         \* the frame the callback got last
          last,        \* the last frame of sound it got
          sessions     \* openings so far

control  == <<start, open, target, ctl, sessions>>
blending == <<blend, frame>>
playback == <<play, out, last>>
vars == <<cb, ready, sem, control, blending, playback>>

Frame(n) == Filled(n, FRAME)

TypeOK ==
  /\ cb \in Buffer
  /\ ready \in BOOLEAN /\ start \in BOOLEAN /\ open \in BOOLEAN /\ target \in BOOLEAN
  /\ sem \in 0 .. LAST
  /\ ctl \in {"idle", "clear", "refill", "finish"}
  /\ blend \in {"idle", "refill", "check", "put", "post", "overflow"}
  /\ play \in {"event", "wait", "check", "take"}
  /\ frame \in 0 .. LAST
  /\ out \in [1 .. FRAME -> Elements] /\ last \in Elements
  /\ sessions \in 0 .. SESSIONS

Init ==
  /\ cb = Fresh([c \in Cells |-> Zero])
  /\ ready = FALSE /\ start = FALSE /\ open = FALSE /\ target = FALSE
  /\ sem = 0 /\ frame = 0 /\ sessions = 0
  /\ ctl = "idle" /\ blend = "idle" /\ play = "event"
  /\ out = Frame(0) /\ last = 0

(* Wrong variants: a reset without the silence, a write that does not look *)
(* for space.                                                              *)
OnlyEmptied(b) == Emptied(b)
NoSpaceNeeded  == TRUE

(* CB_reset_and_fill of FILL_ZERO_BUFFER_SIZE elements. *)
Refilled(b) == Put(Emptied(b), Filled(Zero, FILL))

FrameFits == AvailSpace(cb) >= FRAME
Posted    == sem + 1
NotPosted == sem

-----------------------------------------------------------------------------
(* Opening and closing, one call at a time: the input thread opens, the    *)
(* service thread marks the framework open, the application closes it.     *)

BeginOpen == /\ ctl = "idle" /\ ~target /\ sessions < SESSIONS
             /\ target' = TRUE /\ ctl' = "clear" /\ sessions' = sessions + 1
             /\ UNCHANGED <<cb, ready, sem, start, open, blending, playback>>

BeginClose == /\ ctl = "idle" /\ open
              /\ target' = FALSE /\ open' = FALSE /\ ctl' = "clear"
              /\ UNCHANGED <<cb, ready, sem, start, sessions, blending, playback>>

(* tchdraudoutput_reset, first half. *)
ClearReady == /\ ctl = "clear"
              /\ ready' = FALSE /\ ctl' = "refill"
              /\ UNCHANGED <<cb, sem, start, open, target, sessions, blending, playback>>

(* Second half. *)
Refill == /\ ctl = "refill"
          /\ cb' = Refilled(cb)
          /\ ctl' = "finish"
          /\ UNCHANGED <<ready, sem, start, open, target, sessions, blending, playback>>

Finish == /\ ctl = "finish"
          /\ start' = target /\ ctl' = "idle"
          /\ UNCHANGED <<cb, ready, sem, open, target, sessions, blending, playback>>

(* The service thread's answer to the notification. *)
MarkOpen == /\ ctl = "idle" /\ target /\ ~open
            /\ open' = TRUE
            /\ UNCHANGED <<cb, ready, sem, start, target, ctl, sessions,
                            blending, playback>>

-----------------------------------------------------------------------------
(* tchdraudoutput_rxHandler on the blending thread. *)

RxHandler == /\ blend = "idle" /\ open /\ frame < LAST
             /\ frame' = frame + 1
             /\ blend' = IF ready THEN "check" ELSE "refill"
             /\ UNCHANGED <<cb, ready, sem, control, playback>>

RefillFirst == /\ blend = "refill"
               /\ cb' = Refilled(cb)
               /\ blend' = "check"
               /\ UNCHANGED <<ready, sem, frame, control, playback>>

CheckSpace == /\ blend = "check"
              /\ blend' = IF FrameFits THEN "put" ELSE "overflow"
              /\ UNCHANGED <<cb, ready, sem, frame, control, playback>>

PutFrame == /\ blend = "put"
            /\ cb' = Put(cb, Frame(frame))
            /\ blend' = "post"
            /\ UNCHANGED <<ready, sem, frame, control, playback>>

PostFrame == /\ blend = "post"
             /\ sem' = Posted
             /\ ready' = TRUE /\ blend' = "idle"
             /\ UNCHANGED <<cb, frame, control, playback>>

Overflow == /\ blend = "overflow"
            /\ sem' = NotPosted
            /\ ready' = TRUE /\ blend' = "idle"
            /\ UNCHANGED <<cb, frame, control, playback>>

-----------------------------------------------------------------------------
(* tchdr_audioPlaybackThread: one message, one post, one frame. *)

(* The messages the service thread sends: none, start or stop playback. *)
HandleEvent == /\ play = "event"
               /\ start' \in {start, TRUE, FALSE}
               /\ play' = "wait"
               /\ UNCHANGED <<cb, ready, sem, open, target, ctl, sessions,
                               blending, out, last>>

(* sem_wait. *)
Wait == /\ play = "wait" /\ sem > 0
        /\ sem' = sem - 1 /\ play' = "check"
        /\ UNCHANGED <<cb, ready, control, blending, out, last>>

CheckData == /\ play = "check"
             /\ play' = IF cb.elemCount >= FRAME THEN "take" ELSE "event"
             /\ UNCHANGED <<cb, ready, sem, control, blending, out, last>>

(* Read while another thread may stop playback: then nothing is given on. *)
TakeFrame == /\ play = "take"
             /\ cb' = Taken(cb, FRAME)
             /\ out' = IF start THEN Read(cb, FRAME) ELSE out
             /\ last' = IF out'[1] = Zero THEN last ELSE out'[1]
             /\ play' = "event"
             /\ UNCHANGED <<ready, sem, control, blending>>

Next == \/ BeginOpen \/ BeginClose \/ ClearReady \/ Refill \/ Finish \/ MarkOpen
        \/ RxHandler \/ RefillFirst \/ CheckSpace \/ PutFrame \/ PostFrame \/ Overflow
        \/ HandleEvent \/ Wait \/ CheckData \/ TakeFrame

Spec == Init /\ [][Next]_vars

-----------------------------------------------------------------------------

(* No check is made under the mutex, yet the buffer never holds more than  *)
(* its size nor less than nothing: whatever is reset between a check and   *)
(* its transfer leaves silence to read and space to write.                 *)
BufferSound == cb.elemCount \in 0 .. SIZE /\ Consistent(cb)

(* Frames reach the callback in the order they were made, none twice. *)
PlayedInOrder ==
  [][play = "take" /\ play' = "event" /\ start => out'[1] = Zero \/ out'[1] > last]_vars

=============================================================================
