----------------------------- MODULE SubManager -----------------------------
(***************************************************************************)
(* The radio manager of the sub-core, a program of its own over the        *)
(* middleware: mw/src/submgr.  Its main thread takes the requests of the   *)
(* main core from an IPC device one by one, calls the middleware, and      *)
(* either answers at once or leaves the answer to the notification that    *)
(* the call leads to.  Notifications reach it as callbacks on the service  *)
(* thread of the middleware.  Both threads compose their messages in the   *)
(* one stTxMsg, without a lock.                                            *)
(*                                                                         *)
(* Of the middleware, the module has what decides which notification comes *)
(* when: the two queues, the open flag, the band, and whether a seek is on *)
(* (see RadioService for the rest).                                        *)
(***************************************************************************)
EXTENDS Integers, Sequences, SequencesExt

CONSTANTS REQS,     \* BOUND: requests of the main core
          NEWS      \* BOUND: notifications of the HD framework nobody asked for

ASSUME SubAssumption == REQS \in Nat /\ NEWS \in Nat

Wavebands == {"FM", "AM"}

\* Other stands for the requests that are always answered at once.
AtOnce     == {"Init", "Close", "Other"}
ByCallback == {"Open", "SetTune", "SetHdrAudioMode"}
Kinds      == AtOnce \cup ByCallback \cup {"Deinit", "SetSeek", "Fader", "Unsupported"}

Requests == [cmd : {"Open"}, band : Wavebands]
              \cup [cmd : {"SetTune"}, band : Wavebands, primary : BOOLEAN]
              \cup [cmd : {"SetSeek"}, stop : BOOLEAN]
              \cup [cmd : Kinds \ {"Open", "SetTune", "SetSeek"}]

VARIABLES
  left, requested, \* requests still to come; kind -> requests taken from the device
  mgr,            \* the main thread: where it is, the kind it answers
  txHead, txBody, \* stTxMsg: what its length and commands, and its data, are of
  sent,           \* kind -> answers with its commands given to the device
  curBand,        \* stRadioMgr.curBand
  isInit, isOpen, \* fradioInit, fRadioOpened
  cmds, notes,    \* the queue of the service thread, and the one to the application
  giver,          \* the service thread: where it is, notifications given in this round
  note,           \* the one it is giving
  svcBand, seeking, \* the band of the service, a seek is on
  audioDue, news, \* audio modes the HD framework has not yet confirmed; its news so far
  blurred,        \* a message may have gone out with parts of another
  misled,         \* curBand was last set to a band that was not the service's
  unsaid          \* the band of the service moved without a word of it, and no word since

manager     == <<left, requested, mgr>>
message     == <<txHead, txBody, sent, blurred>>
flags       == <<isInit, isOpen>>
toApp       == <<notes, unsaid>>
serviceVars == <<cmds, toApp, giver, note, svcBand, seeking>>
hd          == <<audioDue, news>>
belief      == <<curBand, misled>>
subVars     == <<manager, message, flags, serviceVars, hd, belief>>

At(pc, kind)  == [pc |-> pc, kind |-> kind]
Round(pc, n)  == [pc |-> pc, given |-> n]
Nothing       == "none"
Notice(kind, b, right, list) == [what |-> kind, band |-> b, right |-> right, list |-> list]
NoNote        == Notice(Nothing, Nothing, FALSE, FALSE)

SubInit ==
  /\ left = REQS /\ requested = [k \in Kinds |-> 0] /\ sent = [k \in Kinds |-> 0]
  /\ mgr = At("idle", Nothing)
  /\ txHead = Nothing /\ txBody = Nothing /\ blurred = FALSE
  /\ curBand = "FM" /\ misled = FALSE
  /\ isInit = FALSE /\ isOpen = FALSE
  /\ cmds = <<>> /\ notes = <<>> /\ giver = Round("off", 0) /\ note = NoNote
  /\ svcBand = Nothing /\ seeking = FALSE /\ unsaid = FALSE
  /\ audioDue = 0 /\ news = 0

-----------------------------------------------------------------------------
(* The main thread takes a request and calls the middleware; the call is   *)
(* accepted or not.  Most requests are answered then, some only if they    *)
(* are refused; and, wrongly, those that are accepted, too.                *)

AnsweredAlways(kind, ok) == kind \in AtOnce \cup ByCallback \cup {"SetSeek", "Fader"}
Answered(kind, ok) == \/ kind \in AtOnce \cup {"Fader"}
                      \/ kind \in ByCallback \cup {"SetSeek"} /\ ~ok

Take(kind, ok) ==
  /\ mgr.pc = "idle" /\ requested["Deinit"] = 0
  /\ left > 0 /\ left' = left - 1
  /\ requested' = [requested EXCEPT ![kind] = @ + 1]
  /\ mgr' = IF Answered(kind, ok) THEN At(IF kind = "Fader" THEN "body" ELSE "head", kind)
                                  ELSE mgr
  /\ UNCHANGED <<message, note, toApp, svcBand, seeking, news>>

Queue(r, ok) == cmds' = IF ok THEN Append(cmds, r) ELSE cmds

(* tcsubrmgr_init: the band is set before the middleware is asked. *)
TakeInit == LET ok == ~isInit IN
  /\ Take("Init", ok)
  /\ isInit' = TRUE
  /\ giver' = IF ok THEN Round("receive", 0) ELSE giver
  /\ curBand' = "FM" /\ misled' = (svcBand \notin {Nothing, "FM"})
  /\ UNCHANGED <<isOpen, cmds, audioDue>>

TakeDeinit == /\ Take("Deinit", isInit)
              /\ isInit' = FALSE
              /\ Queue([cmd |-> "Deinit"], isInit)
              /\ UNCHANGED <<isOpen, giver, audioDue, belief>>

TakeOpen == LET ok == isInit /\ ~isOpen IN
  /\ Take("Open", ok)
  /\ \E b \in Wavebands : Queue([cmd |-> "Open", band |-> b], ok)
  /\ UNCHANGED <<flags, giver, audioDue, belief>>

TakeClose == /\ Take("Close", isOpen)
             /\ isOpen' = FALSE
             /\ UNCHANGED <<isInit, cmds, giver, audioDue, belief>>

(* A tune may also be refused for its frequency. *)
TakeSetTune == \E ok \in {FALSE, isOpen}, b \in Wavebands, p \in BOOLEAN :
  /\ Take("SetTune", ok)
  /\ Queue([cmd |-> "SetTune", band |-> b, primary |-> p], ok)
  /\ UNCHANGED <<flags, giver, audioDue, belief>>

TakeSetSeek == \E stop \in BOOLEAN :
  /\ Take("SetSeek", isOpen)
  /\ Queue([cmd |-> "SetSeek", stop |-> stop], isOpen)
  /\ UNCHANGED <<flags, giver, audioDue, belief>>

TakeSetHdrAudioMode == \E ok \in {FALSE, isOpen} :
  /\ Take("SetHdrAudioMode", ok)
  /\ audioDue' = IF ok THEN audioDue + 1 ELSE audioDue
  /\ UNCHANGED <<flags, giver, cmds, belief>>

TakeOther == \E k \in {"Other", "Fader", "Unsupported"} :
  /\ Take(k, TRUE)
  /\ UNCHANGED <<flags, giver, cmds, audioDue, belief>>

-----------------------------------------------------------------------------
(* Composing a message: the length and the commands, then the data, and    *)
(* then what stTxMsg holds is copied and given to the device.  A message   *)
(* without a length is not sent.                                           *)

Underway(at) == at.pc \in {"body", "send"}

WriteHead(kind, other) == /\ txHead' = kind
                          /\ blurred' = (blurred \/ Underway(other))
                          /\ UNCHANGED <<txBody, sent>>
WriteBody(kind, other) == /\ txBody' = kind
                          /\ blurred' = (blurred \/ Underway(other) \/ txHead \notin {kind, Nothing})
                          /\ UNCHANGED <<txHead, sent>>
GiveToDevice == /\ sent' = IF txHead \in Kinds THEN [sent EXCEPT ![txHead] = @ + 1] ELSE sent
                /\ UNCHANGED <<txHead, txBody, blurred>>

MgrGoes(from, to) == /\ mgr.pc = from /\ mgr' = At(to, IF to = "idle" THEN Nothing ELSE mgr.kind)
                     /\ UNCHANGED <<left, requested, flags, serviceVars, hd, belief>>

MgrHead == MgrGoes("head", "body") /\ WriteHead(mgr.kind, giver)
MgrBody == MgrGoes("body", "send") /\ WriteBody(mgr.kind, giver)
MgrSend == MgrGoes("send", "idle") /\ GiveToDevice

-----------------------------------------------------------------------------
(* The service thread: a request, a step of the seek, up to three          *)
(* notifications.  "right" remembers that what a notification tells is so. *)

(* The band of the service is told. *)
TellsBand(n) == n.right /\ n.what \in {"Open", "SetTune", "SetSeek"}

Tell(ns) == /\ notes' = notes \o ns
            /\ unsaid' = (unsaid /\ ~\E i \in DOMAIN ns : TellsBand(ns[i]))

SeekStopped(b, list) == Notice("SetSeek", b, TRUE, list)

SvcTakes(cmd) == /\ giver.pc = "receive" /\ cmds # <<>> /\ Head(cmds).cmd = cmd
                 /\ cmds' = Tail(cmds)
                 /\ giver' = Round("seek", 0)
                 /\ UNCHANGED <<manager, message, isInit, note, hd, belief>>

NoCommand == /\ giver.pc = "receive" /\ cmds = <<>>
             /\ giver' = Round("seek", 0)
             /\ UNCHANGED <<manager, message, flags, cmds, toApp, note, svcBand, seeking, hd, belief>>

ServeOpen == LET b == Head(cmds).band IN
  /\ SvcTakes("Open") /\ ~isOpen
  /\ isOpen' = TRUE /\ svcBand' = b
  /\ Tell(<<Notice("Open", b, TRUE, FALSE)>>)
  /\ UNCHANGED seeking

(* The tuner is open, and the service in its band; then the HD part of the *)
(* opening fails, and an error is told of it.  An audio resampler that is  *)
(* not there is told by the number of a radio that is open already: the    *)
(* manager takes that for a success in the band numbered 0.                *)
OpenWithoutHd == \E what \in {"Open", "OpenFailed"} :
  LET b == Head(cmds).band
      n == Notice(what, "FM", what = "Open" /\ b = "FM", FALSE) IN
  /\ SvcTakes("Open") /\ ~isOpen
  /\ isOpen' = TRUE /\ svcBand' = b
  /\ notes' = Append(notes, n)
  /\ unsaid' = ((unsaid \/ svcBand # b) /\ ~n.right)
  /\ UNCHANGED seeking

(* The tuner does not start.  A radio that is open by now is an error too, *)
(* but one that the manager takes for a success in the band numbered 0.    *)
RefuseOpen == /\ SvcTakes("Open")
              /\ Tell(<<Notice(IF isOpen THEN "Open" ELSE "OpenFailed", "FM", FALSE, FALSE)>>)
              /\ UNCHANGED <<isOpen, svcBand, seeking>>

(* A tune of the primary tuner ends a seek; then it is accepted, or        *)
(* refused (always by a radio that was closed meanwhile).  The             *)
(* notification tells what was asked for.                                  *)
ServeTune == \E ok \in {FALSE, isOpen} : LET r == Head(cmds)
                                             stops == seeking /\ r.primary IN
  /\ SvcTakes("SetTune")
  /\ seeking' = (seeking /\ ~stops)
  /\ svcBand' = IF ok /\ r.primary THEN r.band ELSE svcBand
  /\ Tell((IF stops THEN <<SeekStopped(svcBand, FALSE)>> ELSE <<>>)
            \o <<Notice(IF r.primary THEN "SetTune" ELSE "SetTuneSecondary", r.band, ok, FALSE)>>)
  /\ UNCHANGED isOpen

(* A seek command ends what is on, replaces it, or begins; its end is told *)
(* in the step that follows.                                               *)
ServeSeek == /\ SvcTakes("SetSeek")
             /\ IF Head(cmds).stop THEN seeking' = FALSE ELSE seeking' \in {TRUE, ~seeking}
             /\ IF seeking' THEN UNCHANGED toApp
                            ELSE \E l \in BOOLEAN : Tell(<<SeekStopped(svcBand, l)>>)
             /\ UNCHANGED <<isOpen, svcBand>>

(* Here the thread ends, once it has given up to three notifications. *)
ServeDeinit == /\ SvcTakes("Deinit")
               /\ isOpen' = FALSE
               /\ UNCHANGED <<toApp, svcBand, seeking>>

(* The seek judges a frequency (and may tell its quality), or ends. *)
SeekGoesOn == /\ giver.pc = "seek"
              /\ giver' = Round("tell", 0)
              /\ \/ UNCHANGED toApp
                 \/ seeking /\ Tell(<<Notice("SeekQuality", svcBand, FALSE, FALSE)>>)
              /\ UNCHANGED <<manager, message, flags, cmds, note, svcBand, seeking, hd, belief>>

SeekStops == /\ giver.pc = "seek" /\ seeking
             /\ giver' = Round("tell", 0)
             /\ seeking' = FALSE
             /\ \E l \in BOOLEAN : Tell(<<SeekStopped(svcBand, l)>>)
             /\ UNCHANGED <<manager, message, flags, cmds, note, svcBand, hd, belief>>

(* The HD framework confirms an audio mode, or has something to tell. *)
HdConfirms == /\ audioDue > 0
              /\ audioDue' = audioDue - 1
              /\ Tell(<<Notice("SetHdrAudioMode", Nothing, FALSE, FALSE)>>)
              /\ UNCHANGED <<manager, message, flags, cmds, giver, note, svcBand, seeking, news, belief>>

HdTells == /\ isOpen /\ news < NEWS
           /\ news' = news + 1
           /\ Tell(<<Notice("HdrData", Nothing, FALSE, FALSE)>>)
           /\ UNCHANGED <<manager, message, flags, cmds, giver, note, svcBand, seeking, audioDue, belief>>

-----------------------------------------------------------------------------
(* tcsubrmgr_getNotificationCallBack. *)

MOST == 3       \* notifications in a round

(* The notifications that move the belief; and, wrongly, those of other    *)
(* tuners too.                                                             *)
MovesAny(n) == n.what \in {"Open", "SetTune", "SetTuneSecondary", "SetSeek"}
Moves(n)    == n.what \in {"Open", "SetTune", "SetSeek"}

Callback == /\ giver.pc = "tell" /\ notes # <<>> /\ giver.given < MOST
            /\ note' = Head(notes) /\ notes' = Tail(notes)
            /\ giver' = Round("head", giver.given + 1)
            /\ IF Moves(Head(notes))
               THEN curBand' = Head(notes).band /\ misled' = ~Head(notes).right
               ELSE UNCHANGED belief
            /\ UNCHANGED <<manager, message, flags, cmds, unsaid, svcBand, seeking, hd>>

(* The thread ends when it has handled the deinit, the last of the queue. *)
RoundEnds == /\ giver.pc = "tell"
             /\ notes = <<>> \/ giver.given = MOST
             /\ giver' = Round(IF requested["Deinit"] > 0 /\ cmds = <<>> THEN "off" ELSE "receive", 0)
             /\ UNCHANGED <<manager, message, flags, cmds, toApp, note, svcBand, seeking, hd, belief>>

(* The commands of the message a notification becomes. *)
Reply == CASE note.what = "OpenFailed"       -> "Open"
           [] note.what = "SetTuneSecondary" -> "SetTune"
           [] OTHER                          -> note.what

SvcGoes(from, to) == /\ giver.pc = from /\ giver' = Round(to, giver.given)
                     /\ UNCHANGED <<manager, flags, cmds, toApp, svcBand, seeking, hd, belief>>

SvcHead == SvcGoes("head", "body") /\ WriteHead(Reply, mgr) /\ UNCHANGED note
SvcBody == SvcGoes("body", "send") /\ WriteBody(Reply, mgr) /\ UNCHANGED note

(* The end of a scan is followed by the list, a message for each station   *)
(* (one here); a list may be empty.                                        *)
SvcSend == /\ GiveToDevice
           /\ IF note.list THEN SvcGoes("send", "head") /\ note' = Notice("List", curBand, FALSE, FALSE)
                           ELSE SvcGoes("send", "tell") /\ note' = NoNote

-----------------------------------------------------------------------------
MainThread == \/ TakeInit \/ TakeDeinit \/ TakeOpen \/ TakeClose
              \/ TakeSetTune \/ TakeSetSeek \/ TakeSetHdrAudioMode \/ TakeOther
              \/ MgrHead \/ MgrBody \/ MgrSend
SvcThread  == \/ NoCommand \/ ServeOpen \/ OpenWithoutHd \/ RefuseOpen \/ ServeTune \/ ServeSeek \/ ServeDeinit
              \/ SeekGoesOn \/ SeekStops
              \/ Callback \/ SvcHead \/ SvcBody \/ SvcSend \/ RoundEnds

SubNext == MainThread \/ SvcThread \/ HdConfirms \/ HdTells

SubSpec == SubInit /\ [][SubNext]_subVars

-----------------------------------------------------------------------------
(* Nothing is on its way. *)
AtRest == /\ mgr.pc = "idle" /\ giver.pc \in {"receive", "off"} /\ ~seeking
          /\ cmds = <<>> /\ notes = <<>> /\ audioDue = 0

(* Whatever the middleware accepts, refuses or fails later, the main core  *)
(* gets one answer to each of its requests, at once or by callback, and a  *)
(* seek, which several commands may end together, has an end: unless the   *)
(* two threads composed their messages over one another, or a fader        *)
(* request was answered under the commands of the message before it.       *)
EachAnswered ==
  AtRest /\ ~blurred => /\ \A k \in AtOnce \cup ByCallback : sent[k] = requested[k]
                        /\ requested["SetSeek"] > 0 => sent["SetSeek"] > 0

(* The band by whose thresholds the manager judges the frequencies of a    *)
(* seek is the one the service seeks in, or word of that is on its way -   *)
(* unless the manager went by a tune that was refused, an opening of a     *)
(* radio that was open or that it took for one, or an init of one that was *)
(* initialised (misled); or the last that moved the band was an opening    *)
(* whose HD part failed, which was told as an error (unsaid).              *)
BandFollows ==
  svcBand # Nothing /\ ~misled /\ ~unsaid =>
    \/ curBand = svcBand
    \/ \E n \in ToSet(notes) : TellsBand(n)
=============================================================================
