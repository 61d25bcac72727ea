----------------------------- MODULE HdService ------------------------------
(***************************************************************************)
(* What the HD radio middleware tells about the tuned station.  The        *)
(* service thread (hd/src/mw/tchdr_service.c) runs one loop: it handles    *)
(* one message, looks at the signal, gathers program service data (PSD)    *)
(* and station information (SIS) from the core, and hands its              *)
(* notifications to the callback.  A notification carries a pointer to a   *)
(* static slot; the radio's callback (mw/src/hd/tcradio_hdr_if.c) queues   *)
(* the pointer for another thread, which follows it later.  A tune request *)
(* goes on to the base band input thread (hd/src/framework/                *)
(* tchdr_bbinput.c), which makes the core acquire anew, and comes back.    *)
(*                                                                         *)
(* The configuration is that of the build, HDR_1p0_CONFIG: one instance.   *)
(* The framework is open and stays open (see HdSession).  The core is the  *)
(* environment: its calls succeed, and it forgets the old station within   *)
(* HDR_reacquire.  A slot that is read while it is written gives Torn.     *)
(***************************************************************************)
EXTENDS Integers, Sequences

CONSTANTS Programs,      \* program numbers, 0 .. n
          Freqs,         \* frequencies of stations
          Pty,           \* program types of the programs of a station
          Home,          \* the frequency the framework is opened with
          Torn,          \* what a reader makes of a slot that is being written
          PSD, SIS, STATUS,  \* passes between two looks: 10, 100, 25 in the code
          BURST,         \* notifications handed over in one pass (8)
          Plans,         \* BOUND: requests made at once, and how many tune requests, other
                         \* requests and changes in the core follow
          LAG            \* BOUND: notifications the radio is behind

ASSUME ServiceAssumption ==
  /\ Programs \subseteq Nat /\ 0 \in Programs /\ Home \in Freqs
  /\ Pty \in [Freqs -> [Programs -> Nat]]
  /\ {PSD, SIS, STATUS, BURST} \subseteq Nat \ {0}
  /\ LAG \in Nat
  /\ \A plan \in Plans : /\ {plan.tunes, plan.requests, plan.news} \subseteq Nat
                         /\ plan.first \in Seq({"PSD"} \X (SUBSET Programs) \cup {"SIS"} \X BOOLEAN)

VARIABLES svcQ,       \* messages to the service thread
          bbQ,        \* tune requests for the base band input thread
          appQ,       \* notifications the service thread has queued
          radioQ,     \* the same, after the callback: pointers to follow
          pc,         \* where the service thread is in its loop
          fill,       \* programs whose slot is still to be filled, then
          got,        \* programs filled in this pass and not told of yet
          statusChk, psd, sis, pty,  \* the fields of stTcHdrService
          acq,        \* mainSts.acqStatus, all of it or nothing
          progNum,    \* mainHdrProgNum
          slot,       \* stTcHdrMainPsd, stTcHdrPriSigStatus
          bb,         \* where the base band input thread is in setTuneMain
          tuned,      \* stBbInputCtrl[0].tuneInfo.freq
          busy,       \* busyFlag[0]
          core,       \* the HD core
          told,       \* reacquisitions the callback has been told of
          view,       \* what the application has read through the pointers
          quiet,      \* passes since PSD was gathered, asked for or retuned
          missed,     \* programs whose change flag was cleared over newer data
          left        \* what is left of the plan

thread == <<pc, fill, got, statusChk, psd, sis, pty, acq>>
queues == <<svcQ, bbQ, appQ, radioQ>>
input  == <<bb, tuned, busy>>
vars   == <<queues, thread, progNum, slot, input, core, told, view, quiet, missed, left>>

First == 0
Nothing == [gen |-> 0, n |-> 0]
Silent  == [gen |-> 0, acq |-> FALSE]

TypeOK ==
  /\ pc \in {"message", "status", "report", "psd", "fill", "clear", "send", "sis", "copy", "notify"}
  /\ fill \subseteq Programs /\ got \subseteq Programs /\ progNum \in Programs
  /\ statusChk \in 0 .. STATUS
  /\ psd \in [mask : SUBSET Programs, notify : BOOLEAN, chk : 0 .. PSD]
  /\ sis \in [on : BOOLEAN, notify : BOOLEAN, chk : 0 .. SIS]
  /\ quiet \in 0 .. PSD /\ missed \subseteq Programs
  /\ core.playing \in Programs /\ core.changed \subseteq Programs
  /\ told \in 0 .. core.gen

Init ==
  /\ bbQ = <<>> /\ appQ = <<>> /\ radioQ = <<>>
  /\ pc = "message" /\ fill = {} /\ got = {}
  /\ statusChk = STATUS
  /\ psd = [mask |-> {}, notify |-> FALSE, chk |-> PSD]
  /\ sis = [on |-> FALSE, notify |-> FALSE, chk |-> SIS]
  /\ pty = [value |-> [p \in Programs |-> 0], notify |-> TRUE]
  /\ acq = FALSE /\ progNum = First
  /\ slot = [psd |-> [p \in Programs |-> Nothing], signal |-> Silent]
  /\ bb = <<"idle">> /\ tuned = Home /\ busy = FALSE
  /\ core = [gen |-> 0, freq |-> Home, acq |-> FALSE, playing |-> First, enabled |-> FALSE,
             reacq |-> FALSE, changed |-> {}, data |-> [p \in Programs |-> Nothing]]
  /\ told = 0
  /\ view = [psd |-> [p \in Programs |-> Nothing], signal |-> Silent,
             pty |-> [p \in Programs |-> 0]]
  /\ quiet = 0 /\ missed = {}
  /\ left \in Plans /\ svcQ = left.first

-----------------------------------------------------------------------------
(* The application's requests, and the radio's, are queued (tchdr_api.c).  *)

Ask(message) ==
  /\ left.requests > 0
  /\ left' = [left EXCEPT !.requests = @ - 1]
  /\ svcQ' = Append(svcQ, message)
  /\ UNCHANGED <<bbQ, appQ, radioQ, thread, progNum, slot, input, core, told, view, quiet, missed>>

EnablePsdNotification(mask) == Ask(<<"PSD", mask>>)

EnableSisNotification(en) == Ask(<<"SIS", en>>)

SetTune(f) ==
  /\ left.tunes > 0
  /\ left' = [left EXCEPT !.tunes = @ - 1]
  /\ svcQ' = Append(svcQ, <<"TUNE", f>>)
  /\ UNCHANGED <<bbQ, appQ, radioQ, thread, progNum, slot, input, core, told, view, quiet, missed>>

(* tchdr_setProgram is not queued: it sets the program on the caller's thread. *)
SetProgram(p) ==
  /\ left.requests > 0
  /\ left' = [left EXCEPT !.requests = @ - 1]
  /\ core' = [core EXCEPT !.playing = p]
  /\ progNum' = p
  /\ UNCHANGED <<queues, thread, slot, input, told, view, quiet, missed>>

-----------------------------------------------------------------------------
(* The base band input thread.                                             *)

(* event_set_tune, setTune: the tune information is stored; at the same    *)
(* frequency the program that plays is read to be kept.                    *)
SetTuneStore ==
  /\ bb[1] = "idle" /\ bbQ # <<>>
  /\ LET f == Head(bbQ) IN
       /\ bb' = IF f = tuned THEN <<"keep", core.playing>> ELSE <<"change">>
       /\ tuned' = f
  /\ bbQ' = Tail(bbQ)
  /\ UNCHANGED <<svcQ, appQ, radioQ, thread, progNum, slot, busy, core, told, view, quiet, missed, left>>

Forgotten(c) ==
  [c EXCEPT !.gen = @ + 1, !.freq = tuned, !.acq = FALSE, !.reacq = TRUE, !.changed = {},
            !.data = [p \in Programs |-> [gen |-> c.gen + 1, n |-> 0]]]

Reacquire ==
  /\ bb[1] \in {"keep", "change"}
  /\ core' = Forgotten(core)
  /\ bb' = <<"flag", Tail(bb)>>
  /\ UNCHANGED <<queues, thread, progNum, slot, tuned, busy, told, view, quiet, missed, left>>

(* busyFlag is set when HDR_reacquire has returned, the program is put     *)
(* back, and the service thread is told.                                   *)
TuneDone ==
  /\ bb[1] = "flag"
  /\ busy' = TRUE
  /\ IF bb[2] = <<>> THEN UNCHANGED <<core, progNum>>
                     ELSE core' = [core EXCEPT !.playing = bb[2][1]] /\ progNum' = bb[2][1]
  /\ svcQ' = Append(svcQ, <<"TUNED", core.gen>>)
  /\ bb' = <<"idle">>
  /\ UNCHANGED <<bbQ, appQ, radioQ, thread, slot, tuned, told, view, quiet, missed, left>>

-----------------------------------------------------------------------------
(* The core.                                                               *)

(* HDLIB_cb_reacq_complete, on the thread that runs the core. *)
Reacquired ==
  /\ core.reacq
  /\ core' = [core EXCEPT !.reacq = FALSE]
  /\ busy' = FALSE
  /\ UNCHANGED <<queues, thread, progNum, slot, bb, tuned, told, view, quiet, missed, left>>

Acquire ==
  /\ ~core.reacq /\ ~core.acq
  /\ core' = [core EXCEPT !.acq = TRUE]
  /\ UNCHANGED <<queues, thread, progNum, slot, input, told, view, quiet, missed, left>>

Lose ==
  /\ core.acq /\ left.news > 0
  /\ left' = [left EXCEPT !.news = @ - 1]
  /\ core' = [core EXCEPT !.acq = FALSE]
  /\ UNCHANGED <<queues, thread, progNum, slot, input, told, view, quiet, missed>>

(* New PSD sets the change flag of its program if the field is enabled.    *)
ReceivePsd(p) ==
  /\ core.acq /\ left.news > 0
  /\ left' = [left EXCEPT !.news = @ - 1]
  /\ core' = [core EXCEPT !.data[p].n = @ + 1,
                          !.changed = IF core.enabled THEN @ \cup {p} ELSE @]
  /\ UNCHANGED <<queues, thread, progNum, slot, input, told, view, quiet, missed>>
-----------------------------------------------------------------------------
(* The service thread: one message, ...                                    *)

Goto(next) == pc = "message" /\ pc' = next

NoMessage ==
  /\ Goto("status") /\ svcQ = <<>>
  /\ UNCHANGED <<queues, fill, got, statusChk, psd, sis, pty, acq, progNum, slot, input, core,
                 told, view, quiet, missed, left>>

Take(kind) == Goto("status") /\ svcQ # <<>> /\ Head(svcQ)[1] = kind /\ svcQ' = Tail(svcQ)

(* Wrong variants of four definitions below, to see the properties notice  *)
(* them: an answer before the work is done, PSD looked at as soon as it is *)
(* asked for, only changes looked at, only a signal that comes reported.   *)
EventSetTuneAnswered ==
  /\ Take("TUNE")
  /\ statusChk' = 0
  /\ psd' = [psd EXCEPT !.chk = PSD]
  /\ sis' = [sis EXCEPT !.chk = SIS]
  /\ bbQ' = Append(bbQ, Head(svcQ)[2])
  /\ appQ' = Append(appQ, [kind |-> "TUNE", gen |-> core.gen + 1])
  /\ quiet' = 0
  /\ UNCHANGED <<radioQ, fill, got, pty, acq, progNum, slot, input, core, told, view, missed, left>>

PsdAtOnce(mask) == [mask |-> mask, notify |-> mask # {}, chk |-> 0]
WantedChanged == core.changed \cap psd.mask
SignalCame == slot.signal.acq /\ ~acq

(* event_set_tune: the next look at the signal is now, those at PSD and    *)
(* SIS are put off; the request goes on to the base band input thread.     *)
EventSetTune ==
  /\ Take("TUNE")
  /\ statusChk' = 0
  /\ psd' = [psd EXCEPT !.chk = PSD]
  /\ sis' = [sis EXCEPT !.chk = SIS]
  /\ bbQ' = Append(bbQ, Head(svcQ)[2])
  /\ quiet' = 0
  /\ UNCHANGED <<appQ, radioQ, fill, got, pty, acq, progNum, slot, input, core, told, view, missed, left>>

(* The answer of the base band input thread only passes through.           *)
NotifyTune ==
  /\ Take("TUNED")
  /\ appQ' = Append(appQ, [kind |-> "TUNE", gen |-> Head(svcQ)[2]])
  /\ UNCHANGED <<bbQ, radioQ, fill, got, statusChk, psd, sis, pty, acq, progNum, slot, input, core,
                 told, view, quiet, missed, left>>

PsdOn(mask) == IF mask # {} THEN [mask |-> mask, notify |-> TRUE, chk |-> PSD]
                            ELSE [psd EXCEPT !.mask = {}, !.notify = FALSE]

EventEnablePsd ==
  /\ Take("PSD")
  /\ psd' = PsdOn(Head(svcQ)[2])
  /\ UNCHANGED <<bbQ, appQ, radioQ, fill, got, statusChk, sis, pty, acq, progNum, slot, input, core,
                 told, view, quiet, missed, left>>

(* Unlike PSD, SIS is looked at in the same pass.                          *)
EventEnableSis ==
  /\ Take("SIS")
  /\ sis' = IF Head(svcQ)[2] THEN [on |-> TRUE, notify |-> TRUE, chk |-> 0]
                             ELSE [sis EXCEPT !.on = FALSE, !.notify = FALSE]
  /\ UNCHANGED <<bbQ, appQ, radioQ, fill, got, statusChk, psd, pty, acq, progNum, slot, input, core,
                 told, view, quiet, missed, left>>

-----------------------------------------------------------------------------
(* ... the signal, every STATUS passes, ...                                *)

StatusWait ==
  /\ pc = "status" /\ statusChk > 0
  /\ statusChk' = statusChk - 1
  /\ pc' = "psd"
  /\ UNCHANGED <<queues, fill, got, psd, sis, pty, acq, progNum, slot, input, core, told, view,
                 quiet, missed, left>>

(* getHdrSignalStatus zeroes the shared slot and fills it.                 *)
StatusRead ==
  /\ pc = "status" /\ statusChk = 0
  /\ slot' = [slot EXCEPT !.signal = [gen |-> core.gen, acq |-> core.acq]]
  /\ pc' = "report"
  /\ UNCHANGED <<queues, fill, got, statusChk, psd, sis, pty, acq, progNum, input, core, told, view,
                 quiet, missed, left>>

SignalNews == slot.signal.acq # acq

PtyNow == IF core.acq THEN Pty[core.freq][progNum] ELSE 0

(* The program types are only kept when the audio is acquired, at the      *)
(* index of the program at the time.                                       *)
PtyNews == slot.signal.acq /\ (pty.notify \/ pty.value[progNum] # PtyNow)

Signal == [kind |-> "SIGNAL", gen |-> slot.signal.gen]

StatusReport ==
  /\ pc = "report"
  /\ acq' = slot.signal.acq
  /\ IF PtyNews THEN pty' = [value |-> [pty.value EXCEPT ![progNum] = PtyNow], notify |-> FALSE]
                ELSE UNCHANGED pty
  /\ LET reported == IF SignalNews THEN Append(appQ, Signal) ELSE appQ IN
     appQ' = IF PtyNews THEN Append(reported, [kind |-> "PTY", gen |-> core.gen, prog |-> progNum, value |-> PtyNow])
                        ELSE reported
  /\ statusChk' = STATUS
  /\ pc' = "psd"
  /\ UNCHANGED <<svcQ, bbQ, radioQ, fill, got, psd, sis, progNum, slot, input, core, told, view,
                 quiet, missed, left>>

-----------------------------------------------------------------------------
(* ... the program service data, ...                                       *)

(* Programs are gone through in the order of their numbers.                *)
NextOf(programs, p) == p \in programs /\ \A q \in programs : p <= q

Decreased(look) == [look EXCEPT !.chk = IF @ > 0 THEN @ - 1 ELSE 0]

PsdDue == psd.mask # {} /\ acq /\ psd.chk = 0

Wanted == IF psd.notify THEN psd.mask ELSE core.changed \cap psd.mask

(* The counter runs only while PSD is asked for.                           *)
PsdWait ==
  /\ pc = "psd" /\ (PsdDue => Wanted = {})
  /\ psd' = IF psd.mask # {} THEN Decreased(psd) ELSE psd
  /\ pc' = "sis"
  /\ UNCHANGED <<queues, fill, got, statusChk, sis, pty, acq, progNum, slot, input, core, told, view,
                 quiet, missed, left>>

PsdLook ==
  /\ pc = "psd" /\ PsdDue /\ Wanted # {}
  /\ fill' = Wanted /\ got' = Wanted
  /\ psd' = [psd EXCEPT !.notify = FALSE]
  /\ core' = IF psd.notify THEN [core EXCEPT !.enabled = TRUE] ELSE core
  /\ pc' = "fill"
  /\ UNCHANGED <<queues, statusChk, sis, pty, acq, progNum, slot, input, told, view, quiet, missed, left>>

(* getPsd: the fields of a program are copied, then its flag is cleared,   *)
(* whatever has changed in between.                                        *)
FillPsd ==
  /\ pc = "fill"
  /\ \E p \in Programs : NextOf(fill, p) /\ slot' = [slot EXCEPT !.psd[p] = core.data[p]]
  /\ pc' = "clear"
  /\ UNCHANGED <<queues, fill, got, statusChk, psd, sis, pty, acq, progNum, input, core, told, view,
                 quiet, missed, left>>

ClearPsd ==
  /\ pc = "clear"
  /\ \E p \in Programs :
       /\ NextOf(fill, p)
       /\ core' = [core EXCEPT !.changed = @ \ {p}]
       /\ missed' = IF slot.psd[p] = core.data[p] THEN missed \ {p} ELSE missed \cup {p}
       /\ fill' = fill \ {p}
       /\ pc' = IF fill' = {} THEN "send" ELSE "fill"
  /\ UNCHANGED <<queues, got, statusChk, psd, sis, pty, acq, progNum, slot, input, told, view, quiet, left>>

PsdMessage(p) == [kind |-> "PSD", prog |-> p, gen |-> slot.psd[p].gen]

SendPsd ==
  /\ pc = "send"
  /\ \E p \in Programs :
       /\ NextOf(got, p)
       /\ appQ' = Append(appQ, PsdMessage(p))
       /\ got' = got \ {p}
  /\ IF got' # {} THEN UNCHANGED <<psd, quiet, pc>>
                  ELSE psd' = Decreased([psd EXCEPT !.chk = PSD]) /\ quiet' = 0 /\ pc' = "sis"
  /\ UNCHANGED <<svcQ, bbQ, radioQ, fill, statusChk, sis, pty, acq, progNum, slot, input, core, told,
                 view, missed, left>>

-----------------------------------------------------------------------------
(* ... and the station information.                                        *)

SisDue == sis.on /\ acq /\ sis.chk = 0

SisWait ==
  /\ pc = "sis" /\ ~(SisDue /\ core.acq)
  /\ sis' = [Decreased(sis) EXCEPT !.chk = IF sis.on THEN @ ELSE sis.chk,
                                   !.notify = IF SisDue THEN FALSE ELSE @]
  /\ pc' = "notify"
  /\ UNCHANGED <<queues, fill, got, statusChk, psd, pty, acq, progNum, slot, input, core, told, view,
                 quiet, missed, left>>

SisLook ==
  /\ pc = "sis" /\ SisDue /\ core.acq
  /\ sis' = [sis EXCEPT !.notify = FALSE]
  /\ pc' = "copy"
  /\ UNCHANGED <<queues, fill, got, statusChk, psd, pty, acq, progNum, slot, input, core, told, view,
                 quiet, missed, left>>

(* The slot is zeroed and filled; data that went away between the two      *)
(* questions is not sent.                                                  *)
SisCopy ==
  /\ pc = "copy"
  /\ IF core.acq
       THEN /\ appQ' = Append(appQ, [kind |-> "SIS", gen |-> core.gen])
            /\ sis' = Decreased([sis EXCEPT !.chk = SIS])
       ELSE UNCHANGED <<appQ, sis>>
  /\ pc' = "notify"
  /\ UNCHANGED <<svcQ, bbQ, radioQ, fill, got, statusChk, psd, pty, acq, progNum, slot, input, core, told,
                 view, quiet, missed, left>>

-----------------------------------------------------------------------------
(* notifyHandler: up to BURST notifications go to the callback, which      *)
(* keeps NOTIFY_TUNE to itself and queues the others for the radio.        *)

HandedOver == IF Len(appQ) < BURST THEN Len(appQ) ELSE BURST
Burst == SubSeq(appQ, 1, HandedOver)

Kept(m) == m.kind # "TUNE"

Notify ==
  /\ pc = "notify" /\ Len(radioQ) <= LAG
  /\ radioQ' = radioQ \o SelectSeq(Burst, Kept)
  /\ LET tunes == {Burst[i].gen : i \in {j \in 1 .. HandedOver : ~Kept(Burst[j])}} IN
     \E g \in {told} \cup tunes : (\A h \in {told} \cup tunes : h <= g) /\ told' = g
  /\ appQ' = SubSeq(appQ, HandedOver + 1, Len(appQ))
  /\ quiet' = IF quiet < PSD THEN quiet + 1 ELSE PSD
  /\ pc' = "message"
  /\ UNCHANGED <<svcQ, bbQ, fill, got, statusChk, psd, sis, pty, acq, progNum, slot, input, core, view,
                 missed, left>>

-----------------------------------------------------------------------------
(* The radio's service thread hands the pointer to the application, which  *)
(* follows it.                                                             *)

ReadBy(m) ==
  CASE m.kind = "PSD"    -> [view EXCEPT !.psd[m.prog] = IF pc = "fill" /\ NextOf(fill, m.prog)
                                                           THEN Torn ELSE slot.psd[m.prog]]
    [] m.kind = "SIS"    -> view
    [] m.kind = "SIGNAL" -> [view EXCEPT !.signal = IF pc = "status" /\ statusChk = 0
                                                      THEN Torn ELSE slot.signal]
    [] m.kind = "PTY"    -> [view EXCEPT !.pty[m.prog] = m.value]

Deliver ==
  /\ radioQ # <<>>
  /\ view' = ReadBy(Head(radioQ))
  /\ radioQ' = Tail(radioQ)
  /\ UNCHANGED <<svcQ, bbQ, appQ, thread, progNum, slot, input, core, told, quiet, missed, left>>

-----------------------------------------------------------------------------
Pass == \/ NoMessage \/ EventSetTune \/ NotifyTune \/ EventEnablePsd \/ EventEnableSis
        \/ StatusWait \/ StatusRead \/ StatusReport
        \/ PsdWait \/ PsdLook \/ FillPsd \/ ClearPsd \/ SendPsd
        \/ SisWait \/ SisLook \/ SisCopy
        \/ Notify

Input == SetTuneStore \/ Reacquire \/ TuneDone

Next == \/ \E mask \in SUBSET Programs : EnablePsdNotification(mask)
        \/ \E en \in BOOLEAN : EnableSisNotification(en)
        \/ \E f \in Freqs : SetTune(f)
        \/ \E p \in Programs : SetProgram(p) \/ ReceivePsd(p)
        \/ Input \/ Reacquired \/ Acquire \/ Lose
        \/ Pass \/ Deliver

(* The threads loop for ever, and a reacquisition ends.                    *)
Fairness == WF_vars(Pass) /\ WF_vars(Input) /\ WF_vars(Deliver) /\ WF_vars(Reacquired)

Spec == Init /\ [][Next]_vars

FairSpec == Spec /\ Fairness

-----------------------------------------------------------------------------

(* busyFlag says that a reacquisition is under way.                        *)
BusyMeansReacquiring == busy => core.reacq

(* Once the callback has been told of a tuning, or has been queued the     *)
(* word of it, nothing that was read of an earlier station follows: the    *)
(* base band thread answers after the core has let go of the old station,  *)
(* and the service thread queues what it read before it takes the answer.  *)
NothingOldAfterTune ==
  \A j \in DOMAIN appQ :
    /\ appQ[j].gen >= told
    /\ \A i \in 1 .. j : appQ[i].kind = "TUNE" => appQ[j].gen >= appQ[i].gen

(* The slots of PSD are left alone for PSD passes after they were sent,    *)
(* and after a tune request, whatever is asked for in between: a reader    *)
(* that follows its pointer in that time finds what was sent.              *)
PsdHeld == [][slot'.psd # slot.psd => quiet >= PSD]_vars

(* The application ends up with the last PSD of every program asked for    *)
(* while the station is received, although flags, slots and queues belong  *)
(* to different threads -- unless the change came between the copy and the *)
(* clearing of its flag (missed), or the slot was read while written.      *)
PsdShown ==
  <>[](\A p \in psd.mask : (core.acq /\ core.data[p].n > 0)
        => view.psd[p] \in {core.data[p], Torn} \/ p \in missed)

(* The application ends up with the state of the signal, although the slot *)
(* is rewritten at every look and only a change is notified (unless it     *)
(* read the slot while it was written), and with the type of the program   *)
(* that plays, although types are cached per program, the cache outlives a *)
(* retuning and the program is changed on another thread.                  *)
SignalShown == <>[](/\ view.signal = Torn \/ view.signal.acq = core.acq
                    /\ core.acq => view.pty[progNum] = Pty[core.freq][progNum])
=============================================================================
