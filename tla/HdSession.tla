----------------------------- MODULE HdSession ------------------------------
(***************************************************************************)
(* Opening, closing and recovering the HD radio framework.  An opening is  *)
(* asynchronous: tchdr_open queues it for the service thread, which hands  *)
(* it to the base band input thread; that opens the drivers and answers,   *)
(* and the service marks the framework open.  Closing is done by the       *)
(* application's thread itself.  An input driver that reports an overrun   *)
(* is closed and opened again by the base band input thread, some loops    *)
(* later.  (hd/src/api/tchdr_api.c, hd/src/mw/tchdr_service.c,             *)
(* hd/src/framework/tchdr_bbinput.c, peri/src/i2s.)                        *)
(*                                                                         *)
(* One instance, its IQ driver and the analog audio driver.  A call of a   *)
(* driver is one step; so is each function of the framework below.         *)
(***************************************************************************)
EXTENDS Integers, Sequences, SequencesExt

CONSTANTS OPENS,     \* bound on the openings the application asks for
          EVENTS,    \* bound on its tunings and the drivers' overruns together
          DELAY      \* loops before a recovery (bbinput_reset_counter, 3)

ASSUME SessionAssumption == OPENS \in Nat /\ EVENTS \in Nat /\ DELAY \in Nat

Inputs == {"iq", "aud"}

OpenSteps    == <<"conditions", "framework", "openIq", "closeIq", "openIq", "openAud", "startAud", "startIq">>
RecoverSteps == <<"closeAud", "closeIq", "clear", "openAud", "openIq", "startAud", "startIq", "startAll">>
CloseSteps   == <<"closeIq", "closeBb", "closeAud">>

Answers == {"OPENED", "REFUSED"}
Asks    == {"OPEN", "TUNE"}

VARIABLES open,      \* stTcHdrService.fOpen
          asked,     \* openings accepted by tchdr_open
          told,      \* openings the application has an answer for
          tunes,     \* stations tuned to
          svcQ,      \* the queue of the service thread
          svc,       \* the message it handles, or "none"
          bbQ,       \* the queue of the base band input thread
          bb,        \* what that thread is doing
          todo,      \* the steps it has still to do for it
          due,       \* loops to the recovery plus one, 0 when none is due
          closing,   \* the steps the application has still to do to close
          needed,    \* numInputSamplesNeeded[0] > 0
          samples,   \* iqReadBuffer has enough for the base band thread
          start,     \* fIqInputThreadStart, fAudioInputThreadStart, fBbInputThreadStart
          dev,       \* the drivers
          reader,    \* where the input threads are
          xruns,     \* overruns so far
          refused,   \* a driver did not open since the last opening began
          stray,     \* drivers were opened for a framework that is being or has been closed
          late       \* a change of band came to a framework that is closed or stray

queues   == <<svcQ, svc, bbQ>>
calls    == <<asked, told, tunes>>
thread   == <<bb, todo, due>>
inputs   == <<reader, xruns>>
hardware == <<start, dev>>
buffer   == <<needed, samples>>
history  == <<refused, stray, late>>
vars == <<open, closing, queues, calls, thread, inputs, hardware, buffer, history>>

TypeOK ==
  /\ open \in BOOLEAN /\ needed \in BOOLEAN /\ samples \in BOOLEAN
  /\ refused \in BOOLEAN /\ stray \in BOOLEAN /\ late \in BOOLEAN
  /\ asked \in 0 .. OPENS /\ told \in 0 .. asked /\ tunes \in 0 .. EVENTS /\ xruns \in 0 .. EVENTS
  /\ svcQ \in Seq(Answers \cup Asks \cup {"TUNED"}) /\ svc \in Answers \cup Asks \cup {"TUNED", "none"}
  /\ bbQ \in Seq(Asks \cup {"DELAY_RESET"})
  /\ bb \in {"events", "opening", "tuning", "reset", "recovering", "samples"}
  /\ IsSuffix(todo, OpenSteps) \/ IsSuffix(todo, RecoverSteps)
  /\ due \in 0 .. DELAY + 1
  /\ IsSuffix(closing, CloseSteps)
  /\ start \in [Inputs \cup {"bb"} -> BOOLEAN]
  /\ dev \in [Inputs -> {"closed", "open", "started"}]
  /\ reader \in [Inputs -> {"idle", "reading", "read"}]

Init ==
  /\ open = FALSE /\ asked = 0 /\ told = 0 /\ tunes = 0
  /\ svcQ = <<>> /\ svc = "none" /\ bbQ = <<>>
  /\ bb = "events" /\ todo = <<>> /\ due = 0 /\ closing = <<>>
  /\ needed = FALSE /\ samples = FALSE
  /\ start = [i \in Inputs \cup {"bb"} |-> FALSE]
  /\ dev = [i \in Inputs |-> "closed"]
  /\ reader = [i \in Inputs |-> "idle"]
  /\ xruns = 0 /\ refused = FALSE /\ stray = FALSE /\ late = FALSE

-----------------------------------------------------------------------------
(* The drivers (dev_iq_i2s.c, dev_blend_audio_i2s.c).  Opening an open     *)
(* driver and starting a closed one do nothing and report success.         *)

(* Wrong variant: a close that only closes a driver that was never started. *)
LeftRunning(i) == [dev EXCEPT ![i] = IF @ = "started" THEN @ ELSE "closed"]

Opened(i)    == [dev EXCEPT ![i] = IF @ = "closed" THEN "open" ELSE @]
Started(i)   == [dev EXCEPT ![i] = IF @ = "closed" THEN @ ELSE "started"]
ClosedDev(i) == [dev EXCEPT ![i] = "closed"]
CanFail(i)   == dev[i] = "closed"

-----------------------------------------------------------------------------
(* tchdr_open and tchdr_close, called by one thread of the application.    *)
(* While it closes, that thread holds the mutex of the service's queue.    *)

MutexFree == closing = <<>>

Open == /\ MutexFree /\ ~open /\ asked < OPENS
        /\ asked' = asked + 1
        /\ svcQ' = Append(svcQ, "OPEN")
        /\ UNCHANGED <<open, told, tunes, svc, bbQ, thread, closing, buffer, hardware, inputs, history>>

(* tchdr_setTune. *)
TchdrSetTune == /\ MutexFree /\ open /\ tunes + xruns < EVENTS
                /\ tunes' = tunes + 1
                /\ svcQ' = Append(svcQ, "TUNE")
                /\ UNCHANGED <<open, asked, told, svc, bbQ, thread, closing, buffer, hardware, inputs, history>>

Close == /\ MutexFree /\ open
         /\ open' = FALSE
         /\ closing' = CloseSteps
         /\ stray' = (stray \/ asked # told \/ bb = "recovering")
         /\ UNCHANGED <<calls, queues, thread, buffer, hardware, inputs, refused, late>>

TchdriqinputClose == /\ Head(closing) = "closeIq"
                     /\ start' = [start EXCEPT !["iq"] = FALSE]
                     /\ dev' = ClosedDev("iq")
                     /\ UNCHANGED buffer

TchdrbbinputClose == /\ Head(closing) = "closeBb"
                     /\ start' = [start EXCEPT !["bb"] = FALSE]
                     /\ needed' = FALSE /\ samples' = FALSE
                     /\ UNCHANGED dev

TchdraudinputClose == /\ Head(closing) = "closeAud"
                      /\ start' = [start EXCEPT !["aud"] = FALSE]
                      /\ dev' = ClosedDev("aud")
                      /\ UNCHANGED buffer

CloseThreads == /\ closing # <<>>
                /\ closing' = Tail(closing)
                /\ TchdriqinputClose \/ TchdrbbinputClose \/ TchdraudinputClose
                /\ UNCHANGED <<open, calls, queues, thread, inputs, history>>

-----------------------------------------------------------------------------
(* The service thread, tchdrsvc_mainThread.  It handles a message after it *)
(* has let go of the mutex.                                                *)

SvcTake == /\ svc = "none" /\ svcQ # <<>> /\ MutexFree
           /\ svc' = Head(svcQ) /\ svcQ' = Tail(svcQ)
           /\ UNCHANGED <<open, calls, bbQ, thread, closing, buffer, hardware, inputs, history>>

EventOpen == /\ svc = "OPEN"
             /\ IF open THEN told' = told + 1 /\ UNCHANGED bbQ
                        ELSE bbQ' = Append(bbQ, "OPEN") /\ UNCHANGED told
             /\ svc' = "none"
             /\ UNCHANGED <<open, asked, tunes, svcQ, thread, closing, buffer, hardware, inputs, history>>

EventSetTune == /\ svc = "TUNE"
                /\ bbQ' = IF open THEN Append(bbQ, "TUNE") ELSE bbQ
                /\ svc' = "none"
                /\ UNCHANGED <<open, calls, svcQ, thread, closing, buffer, hardware, inputs, history>>

NotifyTune == /\ svc = "TUNED" /\ svc' = "none"
              /\ UNCHANGED <<open, calls, svcQ, bbQ, thread, closing, buffer, hardware, inputs, history>>

(* The framework is marked open whether it opened or not, so that it can   *)
(* be closed.                                                              *)
NotifyOpen == /\ svc \in Answers
              /\ open' = TRUE
              /\ told' = told + 1
              /\ svc' = "none"
              /\ UNCHANGED <<asked, tunes, svcQ, bbQ, thread, closing, buffer, hardware, inputs, history>>

-----------------------------------------------------------------------------
(* The base band input thread: a message, a recovery when it is due, then  *)
(* a block of samples, for which it waits as long as it takes.             *)

NoMessage == /\ bb = "events" /\ bbQ = <<>>
             /\ bb' = "reset"
             /\ UNCHANGED <<open, calls, queues, todo, due, closing, buffer, hardware, inputs, history>>

BeginOpen == /\ bb = "events" /\ bbQ # <<>> /\ Head(bbQ) = "OPEN"
             /\ bbQ' = Tail(bbQ)
             /\ bb' = "opening" /\ todo' = OpenSteps
             /\ refused' = FALSE /\ stray' = (closing # <<>>) /\ late' = FALSE
             /\ UNCHANGED <<open, calls, svcQ, svc, due, closing, buffer, hardware, inputs>>

DelayReset == /\ bb = "events" /\ bbQ # <<>> /\ Head(bbQ) = "DELAY_RESET"
              /\ bbQ' = Tail(bbQ)
              /\ due' = IF due = 0 THEN DELAY + 1 ELSE due
              /\ bb' = "reset"
              /\ UNCHANGED <<open, calls, svcQ, svc, todo, closing, buffer, hardware, inputs, history>>

(* A change of band or sample rate sets the block size anew. *)
NewBlockSize == /\ needed' = TRUE /\ samples' \in {samples, FALSE}
                /\ late' = (late \/ ~open \/ stray)

(* The thread does not look whether the framework is still open.           *)
SetTune == /\ bb = "events" /\ bbQ # <<>> /\ Head(bbQ) = "TUNE"
           /\ bbQ' = Tail(bbQ)
           /\ bb' = "tuning"
           /\ NewBlockSize \/ UNCHANGED <<buffer, late>>
           /\ UNCHANGED <<open, calls, svcQ, svc, todo, due, closing, hardware, inputs, refused, stray>>

AnswerTune == /\ bb = "tuning" /\ MutexFree
              /\ svcQ' = Append(svcQ, "TUNED")
              /\ bb' = "reset"
              /\ UNCHANGED <<open, calls, svc, bbQ, todo, due, closing, buffer, hardware, inputs, history>>

Conditions == /\ Head(todo) = "conditions"
              /\ needed' = TRUE /\ samples' = FALSE
              /\ UNCHANGED hardware

Framework == /\ Head(todo) = "framework"
             /\ UNCHANGED <<buffer, hardware>>

ClearBuffers == /\ Head(todo) = "clear"
                /\ samples' = FALSE
                /\ UNCHANGED <<needed, hardware>>

OpenDriver == \E i \in Inputs :
                /\ Head(todo) = IF i = "iq" THEN "openIq" ELSE "openAud"
                /\ dev' = Opened(i)
                /\ UNCHANGED <<buffer, start>>

CloseDriver == \E i \in Inputs :
                 /\ Head(todo) = IF i = "iq" THEN "closeIq" ELSE "closeAud"
                 /\ dev' = ClosedDev(i)
                 /\ start' = [start EXCEPT ![i] = FALSE]
                 /\ UNCHANGED buffer

StartDriver == \E i \in Inputs :
                 /\ Head(todo) = IF i = "iq" THEN "startIq" ELSE "startAud"
                 /\ dev' = Started(i)
                 /\ start' = [start EXCEPT ![i] = TRUE]
                 /\ UNCHANGED buffer

StartAll == /\ Head(todo) = "startAll"
            /\ start' = [start EXCEPT !["iq"] = TRUE, !["aud"] = TRUE]
            /\ UNCHANGED <<buffer, dev>>

Step == /\ todo # <<>>
        /\ todo' = Tail(todo)
        /\ \/ Conditions \/ Framework \/ ClearBuffers
           \/ OpenDriver \/ CloseDriver \/ StartDriver \/ StartAll
        /\ UNCHANGED <<open, calls, queues, bb, due, closing, inputs, history>>

(* A driver does not open, or the core refuses the band.  An opening ends  *)
(* there, a recovery does not look.                                        *)
CanRefuse(step) == \/ step = "openIq" /\ CanFail("iq")
                   \/ step = "openAud" /\ CanFail("aud")
                   \/ step = "framework"

Refuse == /\ todo # <<>> /\ CanRefuse(Head(todo))
          /\ refused' = TRUE
          /\ todo' = IF bb = "opening" THEN <<>> ELSE Tail(todo)
          /\ UNCHANGED <<open, calls, queues, bb, due, closing, buffer, hardware, inputs, stray, late>>

Answer == /\ bb = "opening" /\ todo = <<>> /\ MutexFree
          /\ svcQ' = Append(svcQ, IF refused THEN "REFUSED" ELSE "OPENED")
          /\ bb' = "reset"
          /\ UNCHANGED <<open, calls, svc, bbQ, todo, due, closing, buffer, hardware, inputs, history>>

(* The loops left. *)
Counted == IF due = 0 THEN 0 ELSE due - 1

CountDown == /\ bb = "reset" /\ due # 1
             /\ due' = Counted
             /\ bb' = "samples"
             /\ UNCHANGED <<open, calls, queues, todo, closing, buffer, hardware, inputs, history>>

BeginRecovery == /\ bb = "reset" /\ due = 1
                 /\ due' = 0
                 /\ bb' = "recovering" /\ todo' = RecoverSteps
                 /\ start' = [i \in Inputs \cup {"bb"} |-> FALSE]
                 /\ stray' = (stray \/ ~open)
                 /\ UNCHANGED <<open, calls, queues, closing, buffer, dev, inputs, refused, late>>

EndRecovery == /\ bb = "recovering" /\ todo = <<>>
               /\ bb' = "samples"
               /\ UNCHANGED <<open, calls, queues, todo, due, closing, buffer, hardware, inputs, history>>

(* The block it wants is not there; and, wrongly, wanted even when the     *)
(* framework has never been opened.                                        *)
StarvedAlways == ~(open /\ start["bb"] /\ samples)
Starved       == needed /\ ~(open /\ start["bb"] /\ samples)

ReadSamples == /\ bb = "samples" /\ ~Starved
               /\ samples' = FALSE
               /\ bb' = "events"
               /\ UNCHANGED <<open, calls, queues, todo, due, closing, needed, hardware, inputs, history>>

-----------------------------------------------------------------------------
(* tchdr_rfIqInputThread and tchdr_audioInputThread. *)

BeginRead(i) == /\ reader[i] = "idle" /\ open /\ start[i]
                /\ i = "iq" => needed
                /\ reader' = [reader EXCEPT ![i] = "reading"]
                /\ UNCHANGED <<open, calls, queues, thread, closing, buffer, hardware, xruns, history>>

(* Only the samples of the IQ driver are of interest here. *)
ReadDone(i) == /\ reader[i] = "reading"
               /\ LET good == i = "iq" /\ dev[i] = "started" IN
                    /\ reader' = [reader EXCEPT ![i] = IF good THEN "read" ELSE "idle"]
                    /\ samples' = (samples \/ good)
               /\ UNCHANGED <<open, calls, queues, thread, closing, needed, hardware, xruns, history>>

Overrun(i) == /\ reader[i] = "reading" /\ dev[i] = "started" /\ tunes + xruns < EVENTS
              /\ xruns' = xruns + 1
              /\ bbQ' = Append(bbQ, "DELAY_RESET")
              /\ reader' = [reader EXCEPT ![i] = "idle"]
              /\ UNCHANGED <<open, calls, svcQ, svc, thread, closing, buffer, hardware, history>>

SetBbStart == /\ reader["iq"] = "read"
              /\ start' = [start EXCEPT !["bb"] = TRUE]
              /\ reader' = [reader EXCEPT !["iq"] = "idle"]
              /\ UNCHANGED <<open, calls, queues, thread, closing, buffer, dev, xruns, history>>

-----------------------------------------------------------------------------
ServiceThread == SvcTake \/ EventOpen \/ NotifyOpen \/ EventSetTune \/ NotifyTune
BbInputThread == \/ NoMessage \/ BeginOpen \/ DelayReset \/ SetTune \/ AnswerTune \/ Step \/ Refuse \/ Answer
                 \/ CountDown \/ BeginRecovery \/ EndRecovery \/ ReadSamples
InputThread(i) == BeginRead(i) \/ ReadDone(i) \/ Overrun(i)

Next == \/ Open \/ TchdrSetTune \/ Close \/ CloseThreads
        \/ ServiceThread \/ BbInputThread
        \/ \E i \in Inputs : InputThread(i)
        \/ SetBbStart

Spec == Init /\ [][Next]_vars

(* The threads run, a call that has begun goes on, and a driver that is    *)
(* started delivers.  Nothing makes the application call.                  *)
FairSpec == /\ Spec
            /\ WF_vars(ServiceThread) /\ WF_vars(BbInputThread) /\ WF_vars(CloseThreads)
            /\ \A i \in Inputs : WF_vars(InputThread(i))
            /\ WF_vars(SetBbStart)

-----------------------------------------------------------------------------
Settled == closing = <<>> /\ asked = told /\ bb \notin {"opening", "recovering"}

(* The drivers agree with the framework's flag, however a close fell       *)
(* between the steps of the others: a framework that is closed, with no    *)
(* opening on its way, has closed its drivers and started no input thread, *)
(* and one that is open, and whose drivers opened when told to, has both   *)
(* of them running and its input threads started, also after a recovery -  *)
(* unless a recovery or a further opening was under way at a close or came *)
(* after it.                                                               *)
DriversAgree ==
  Settled /\ ~stray =>
    \A i \in Inputs : /\ ~open => dev[i] = "closed" /\ ~start[i]
                      /\ open /\ ~refused => dev[i] = "started" /\ start[i]

(* Every opening is answered at last, however it meets closes, overruns    *)
(* and other openings - or a driver or the core refused, and the base band *)
(* thread waits for ever for samples of an input that does not run, deaf   *)
(* to its queue until the application closes; or a tuning that met a close *)
(* made it wait so for a framework whose inputs are closed, for good when  *)
(* no close is to come.                                                    *)
OpeningsAnswered == []<>(asked = told) \/ <>[](bb = "samples" /\ Starved /\ (refused \/ late))

(* "To prevent it from becoming 1 when the framework is closed", says the  *)
(* comment at the setting of fBbInputThreadStart, of the test of the       *)
(* result of the read: it is not set in a framework that has been closed.  *)
NotSetWhenClosed == [][~start["bb"] /\ start'["bb"] => open \/ closing # <<>>]_vars
=============================================================================
