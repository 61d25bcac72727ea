------------------------------- MODULE BgScan -------------------------------
(***************************************************************************)
(* The background scan, mw/src/bg/tcradio_bg.c: a thread of its own keeps  *)
(* a list of the stations of a waveband with the secondary tuner.  It      *)
(* scans the band once, has the list given to the application, pauses, and *)
(* scans again.  The application starts and stops it through a queue, and  *)
(* closes and opens the radio, and tunes the secondary tuner, meanwhile;   *)
(* the list is given to it by the service thread, which reads the scan's   *)
(* variables when it gets to it.                                           *)
(*                                                                         *)
(* An iteration of the thread is two steps: the message, then the state.   *)
(* The seek mode is eRADIO_SEEK_SCAN_STATION in the states of a scan and   *)
(* eRADIO_SEEK_STOP in the others, so the state stands for both.           *)
(***************************************************************************)
EXTENDS Band, SequencesExt

CONSTANTS Bands, FM, Default,  \* the wavebands of a scan, FM and another (AM)
          Conf,                \* Conf[b]: the fixed configuration of a band
          Initial,             \* Initial[b]: frequencies the radio is opened with
          CALLS,               \* bound on the calls of the application
          STATIONS,            \* _AmFmDBSize
          SETTLE,              \* iterations until the quality must be there
          PAUSE,               \* BG_WAIT_TIME_BGRESTART
          FOUND,               \* bound on the count of stations: a pass that cannot end counts on
          None                 \* no frequency, no band, no list

ASSUME BgAssumption ==
  /\ Bands = {FM, Default} /\ None \notin Nat /\ None \notin Bands
  /\ \A b \in Bands : IsBand(Conf[b]) /\ Initial[b] \subseteq Nat
  /\ CALLS \in Nat /\ STATIONS \in Nat /\ SETTLE \in Nat
  /\ PAUSE \in Nat /\ FOUND \in Nat /\ FOUND >= STATIONS

VARIABLES
  opened,                \* the radio: "no", "asked" or "yes"
  queue, bgCalls,        \* messages to the thread; calls of the application so far
  pc,                    \* where the thread is in its loop
  state,                 \* eBGState
  bgBand, freq, startFreq, \* curBand, curFreq, curStartFreq
  found,                 \* curBGResult
  list,                  \* _stBGStationList, as long as uiBGStationListCounter
  settle, pause,         \* uiBGStateCnt, uiBGRestartCnt
  tuner,                 \* <<band, frequency>> of the secondary tuner
  pending, listTold,     \* a list to be given to the application; the last one given
  fresh,                 \* the radio has not been opened since this pass began
  foreign,               \* the tuner was tuned or closed by others since the scan last tuned it
  quiet                  \* the last command the thread handled was to stop

radio     == <<opened, bgCalls>>
timers    == <<settle, pause>>
position  == <<bgBand, freq, startFreq>>
result    == <<found, list>>
tunerVars == <<tuner, foreign>>
listing   == <<pending, listTold>>
bgVars    == <<radio, queue, pc, state, position, result, timers, tunerVars, listing, fresh, quiet>>

Judging == {"prechk", "status", "chk"}
Scanning == {"start", "set_freq", "stop"} \cup Judging
Messages == [cmd : {"open"}, band : Bands, freq : Nat]
              \cup [cmd : {"start"}, band : Bands] \cup [cmd : {"stop"}]

BgTypeOK ==
  /\ opened \in {"no", "asked", "yes"} /\ bgCalls \in 0 .. CALLS
  /\ queue \in Seq(Messages) /\ pc \in {"message", "state"}
  /\ state \in Scanning \cup {"on_air", "wait"}
  /\ bgBand \in Bands \cup {None} /\ freq \in Nat \cup {None} /\ startFreq \in Nat
  /\ state \in Scanning \cup {"wait"} => bgBand # None /\ freq # None
  /\ found \in 0 .. FOUND /\ list \in Seq(Nat) /\ Len(list) <= STATIONS
  /\ settle \in 0 .. SETTLE /\ pause \in 0 .. PAUSE
  /\ pending \in BOOLEAN /\ fresh \in BOOLEAN /\ foreign \in BOOLEAN /\ quiet \in BOOLEAN

BgInit ==
  /\ opened = "no" /\ queue = <<>> /\ bgCalls = 0 /\ pc = "message"
  /\ state = "on_air" /\ bgBand = None /\ freq = None /\ startFreq = 0
  /\ found = 0 /\ list = <<>> /\ settle = 0 /\ pause = 0
  /\ tuner = None /\ pending = FALSE /\ listTold = None
  /\ fresh = FALSE /\ foreign = TRUE /\ quiet = FALSE

-----------------------------------------------------------------------------
(* The application, and the service thread on its behalf. *)

Call == /\ bgCalls < CALLS
        /\ bgCalls' = bgCalls + 1
        /\ UNCHANGED <<pc, state, position, result, timers, listing, fresh, quiet>>

Send(m) == Call /\ queue' = Append(queue, m) /\ UNCHANGED tunerVars

OpenRadio == /\ opened # "yes" /\ opened' = "asked"
             /\ \E b \in Bands : \E f \in Initial[b] :
                  Send([cmd |-> "open", band |-> b, freq |-> f])

BgStart == /\ opened = "yes" /\ UNCHANGED opened
           /\ \E b \in Bands : Send([cmd |-> "start", band |-> b])

BgStop == opened = "yes" /\ UNCHANGED opened /\ Send([cmd |-> "stop"])

(* The scan is not told that the radio closes, and goes on. *)
CloseRadio == /\ Call /\ opened = "yes"
              /\ opened' = "no" /\ tuner' = None /\ foreign' = TRUE
              /\ UNCHANGED queue

TuneSecondary == /\ Call /\ opened = "yes"
                 /\ \E b \in Bands : \E f \in Initial[b] : tuner' = <<b, f>>
                 /\ foreign' = TRUE
                 /\ UNCHANGED <<opened, queue>>

(* The service's opening of the tuners succeeds or fails. *)
ServiceOpens == /\ opened = "asked" /\ opened' \in {"yes", "no"}
                /\ UNCHANGED <<bgCalls, queue, pc, state, position, result, timers, tunerVars,
                               listing, fresh, quiet>>

(* callbackAppFunction: the number and the list as they are now (of the
   list, its length). *)
GiveList == /\ pending /\ pending' = FALSE
            /\ listTold' = [total |-> found, listed |-> Len(list)]
            /\ UNCHANGED <<radio, queue, pc, state, position, result, timers, tunerVars, fresh, quiet>>

-----------------------------------------------------------------------------
(* tcradiobg_appMessageParser and tcradiobg_eventHandler.  A driver that   *)
(* is closed does not tune.                                                *)

Tune(b, f) == IF opened = "yes" THEN tuner' = <<b, f>> /\ foreign' = FALSE
                                ELSE UNCHANGED tunerVars

TakeMessage(cmd) == /\ pc = "message" /\ queue # <<>> /\ Head(queue).cmd = cmd
                    /\ queue' = Tail(queue)
                    /\ pc' = "state"
                    /\ UNCHANGED <<radio, timers, listing>>

TakeNothing == /\ pc = "message" /\ queue = <<>>
               /\ pc' = "state"
               /\ UNCHANGED <<radio, queue, state, position, result, timers, tunerVars, listing,
                              fresh, quiet>>

TakeOpened == /\ TakeMessage("open")
              /\ bgBand' = Head(queue).band /\ freq' = Head(queue).freq
              /\ fresh' = FALSE
              /\ UNCHANGED <<state, startFreq, result, tunerVars, quiet>>

(* Wrong variants: a start that keeps the count; a stop that does not stop *)
(* the scan.                                                               *)
KeptCount      == found
StateUntouched == state

StartState   == "start"
EmptyList    == <<>>
NoneFound    == 0
StoppedState == "on_air"

(* initSeek: from the current frequency, moved onto the band's grid. *)
TakeStart == LET b == Head(queue).band
                 f == Align(Conf[b], freq, FALSE) IN
  /\ TakeMessage("start")
  /\ bgBand' = b /\ freq' = f /\ startFreq' = f
  /\ found' = NoneFound /\ list' = EmptyList
  /\ state' = StartState
  /\ fresh' = TRUE /\ quiet' = FALSE
  /\ UNCHANGED tunerVars

(* stopBG: back to where the scan began. *)
TakeStop == /\ TakeMessage("stop")
            /\ freq' = startFreq
            /\ Tune(bgBand, startFreq)
            /\ state' = StoppedState
            /\ quiet' = TRUE
            /\ UNCHANGED <<bgBand, startFreq, result, fresh>>

-----------------------------------------------------------------------------
(* tcradiobg_stateHandler. *)

Less(n) == IF n > 0 THEN n - 1 ELSE 0

Handle(s, t) == /\ pc = "state" /\ state \in s
                /\ pc' = "message"
                /\ state' = t
                /\ UNCHANGED <<radio, queue, listTold, quiet>>

OnAir == /\ Handle({"on_air"}, "on_air")
         /\ settle' = Less(settle) /\ pause' = Less(pause)
         /\ UNCHANGED <<position, result, tunerVars, pending, fresh>>

SetFreq == LET f == NextFreq(Conf[bgBand], freq, FALSE) IN
  /\ Handle({"start", "set_freq"}, "prechk")
  /\ freq' = f /\ Tune(bgBand, f)
  /\ settle' = Less(settle) /\ pause' = Less(pause)
  /\ UNCHANGED <<bgBand, startFreq, result, pending, fresh>>

(* The pass is over when it is back where it began. *)
NextState == IF freq = startFreq THEN "stop" ELSE "set_freq"

NoSignal == /\ Handle({"prechk", "chk"}, NextState)
            /\ settle' = Less(settle) /\ pause' = Less(pause)
            /\ UNCHANGED <<position, result, tunerVars, pending, fresh>>

Signal == /\ Handle({"prechk"}, "status")
          /\ settle' = SETTLE /\ pause' = Less(pause)
          /\ UNCHANGED <<position, result, tunerVars, pending, fresh>>

QualityThere == /\ Handle({"status"}, "chk")
                /\ settle' = Less(settle) /\ pause' = Less(pause)
                /\ UNCHANGED <<position, result, tunerVars, pending, fresh>>

NotSettled == /\ Less(settle) > 0
              /\ Handle({"status"}, "status")
              /\ settle' = Less(settle) /\ pause' = Less(pause)
              /\ UNCHANGED <<position, result, tunerVars, pending, fresh>>

(* makeStationList. *)
Listed == IF Len(list) < STATIONS THEN Append(list, freq) ELSE list

(* The station at which the pass ends is listed and not counted. *)
Station == /\ Handle({"chk"}, NextState)
           /\ list' = Listed
           /\ found' = IF freq = startFreq \/ found = FOUND THEN found ELSE found + 1
           /\ settle' = Less(settle) /\ pause' = Less(pause)
           /\ UNCHANGED <<position, tunerVars, pending, fresh>>

EndPass == /\ Handle({"stop"}, "wait")
           /\ freq' = startFreq /\ Tune(bgBand, startFreq)
           /\ pending' = TRUE
           /\ settle' = Less(settle) /\ pause' = PAUSE
           /\ UNCHANGED <<bgBand, startFreq, result, fresh>>

Wait == /\ Less(pause) > 0
        /\ Handle({"wait"}, "wait")
        /\ settle' = Less(settle) /\ pause' = Less(pause)
        /\ UNCHANGED <<position, result, tunerVars, pending, fresh>>

(* setValueBGRestart: FM, or else AM. *)
Restart == LET c == Conf[IF bgBand = FM THEN FM ELSE Default] IN
  /\ Less(pause) = 0
  /\ Handle({"wait"}, "start")
  /\ freq' = c.start /\ startFreq' = c.start
  /\ found' = NoneFound /\ list' = EmptyList
  /\ settle' = Less(settle) /\ pause' = Less(pause)
  /\ fresh' = TRUE
  /\ UNCHANGED <<bgBand, tunerVars, pending>>

-----------------------------------------------------------------------------
Application == OpenRadio \/ BgStart \/ BgStop \/ CloseRadio \/ TuneSecondary
BgThread == \/ TakeNothing \/ TakeOpened \/ TakeStart \/ TakeStop
            \/ OnAir \/ SetFreq \/ NoSignal \/ Signal \/ QualityThere \/ NotSettled \/ Station
            \/ EndPass \/ Wait \/ Restart

BgNext == Application \/ ServiceOpens \/ GiveList \/ BgThread

BgSpec == BgInit /\ [][BgNext]_bgVars

(* The thread's loop goes on and the service thread reads its queue. *)
BgFairSpec == BgSpec /\ WF_bgVars(BgThread) /\ WF_bgVars(GiveList)

-----------------------------------------------------------------------------
(* A pass lists every station once, and only frequencies of the band it    *)
(* scans - also when it was started in the middle of another, or after one *)
(* that was stopped.  The number the application is told and the length of *)
(* the list differ by the station at which the pass ended, and by those a  *)
(* full list has no room for, and by nothing else.                         *)
StationsCounted ==
  fresh => /\ IsInjective(list) /\ ToSet(list) \subseteq Grid(Conf[bgBand])
           /\ \/ found = Len(list)
              \/ found = Len(list) - 1 /\ Last(list) = startFreq
              \/ Len(list) = STATIONS /\ found > STATIONS

(* After a stop the scan does not come back by itself, and the tuner is    *)
(* left where the scan had found it.                                       *)
StopRestores == quiet => /\ state = "on_air"
                         /\ fresh /\ ~foreign => tuner = <<bgBand, startFreq>>

(* Every pass ends, whatever the signals, however often it is started      *)
(* anew, and in a radio that has been closed, too - unless the radio was   *)
(* opened again under it.                                                  *)
PassEnds == []<>(state \notin Scanning \/ ~fresh)
=============================================================================
