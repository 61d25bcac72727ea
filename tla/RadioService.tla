---------------------------- MODULE RadioService ----------------------------
(***************************************************************************)
(* The radio service of the middleware: mw/src/service/tcradio_service.c   *)
(* with the calls of mw/src/tcradio_api.c that reach it.  The service      *)
(* thread is a loop: take one message, handle it, advance the seek by one  *)
(* step, give notifications to the application, sleep.  The application    *)
(* calls at any moment: most calls only queue a message, but the radio is  *)
(* closed, and the wavebands are configured, on the application's thread.  *)
(*                                                                         *)
(* The notifications of an iteration are given to the application in the   *)
(* same iteration, so "told" is what the last one said.                    *)
(***************************************************************************)
EXTENDS Band, Sequences

CONSTANTS FM, Bands,      \* wavebands; FM takes start frequencies in 10 kHz
          Configs,        \* Configs[b]: the configurations the application may set
          Defaults,       \* Defaults[b]: the one set by initVariable
          Tunable,        \* Tunable[b]: frequencies the application tunes to
          Starts,         \* start frequencies of a seek, 0 for the current one
          REQUESTS,       \* bound on the calls of the application
          STATIONS,       \* _AmFmDBSize
          WAIT,           \* iterations until the quality must be there
          TRIES,          \* uiCheckPiCnt
          LISTEN,         \* iterations a found station is played during a scan
          None            \* no frequency, no band

ManualSeeks == {"man_up", "man_down"}
AutoSeeks   == {"auto_up", "auto_down"}
Scans       == {"scan_station", "scan_pi"}
Seeks       == ManualSeeks \cup AutoSeeks \cup Scans
Modes       == Seeks \cup {"stop"}
Downs       == {"man_down", "auto_down"}

ASSUME RadioAssumption ==
  /\ FM \in Bands /\ None \notin Nat /\ None \notin Bands
  /\ Defaults \in [Bands -> UNION {Configs[b] : b \in Bands}]
  /\ \A b \in Bands : /\ \A c \in Configs[b] : IsBand(c)
                      /\ Defaults[b] \in Configs[b]
                      /\ Tunable[b] \subseteq Nat
  /\ Starts \subseteq Nat
  /\ REQUESTS \in Nat /\ STATIONS \in Nat /\ WAIT \in Nat /\ TRIES \in Nat
  /\ LISTEN \in Nat \ {0}

VARIABLES
  opened, closing,        \* fRadioOpened; the application is in tcradioservice_close
  config,                 \* the configuration of every band
  queue, requests,        \* messages to the service; calls so far
  pc,                     \* where the service thread is in its loop
  next,                   \* the seek that is being started
  step, mode,             \* eSeekStep, eSeekMode
  band, freq, startFreq,  \* curBand, curFreq, curStartFreq
  found,                  \* curSeekResult, which counts stations, is not 0
  wait, tries, listen,    \* uiSeek5msCnt, uiCheckPiCnt, curSeekListeningCount
  best,                   \* stScanPiFreq.uiFreq
  stations, listBand,     \* the station list, and the band it was made in
  listTx,                 \* fStationListTx
  tuner,                  \* [open, band, freq, muted] of the primary tuner
  told,                   \* what the last notification said
  judged, disturbed       \* frequencies this seek has judged; its band was changed under it

app      == <<opened, closing, config, queue, requests>>
counters == <<wait, tries, listen>>
list     == <<stations, listBand, listTx>>
seek     == <<step, mode, startFreq, found, counters, best, list, judged>>
vars     == <<app, pc, next, seek, band, freq, tuner, told, disturbed>>

Seeking == mode \in Seeks

Messages == [cmd : {"open", "tune"}, band : Bands, freq : Nat]
              \cup [cmd : {"seek"}, mode : Modes, start : Starts]

Init ==
  /\ opened = FALSE /\ closing = FALSE /\ config = Defaults
  /\ queue = <<>> /\ requests = 0
  /\ pc = "receive" /\ next = "stop"
  /\ step = "on_air" /\ mode = "stop"
  /\ band = None /\ freq = None /\ startFreq = None
  /\ found = FALSE /\ wait = 0 /\ tries = 0 /\ listen = 0 /\ best = None
  /\ stations = <<>> /\ listBand = None /\ listTx = FALSE
  /\ tuner = [open |-> FALSE, band |-> None, freq |-> None, muted |-> FALSE]
  /\ told = [band |-> None, freq |-> None, mode |-> "stop", list |-> None]
  /\ judged = {} /\ disturbed = FALSE

Tuner(o, b, f, m) == [open |-> o, band |-> b, freq |-> f, muted |-> m]
Told(b, f, m, l)  == [band |-> b, freq |-> f, mode |-> m, list |-> l]

-----------------------------------------------------------------------------
(* The application, one call at a time. *)

Send(m) == /\ ~closing /\ requests < REQUESTS
           /\ queue' = Append(queue, m) /\ requests' = requests + 1
           /\ UNCHANGED <<opened, closing, config, pc, next, seek, band, freq, tuner, told,
                           disturbed>>

Open == ~opened /\ \E b \in Bands : \E f \in Tunable[b] :
          Send([cmd |-> "open", band |-> b, freq |-> f])

SetTune == opened /\ \E b \in Bands : \E f \in Tunable[b] :
             Send([cmd |-> "tune", band |-> b, freq |-> f])

SetSeek == opened /\ \E m \in Modes, s \in Starts :
             Send([cmd |-> "seek", mode |-> m, start |-> s])

(* Refused while the mode is a seek; a seek whose mode is not yet set is   *)
(* not seen.                                                               *)
SetBandFreqConfig ==
  /\ ~closing /\ ~Seeking
  /\ \E b \in Bands : \E c \in Configs[b] :
       /\ c # config[b]
       /\ config' = [config EXCEPT ![b] = c]
       /\ disturbed' = (disturbed \/ (pc = "begin" /\ b = band))
  /\ UNCHANGED <<opened, closing, queue, requests, pc, next, seek, band, freq, tuner, told>>

(* tcradioservice_close: the tuner first, the flag after it. *)
BeginClose == /\ opened /\ ~closing
              /\ closing' = TRUE
              /\ tuner' = Tuner(FALSE, None, None, FALSE)
              /\ UNCHANGED <<opened, config, queue, requests, pc, next, seek, band, freq, told,
                              disturbed>>

EndClose == /\ closing
            /\ closing' = FALSE /\ opened' = FALSE
            /\ UNCHANGED <<config, queue, requests, pc, next, seek, band, freq, tuner, told,
                            disturbed>>

-----------------------------------------------------------------------------
(* The service thread takes a message and handles it. *)

Take(cmd) == /\ pc = "receive" /\ queue # <<>> /\ Head(queue).cmd = cmd
             /\ queue' = Tail(queue)
             /\ UNCHANGED <<closing, config, requests>>

ReceiveNothing == /\ pc = "receive" /\ queue = <<>>
                  /\ pc' = "seek"
                  /\ UNCHANGED <<app, next, seek, band, freq, tuner, told, disturbed>>

(* The tuner starts on the initial frequency; a seek that was going on     *)
(* when the radio was closed goes on.                                      *)
ReceiveOpen == LET m == Head(queue) IN
  /\ Take("open") /\ ~tuner.open
  /\ opened' = TRUE /\ pc' = "seek"
  /\ band' = m.band /\ freq' = m.freq
  /\ tuner' = Tuner(TRUE, m.band, m.freq, FALSE)
  /\ told' = Told(m.band, m.freq, told.mode, None)
  /\ disturbed' = (disturbed \/ Seeking)
  /\ UNCHANGED <<next, seek>>

(* The tuner is open already, or does not boot. *)
RefuseOpen == /\ Take("open")
              /\ pc' = "seek"
              /\ UNCHANGED <<opened, next, seek, band, freq, tuner, told, disturbed>>

(* A tune ends a seek, also when the tuner then refuses it. *)
ReceiveTune == LET m == Head(queue) IN
  /\ Take("tune")
  /\ pc' = "seek"
  /\ step' = IF Seeking THEN "on_air" ELSE step
  /\ mode' = IF Seeking THEN "stop" ELSE mode
  /\ IF tuner.open
     THEN /\ band' = m.band /\ freq' = m.freq
          /\ tuner' = Tuner(TRUE, m.band, m.freq, IF Seeking THEN FALSE ELSE tuner.muted)
          /\ told' = Told(m.band, m.freq, mode', None)
     ELSE /\ told' = IF Seeking THEN Told(band, freq, "stop", None) ELSE told
          /\ UNCHANGED <<band, freq, tuner>>
  /\ UNCHANGED <<opened, next, startFreq, found, counters, best, list, judged, disturbed>>

Requested(s) == IF s = 0 THEN freq ELSE IF band = FM THEN s * 10 ELSE s

(* initSeek up to the alignment of the start. *)
ReceiveSeek == LET m == Head(queue) IN
  /\ Take("seek")
  /\ pc' = "begin" /\ next' = m.mode /\ step' = "start" /\ found' = FALSE
  /\ freq' = Align(config[band], Requested(m.start), m.mode \in Downs)
  /\ startFreq' = freq' /\ disturbed' = (disturbed /\ Seeking)
  /\ UNCHANGED <<opened, mode, counters, best, list, judged, band, tuner, told>>

(* Its end: a stop, a second press of a seek key, or a seek. *)
Ends == next = "stop" \/ {next, mode} \subseteq ManualSeeks \cup AutoSeeks

BeginStop == /\ pc = "begin" /\ Ends
             /\ step' = "stop" /\ pc' = "seek"
             /\ UNCHANGED <<app, next, mode, startFreq, found, counters, best, list, judged,
                             band, freq, tuner, told, disturbed>>

BeginSeek == /\ pc = "begin" /\ ~Ends
             /\ mode' = next /\ pc' = "seek" /\ judged' = {}
             /\ IF next = "scan_station"
                THEN stations' = <<>> /\ listBand' = band /\ listTx' = FALSE
                ELSE UNCHANGED list
             /\ best' = IF next = "scan_pi" THEN None ELSE best
             /\ disturbed' = (disturbed /\ ~Seeking)
             /\ UNCHANGED <<app, next, step, startFreq, found, counters, band, freq, tuner, told>>
-----------------------------------------------------------------------------
(* seekHandler: one step of the seek, and back to the queue. *)

AtStart == freq = startFreq

(* The countdown uiSeek5msCnt. *)
Ticked == IF wait > 0 THEN wait - 1 ELSE 0

InStep(s) == pc = "seek" /\ step \in s /\ pc' = "receive"
             /\ UNCHANGED <<app, next, band, startFreq, disturbed>>

(* hal_setMute, hal_setTune with it; wrong variant: the mute is left as it was. *)
Muted(m) == IF tuner.open THEN Tuner(TRUE, tuner.band, tuner.freq, m) ELSE tuner
RetunedOnly(f, m) == IF tuner.open THEN Tuner(TRUE, band, f, tuner.muted) ELSE tuner
Retuned(f, m) == IF tuner.open THEN Tuner(TRUE, band, f, m) ELSE tuner

(* The quality of the signal is sent along where other notifications say   *)
(* whether there is a station list: a level of 1 reads as a list.          *)
TellQuality(f) == \E l \in {None, listBand} : told' = Told(band, f, mode, l)

OnAir == /\ InStep({"on_air"})
         /\ mode' = "stop" /\ wait' = Ticked
         /\ told' = IF Seeking THEN Told(band, freq, "stop", IF listTx THEN listBand ELSE None)
                               ELSE told
         /\ UNCHANGED <<step, found, tries, listen, best, list, judged, freq, tuner>>

SetFreq == /\ InStep({"start", "set_freq"})
           /\ freq' = NextFreq(config[band], freq, mode \in Downs)
           /\ tuner' = Retuned(freq', tuner.muted \/ step = "start")
           /\ step' = IF mode \in ManualSeeks THEN "stop" ELSE "precheck"
           /\ wait' = Ticked
           /\ IF mode \in Scans THEN TellQuality(freq') ELSE told' = told
           /\ UNCHANGED <<mode, found, tries, listen, best, list, judged>>

PrecheckPasses == /\ InStep({"precheck"})
                  /\ step' = "check_status" /\ wait' = WAIT
                  /\ UNCHANGED <<mode, found, tries, listen, best, list, judged, freq, tuner, told>>

CheckStatus == /\ InStep({"check_status"})
               /\ wait' = Ticked
               /\ step' = "check" \/ (wait' > 0 /\ step' = step)
               /\ UNCHANGED <<mode, found, tries, listen, best, list, judged, freq, tuner, told>>

(* Where a seek that has come round ends: a PI scan at the best match. *)
Home == IF mode = "scan_pi" /\ best # None THEN best ELSE freq

ComeRound == step' = "stop" /\ freq' = Home
GoOn(s)   == step' = s /\ freq' = freq

Judged == judged' = judged \cup {freq}

(* Precheck or check: no station here. *)
Reject == /\ InStep({"precheck", "check"})
          /\ IF AtStart THEN ComeRound ELSE GoOn("set_freq")
          /\ Judged /\ wait' = Ticked
          /\ IF mode \in Scans THEN told' = told ELSE TellQuality(freq')
          /\ UNCHANGED <<mode, found, tries, listen, best, list, tuner>>

(* makeStationList. *)
Listed == IF Len(stations) < STATIONS THEN Append(stations, freq) ELSE stations

ListStation == /\ InStep({"check"}) /\ mode = "scan_station"
               /\ stations' = Listed
               /\ IF AtStart
                  THEN ComeRound /\ UNCHANGED <<found, listen, tuner>>
                  ELSE /\ GoOn("listen")
                       /\ found' = TRUE /\ listen' = 0 /\ tuner' = Muted(FALSE)
               /\ Judged /\ wait' = Ticked
               /\ UNCHANGED <<mode, tries, best, listBand, listTx, told>>

CheckItsPi == /\ InStep({"check"}) /\ mode = "scan_pi"
              /\ IF AtStart THEN ComeRound /\ wait' = Ticked /\ tries' = tries
                            ELSE GoOn("check_pi") /\ wait' = WAIT /\ tries' = TRIES
              /\ Judged
              /\ UNCHANGED <<mode, found, listen, best, list, tuner, told>>

(* Also when a manual seek was replaced, or the mode is not a seek at all. *)
Find == /\ InStep({"check"}) /\ mode \notin Scans
        /\ GoOn("stop") /\ found' = TRUE
        /\ Judged /\ wait' = Ticked
        /\ TellQuality(freq)
        /\ UNCHANGED <<mode, tries, listen, best, list, tuner>>

Listen == /\ InStep({"listen"})
          /\ listen' = listen + 1 /\ wait' = Ticked
          /\ IF listen' >= LISTEN THEN step' = "set_freq" /\ tuner' = Muted(TRUE)
                                  ELSE UNCHANGED <<step, tuner>>
          /\ UNCHANGED <<mode, found, tries, best, list, judged, freq, told>>

AwaitPi == /\ InStep({"check_pi"}) /\ Ticked > 0
           /\ wait' = Ticked
           /\ UNCHANGED <<step, mode, found, tries, listen, best, list, judged, freq, tuner, told>>

(* findBestStation: the PI is in the list and the signal the best so far. *)
FindPi == /\ InStep({"check_pi"}) /\ Ticked = 0
          /\ best' = freq /\ found' = TRUE
          /\ GoOn("set_freq") /\ wait' = 0
          /\ UNCHANGED <<mode, tries, listen, list, judged, tuner, told>>

MissPi == /\ InStep({"check_pi"}) /\ Ticked = 0
          /\ IF tries > 0 THEN wait' = WAIT /\ tries' = tries - 1 /\ step' = step
                          ELSE wait' = 0 /\ tries' = 0 /\ step' = "set_freq"
          /\ UNCHANGED <<mode, found, listen, best, list, judged, freq, tuner, told>>

(* stopSeek(1). *)
Stop == /\ InStep({"stop"})
        /\ listTx' = (listTx \/ mode = "scan_station")
        /\ freq' = IF mode = "scan_station" THEN startFreq ELSE freq
        /\ tuner' = Retuned(freq', FALSE)
        /\ mode' = "stop" /\ step' = "on_air" /\ wait' = Ticked
        /\ told' = Told(band, freq', "stop", IF listTx' THEN listBand ELSE None)
        /\ UNCHANGED <<found, tries, listen, best, stations, listBand, judged>>

Application == Open \/ SetTune \/ SetSeek \/ SetBandFreqConfig \/ BeginClose \/ EndClose

(* One iteration of the service thread is a step of each. *)
Receive == \/ ReceiveNothing \/ ReceiveOpen \/ RefuseOpen \/ ReceiveTune \/ ReceiveSeek
           \/ BeginStop \/ BeginSeek

SeekHandler == \/ OnAir \/ SetFreq \/ PrecheckPasses \/ CheckStatus \/ Reject \/ ListStation
               \/ CheckItsPi \/ Find \/ Listen \/ AwaitPi \/ FindPi \/ MissPi \/ Stop

Service == Receive \/ SeekHandler

Next == Application \/ Service

Spec     == Init /\ [][Next]_vars
FairSpec == Spec /\ WF_vars(Service)

-----------------------------------------------------------------------------

AppType ==
  /\ opened \in BOOLEAN /\ closing \in BOOLEAN
  /\ config \in [Bands -> UNION {Configs[b] : b \in Bands}]
  /\ \A b \in Bands : config[b] \in Configs[b]
  /\ queue \in Seq(Messages) /\ requests \in 0 .. REQUESTS

SeekType ==
  /\ pc \in {"receive", "begin", "seek"} /\ next \in Modes /\ mode \in Modes
  /\ step \in {"on_air", "start", "set_freq", "precheck", "check_status", "check", "listen",
               "check_pi", "stop"}
  /\ band \in Bands \cup {None} /\ {freq, startFreq, best} \subseteq Nat \cup {None}
  /\ found \in BOOLEAN /\ disturbed \in BOOLEAN

CounterType == wait \in 0 .. WAIT /\ tries \in 0 .. TRIES /\ listen \in 0 .. LISTEN

ListType == /\ stations \in Seq(Nat) /\ judged \subseteq Nat
            /\ listBand \in Bands \cup {None} /\ listTx \in BOOLEAN

TunerType == tuner \in [open : BOOLEAN, band : Bands \cup {None}, freq : Nat \cup {None},
                       muted : BOOLEAN]
ToldType  == told \in [band : Bands \cup {None}, freq : Nat \cup {None}, mode : Modes,
                      list : Bands \cup {None}]

TypeOK == AppType /\ SeekType /\ CounterType /\ ListType /\ TunerType /\ ToldType

(* A seek that is not disturbed stays on the frequencies of its band, and  *)
(* so does the frequency it is to come back to: it cannot miss it.         *)
OnGrid == Seeking /\ ~disturbed => {freq, startFreq} \subseteq Grid(config[band])

Judging == step \in {"precheck", "check_status", "check"}

(* An undisturbed seek judges no frequency twice, and one that comes round *)
(* to its start has judged every frequency of the band.                    *)
OnePass ==
  Seeking /\ ~disturbed /\ pc # "begin" =>
    /\ Judging => freq \notin judged
    /\ Judging /\ AtStart => judged \cup {freq} = Grid(config[band])

(* Whatever ended the last seek (a station, the end of the band, a stop, a *)
(* second key, a tune), and whatever was closed and opened meanwhile: the  *)
(* tuner plays, it plays what the service believes, and the application    *)
(* has been told so.                                                       *)
Settled ==
  pc = "receive" /\ mode = "stop" =>
    /\ step = "on_air"
    /\ tuner.open => /\ ~tuner.muted
                     /\ tuner.band = band /\ tuner.freq = freq
                     /\ told.band = band /\ told.freq = freq /\ told.mode = "stop"

(* Every seek ends, whatever the signals are. *)
SeekEnds == Seeking /\ ~disturbed ~> ~Seeking \/ disturbed

(* "Creat the receivable station list in the current waveband": the list   *)
(* that comes with the end of a seek was made in the waveband of that seek. *)
ListOfWaveband ==
  [][Seeking /\ ~Seeking' /\ ~disturbed => told'.list \in {None, told'.band}]_vars
=============================================================================
