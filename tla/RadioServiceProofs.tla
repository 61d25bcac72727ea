------------------------- MODULE RadioServiceProofs -------------------------
(***************************************************************************)
(* A seek of the radio service stays on the frequencies of its band, is    *)
(* one pass over them, and when it is over the tuner, the service and the  *)
(* application agree; and the good answers of the Si479xx driver are true: *)
(* for every set of bands, configurations, frequencies, tuners and bounds. *)
(***************************************************************************)
EXTENDS RadioService, SiTuner, BandProofs, SequenceTheorems

-----------------------------------------------------------------------------
(* The inductive invariant. *)

Tuned == band \in Bands /\ freq \in Nat

(* A seek can only be asked for, and go on, once the radio has been tuned. *)
SeekIsTuned ==
  /\ opened \/ Seeking \/ step # "on_air" \/ pc = "begin" => Tuned
  /\ \A i \in 1 .. Len(queue) : queue[i].cmd = "seek" => Tuned
  /\ Seeking \/ pc = "begin" => startFreq \in Nat

(* What the service is doing without a seek, and for how long it listens. *)
Phase == /\ pc = "begin" => step = "start"
         /\ step = "on_air" => mode = "stop"
         /\ mode = "stop" /\ pc = "receive" => step = "on_air"
         /\ mode = "stop" /\ pc = "seek" => step \in {"on_air", "stop"}
         /\ step = "listen" => listen < LISTEN

(* Where a seek ends is on the grid as well; and so is a start that has     *)
(* been aligned to a configuration which has not changed since.            *)
Aligned ==
  /\ OnGrid
  /\ mode = "scan_pi" /\ ~disturbed => best \in Grid(config[band]) \cup {None}
  /\ pc = "begin" /\ (Seeking \/ ~disturbed) => {freq, startFreq} \subseteq Grid(config[band])

Agreed == step = "on_air" =>
            /\ told.mode = "stop"
            /\ tuner.open => /\ ~tuner.muted
                             /\ tuner.band = band /\ tuner.freq = freq
                             /\ told.band = band /\ told.freq = freq

IInv == TypeOK /\ SeekIsTuned /\ Phase /\ Aligned /\ Agreed

USE DEF vars, app, counters, list, seek, ManualSeeks, AutoSeeks, Scans, Seeks, Modes, Downs, Seeking

-----------------------------------------------------------------------------

(* A tuned service has a valid band, and a seek can start from anywhere. *)
LEMMA BandType ==
  ASSUME TypeOK, Tuned
  PROVE  IsBand(config[band])
BY RadioAssumption DEF TypeOK, AppType, Tuned

(* The start a seek asks for, or the current frequency. *)
LEMMA RequestedNat ==
  ASSUME TypeOK, Tuned, NEW s \in Starts
  PROVE  Requested(s) \in Nat
BY RadioAssumption DEF Tuned, Requested

(* A call of the application queues a message. *)
LEMMA SendType ==
  ASSUME AppType, NEW m \in Messages, Send(m)
  PROVE  AppType'
BY RadioAssumption DEF AppType, Send

(* The countdown stops at 0. *)
LEMMA TickedType ==
  ASSUME CounterType
  PROVE  Ticked \in 0 .. WAIT
BY RadioAssumption DEF CounterType, Ticked

(* What the tuner is set to. *)
LEMMA TunerValue ==
  ASSUME NEW o \in BOOLEAN, NEW b \in Bands \cup {None}, NEW f \in Nat \cup {None},
         NEW m \in BOOLEAN
  PROVE  Tuner(o, b, f, m) \in [open : BOOLEAN, band : Bands \cup {None},
                                freq : Nat \cup {None}, muted : BOOLEAN]
BY DEF Tuner

(* Muting changes nothing else. *)
LEMMA MutedType ==
  ASSUME TunerType, NEW m \in BOOLEAN
  PROVE  Muted(m) \in [open : BOOLEAN, band : Bands \cup {None},
                       freq : Nat \cup {None}, muted : BOOLEAN]
<1>1. CASE tuner.open
  <2>1. tuner.band \in Bands \cup {None} /\ tuner.freq \in Nat \cup {None}
    BY DEF TunerType
  <2> QED BY <1>1, <2>1, TunerValue DEF Muted
<1>2. CASE ~tuner.open
  BY <1>2 DEF Muted, TunerType
<1> QED BY <1>1, <1>2

(* What a notification says. *)
LEMMA ToldValue ==
  ASSUME NEW b \in Bands \cup {None}, NEW f \in Nat \cup {None}, NEW m \in Modes,
         NEW l \in Bands \cup {None}
  PROVE  Told(b, f, m, l) \in [band : Bands \cup {None}, freq : Nat \cup {None}, mode : Modes,
                               list : Bands \cup {None}]
BY DEF Told

(* It holds when the radio has been initialised. *)
LEMMA InitIInv == Init => IInv
<1> SUFFICES ASSUME Init PROVE IInv
  OBVIOUS
<1> USE DEF Init
<1>1. tuner \in [open : BOOLEAN, band : Bands \cup {None}, freq : Nat \cup {None},
                 muted : BOOLEAN]
  BY RadioAssumption
<1>2. told \in [band : Bands \cup {None}, freq : Nat \cup {None}, mode : Modes,
                list : Bands \cup {None}]
  BY RadioAssumption
<1>3. queue \in Seq(Messages) /\ stations \in Seq(Nat)
  BY RadioAssumption
<1>4. config \in [Bands -> UNION {Configs[b] : b \in Bands}] /\ \A b \in Bands : config[b] \in Configs[b]
  BY RadioAssumption
<1>5. /\ requests \in 0 .. REQUESTS /\ wait \in 0 .. WAIT /\ tries \in 0 .. TRIES
      /\ listen \in 0 .. LISTEN
  BY RadioAssumption
<1>6. TypeOK
  BY <1>1, <1>2, <1>3, <1>4, <1>5 DEF TypeOK, AppType, SeekType, CounterType, ListType, TunerType, ToldType
<1>7. ~Seeking /\ Len(queue) = 0
  OBVIOUS
<1>8. SeekIsTuned /\ Phase
  BY <1>7 DEF SeekIsTuned, Phase
<1>9. Aligned
  BY <1>7 DEF Aligned, OnGrid
<1>10. Agreed
  BY DEF Agreed
<1> QED BY <1>6, <1>8, <1>9, <1>10 DEF IInv

(* The phases of a seek follow one another. *)
LEMMA PhaseStep ==
  ASSUME TypeOK, Phase, [Next]_vars
  PROVE  Phase'
<1>1. CASE Open
  BY <1>1 DEF TypeOK, Phase, Open, Send
<1>2. CASE SetTune
  BY <1>2 DEF TypeOK, Phase, SetTune, Send
<1>3. CASE SetSeek
  BY <1>3 DEF TypeOK, Phase, SetSeek, Send
<1>4. CASE SetBandFreqConfig
  BY <1>4 DEF TypeOK, Phase, SetBandFreqConfig
<1>5. CASE BeginClose
  BY <1>5 DEF TypeOK, Phase, BeginClose
<1>6. CASE EndClose
  BY <1>6 DEF TypeOK, Phase, EndClose
<1>7. CASE ReceiveNothing
  BY <1>7 DEF TypeOK, Phase, ReceiveNothing
<1>8. CASE ReceiveOpen
  BY <1>8 DEF TypeOK, Phase, ReceiveOpen, Take
<1>9. CASE RefuseOpen
  BY <1>9 DEF TypeOK, Phase, RefuseOpen, Take
<1>10. CASE ReceiveTune
  BY <1>10 DEF TypeOK, Phase, ReceiveTune, Take
<1>11. CASE ReceiveSeek
  BY <1>11 DEF TypeOK, Phase, ReceiveSeek, Take
<1>12. CASE BeginStop
  BY <1>12 DEF TypeOK, Phase, BeginStop, Ends
<1>13. CASE BeginSeek
  BY <1>13 DEF TypeOK, Phase, BeginSeek, Ends
<1>14. CASE OnAir
  BY <1>14 DEF TypeOK, Phase, OnAir, InStep
<1>15. CASE SetFreq
  BY <1>15 DEF TypeOK, Phase, SetFreq, InStep
<1>16. CASE PrecheckPasses
  BY <1>16 DEF TypeOK, Phase, PrecheckPasses, InStep
<1>17. CASE CheckStatus
  BY <1>17 DEF TypeOK, Phase, CheckStatus, InStep
<1>18. CASE Reject
  BY <1>18 DEF TypeOK, Phase, Reject, InStep, GoOn, ComeRound
<1>19. CASE ListStation
  <2>1. 0 < LISTEN
    BY RadioAssumption
  <2>2. step' = "listen" => listen' = 0
    BY <1>19 DEF ListStation, InStep, GoOn, ComeRound
  <2> QED BY <1>19, <2>1, <2>2 DEF Phase, ListStation, InStep, GoOn, ComeRound
<1>20. CASE CheckItsPi
  BY <1>20 DEF TypeOK, Phase, CheckItsPi, InStep, GoOn, ComeRound
<1>21. CASE Find
  BY <1>21 DEF TypeOK, Phase, Find, InStep, GoOn
<1>22. CASE Listen
  <2>1. listen \in Nat /\ LISTEN \in Nat
    BY RadioAssumption DEF TypeOK, CounterType
  <2>2. step' = "listen" => listen' < LISTEN
    BY <1>22, <2>1 DEF Listen, InStep
  <2> QED BY <1>22, <2>2 DEF Phase, Listen, InStep
<1>23. CASE AwaitPi
  BY <1>23 DEF TypeOK, Phase, AwaitPi, InStep
<1>24. CASE FindPi
  BY <1>24 DEF TypeOK, Phase, FindPi, InStep, GoOn
<1>25. CASE MissPi
  BY <1>25 DEF TypeOK, Phase, MissPi, InStep
<1>26. CASE Stop
  BY <1>26 DEF TypeOK, Phase, Stop, InStep
<1>27. CASE UNCHANGED vars
  BY <1>27 DEF TypeOK, Phase
<1> QED BY <1>1, <1>2, <1>3, <1>4, <1>5, <1>6, <1>7, <1>8, <1>9, <1>10, <1>11, <1>12, <1>13, <1>14, <1>15, <1>16, <1>17, <1>18, <1>19, <1>20, <1>21, <1>22, <1>23, <1>24, <1>25, <1>26, <1>27
  DEF Next, Application, Service, Receive, SeekHandler

(* What ends a seek unmutes the tuner and tells the application; what begins one leaves "on air". *)
LEMMA AgreedStep ==
  ASSUME TypeOK, Phase, Agreed, [Next]_vars
  PROVE  Agreed'
<1>1. CASE Open
  BY <1>1 DEF TypeOK, Phase, Agreed, Open, Send
<1>2. CASE SetTune
  BY <1>2 DEF TypeOK, Phase, Agreed, SetTune, Send
<1>3. CASE SetSeek
  BY <1>3 DEF TypeOK, Phase, Agreed, SetSeek, Send
<1>4. CASE SetBandFreqConfig
  BY <1>4 DEF TypeOK, Phase, Agreed, SetBandFreqConfig
<1>5. CASE BeginClose
  BY <1>5 DEF TypeOK, Phase, Agreed, BeginClose, Tuner
<1>6. CASE EndClose
  BY <1>6 DEF TypeOK, Phase, Agreed, EndClose
<1>7. CASE ReceiveNothing
  BY <1>7 DEF TypeOK, Phase, Agreed, ReceiveNothing
<1>8. CASE ReceiveOpen
  BY <1>8 DEF TypeOK, Phase, Agreed, ReceiveOpen, Take, Tuner, Told
<1>9. CASE RefuseOpen
  BY <1>9 DEF TypeOK, Phase, Agreed, RefuseOpen, Take
<1>10. CASE ReceiveTune
  <2>1. CASE tuner.open
    <3>1. tuner' = Tuner(TRUE, Head(queue).band, Head(queue).freq,
                         IF Seeking THEN FALSE ELSE tuner.muted)
      BY <1>10, <2>1 DEF ReceiveTune, Take
    <3>2. told' = Told(Head(queue).band, Head(queue).freq, mode', None)
          /\ band' = Head(queue).band /\ freq' = Head(queue).freq
      BY <1>10, <2>1 DEF ReceiveTune, Take
    <3>3. step' = "on_air" => mode' = "stop" /\ (Seeking \/ ~tuner.muted)
      BY <1>10, <2>1 DEF Phase, Agreed, ReceiveTune, Take
    <3> QED BY <3>1, <3>2, <3>3 DEF Agreed, Tuner, Told
  <2>2. CASE ~tuner.open
    BY <1>10, <2>2 DEF TypeOK, Phase, Agreed, ReceiveTune, Take, Tuner, Told
  <2> QED BY <2>1, <2>2
<1>11. CASE ReceiveSeek
  BY <1>11 DEF TypeOK, Phase, Agreed, ReceiveSeek, Take
<1>12. CASE BeginStop
  BY <1>12 DEF TypeOK, Phase, Agreed, BeginStop, Ends
<1>13. CASE BeginSeek
  BY <1>13 DEF TypeOK, Phase, Agreed, BeginSeek, Ends
<1>14. CASE OnAir
  BY <1>14 DEF TypeOK, Phase, Agreed, OnAir, InStep, Told
<1>15. CASE SetFreq
  BY <1>15 DEF TypeOK, Phase, Agreed, SetFreq, InStep, Retuned
<1>16. CASE PrecheckPasses
  BY <1>16 DEF TypeOK, Phase, Agreed, PrecheckPasses, InStep
<1>17. CASE CheckStatus
  BY <1>17 DEF TypeOK, Phase, Agreed, CheckStatus, InStep
<1>18. CASE Reject
  BY <1>18 DEF TypeOK, Phase, Agreed, Reject, InStep, GoOn, ComeRound
<1>19. CASE ListStation
  BY <1>19 DEF TypeOK, Phase, Agreed, ListStation, InStep, GoOn, ComeRound, Muted
<1>20. CASE CheckItsPi
  BY <1>20 DEF TypeOK, Phase, Agreed, CheckItsPi, InStep, GoOn, ComeRound
<1>21. CASE Find
  BY <1>21 DEF TypeOK, Phase, Agreed, Find, InStep, GoOn
<1>22. CASE Listen
  BY <1>22 DEF TypeOK, Phase, Agreed, Listen, InStep, Muted
<1>23. CASE AwaitPi
  BY <1>23 DEF TypeOK, Phase, Agreed, AwaitPi, InStep
<1>24. CASE FindPi
  BY <1>24 DEF TypeOK, Phase, Agreed, FindPi, InStep, GoOn
<1>25. CASE MissPi
  BY <1>25 DEF TypeOK, Phase, Agreed, MissPi, InStep
<1>26. CASE Stop
  BY <1>26 DEF TypeOK, Phase, Agreed, Stop, InStep, Tuner, Told, Retuned
<1>27. CASE UNCHANGED vars
  BY <1>27 DEF TypeOK, Phase, Agreed
<1> QED BY <1>1, <1>2, <1>3, <1>4, <1>5, <1>6, <1>7, <1>8, <1>9, <1>10, <1>11, <1>12, <1>13, <1>14, <1>15, <1>16, <1>17, <1>18, <1>19, <1>20, <1>21, <1>22, <1>23, <1>24, <1>25, <1>26, <1>27
  DEF Next, Application, Service, Receive, SeekHandler

(* Once tuned, the service stays on a frequency. *)
LEMMA TunedStep ==
  ASSUME TypeOK, Phase, SeekIsTuned, [Next]_vars
  PROVE  SeekIsTuned'
<1>1. CASE Open
  BY <1>1 DEF TypeOK, AppType, SeekType, Phase, SeekIsTuned, Tuned, Messages, Open, Send
<1>2. CASE SetTune
  BY <1>2 DEF TypeOK, AppType, SeekType, Phase, SeekIsTuned, Tuned, Messages, SetTune, Send
<1>3. CASE SetSeek
  BY <1>3 DEF TypeOK, AppType, SeekType, Phase, SeekIsTuned, Tuned, Messages, SetSeek, Send
<1>4. CASE SetBandFreqConfig
  BY <1>4 DEF TypeOK, AppType, SeekType, Phase, SeekIsTuned, Tuned, Messages, SetBandFreqConfig
<1>5. CASE BeginClose
  BY <1>5 DEF TypeOK, AppType, SeekType, Phase, SeekIsTuned, Tuned, Messages, BeginClose
<1>6. CASE EndClose
  BY <1>6 DEF TypeOK, AppType, SeekType, Phase, SeekIsTuned, Tuned, Messages, EndClose
<1>7. CASE ReceiveNothing
  BY <1>7 DEF TypeOK, AppType, SeekType, Phase, SeekIsTuned, Tuned, Messages, ReceiveNothing
<1>8. CASE ReceiveOpen
  BY <1>8 DEF TypeOK, AppType, SeekType, Phase, SeekIsTuned, Tuned, Messages, ReceiveOpen, Take
<1>9. CASE RefuseOpen
  BY <1>9 DEF TypeOK, AppType, SeekType, Phase, SeekIsTuned, Tuned, Messages, RefuseOpen, Take
<1>10. CASE ReceiveTune
  <2>0. Head(queue).band \in Bands /\ Head(queue).freq \in Nat
    BY <1>10 DEF TypeOK, AppType, Messages, ReceiveTune, Take
  <2>1. Tuned => Tuned'
    BY <1>10, <2>0 DEF Tuned, ReceiveTune, Take
  <2>2. \A i \in 1 .. Len(queue') : queue'[i].cmd = "seek" => Tuned
    BY <1>10 DEF TypeOK, AppType, SeekIsTuned, ReceiveTune, Take
  <2>3. Seeking' => Seeking
    BY <1>10 DEF ReceiveTune, Take
  <2> QED BY <1>10, <2>1, <2>2, <2>3 DEF Phase, SeekIsTuned, ReceiveTune, Take
<1>11. CASE ReceiveSeek
  <2>1. Tuned /\ Head(queue) = queue[1] /\ Head(queue).start \in Starts
    BY <1>11 DEF TypeOK, AppType, SeekIsTuned, Messages, ReceiveSeek, Take
  <2>2. /\ IsBand(config[band]) /\ Requested(Head(queue).start) \in Nat
        /\ (Head(queue).mode \in Downs) \in BOOLEAN
    BY <1>11, <2>1, BandType, RequestedNat
  <2>3. freq' \in Grid(config[band])
    BY <1>11, <2>2, AlignOnGrid DEF ReceiveSeek
  <2>4. freq' \in Nat
    BY <2>2, <2>3 DEF Grid, IsBand
  <2> QED BY <1>11, <2>1, <2>4 DEF TypeOK, AppType, SeekIsTuned, Tuned, ReceiveSeek, Take
<1>12. CASE BeginStop
  BY <1>12 DEF TypeOK, AppType, SeekType, Phase, SeekIsTuned, Tuned, Messages, BeginStop, Ends
<1>13. CASE BeginSeek
  BY <1>13 DEF TypeOK, AppType, SeekType, Phase, SeekIsTuned, Tuned, Messages, BeginSeek, Ends
<1>14. CASE OnAir
  BY <1>14 DEF TypeOK, AppType, SeekType, Phase, SeekIsTuned, Tuned, Messages, OnAir, InStep
<1>15. CASE SetFreq
  <2>1. Tuned
    BY <1>15 DEF SeekIsTuned, SetFreq, InStep
  <2>2. IsBand(config[band]) /\ freq \in Nat /\ (mode \in Downs) \in BOOLEAN
    BY <2>1, BandType DEF Tuned
  <2>3. freq' \in Nat
    BY <1>15, <2>2, NextFreqNat DEF SetFreq
  <2> QED BY <1>15, <2>1, <2>3 DEF AppType, SeekIsTuned, Tuned, SetFreq, InStep
<1>16. CASE PrecheckPasses
  BY <1>16 DEF TypeOK, AppType, SeekType, Phase, SeekIsTuned, Tuned, Messages, PrecheckPasses, InStep
<1>17. CASE CheckStatus
  BY <1>17 DEF TypeOK, AppType, SeekType, Phase, SeekIsTuned, Tuned, Messages, CheckStatus, InStep
<1>18. CASE Reject
  BY <1>18 DEF TypeOK, AppType, SeekType, Phase, SeekIsTuned, Tuned, Messages, Reject, InStep, GoOn, ComeRound, Home
<1>19. CASE ListStation
  BY <1>19 DEF TypeOK, AppType, SeekType, Phase, SeekIsTuned, Tuned, Messages, ListStation, InStep, GoOn, ComeRound, Home
<1>20. CASE CheckItsPi
  BY <1>20 DEF TypeOK, AppType, SeekType, Phase, SeekIsTuned, Tuned, Messages, CheckItsPi, InStep, GoOn, ComeRound, Home
<1>21. CASE Find
  BY <1>21 DEF TypeOK, AppType, SeekType, Phase, SeekIsTuned, Tuned, Messages, Find, InStep, GoOn
<1>22. CASE Listen
  BY <1>22 DEF TypeOK, AppType, SeekType, Phase, SeekIsTuned, Tuned, Messages, Listen, InStep
<1>23. CASE AwaitPi
  BY <1>23 DEF TypeOK, AppType, SeekType, Phase, SeekIsTuned, Tuned, Messages, AwaitPi, InStep
<1>24. CASE FindPi
  BY <1>24 DEF TypeOK, AppType, SeekType, Phase, SeekIsTuned, Tuned, Messages, FindPi, InStep, GoOn
<1>25. CASE MissPi
  BY <1>25 DEF TypeOK, AppType, SeekType, Phase, SeekIsTuned, Tuned, Messages, MissPi, InStep
<1>26. CASE Stop
  BY <1>26 DEF TypeOK, AppType, SeekType, Phase, SeekIsTuned, Tuned, Messages, Stop, InStep
<1>27. CASE UNCHANGED vars
  BY <1>27 DEF TypeOK, AppType, SeekType, Phase, SeekIsTuned, Tuned, Messages
<1> QED BY <1>1, <1>2, <1>3, <1>4, <1>5, <1>6, <1>7, <1>8, <1>9, <1>10, <1>11, <1>12, <1>13, <1>14, <1>15, <1>16, <1>17, <1>18, <1>19, <1>20, <1>21, <1>22, <1>23, <1>24, <1>25, <1>26, <1>27
  DEF Next, Application, Service, Receive, SeekHandler

(* Start, step and end of a seek are frequencies of its band. *)
LEMMA AlignedStep ==
  ASSUME TypeOK, Phase, SeekIsTuned, Aligned, [Next]_vars
  PROVE  Aligned'
<1>1. CASE Open
  BY <1>1 DEF TypeOK, AppType, SeekType, Phase, Aligned, OnGrid, Open, Send
<1>2. CASE SetTune
  BY <1>2 DEF TypeOK, AppType, SeekType, Phase, Aligned, OnGrid, SetTune, Send
<1>3. CASE SetSeek
  BY <1>3 DEF TypeOK, AppType, SeekType, Phase, Aligned, OnGrid, SetSeek, Send
<1>4. CASE SetBandFreqConfig
  <2>1. PICK b \in Bands : /\ \E c \in Configs[b] : config' = [config EXCEPT ![b] = c]
                            /\ disturbed' = (disturbed \/ (pc = "begin" /\ b = band))
    BY <1>4 DEF SetBandFreqConfig
  <2>2. b # band => config'[band] = config[band]
    BY <2>1 DEF TypeOK, AppType
  <2> QED BY <1>4, <2>1, <2>2 DEF Aligned, OnGrid, SetBandFreqConfig
<1>5. CASE BeginClose
  BY <1>5 DEF TypeOK, AppType, SeekType, Phase, Aligned, OnGrid, BeginClose
<1>6. CASE EndClose
  BY <1>6 DEF TypeOK, AppType, SeekType, Phase, Aligned, OnGrid, EndClose
<1>7. CASE ReceiveNothing
  BY <1>7 DEF TypeOK, AppType, SeekType, Phase, Aligned, OnGrid, ReceiveNothing
<1>8. CASE ReceiveOpen
  BY <1>8 DEF TypeOK, AppType, SeekType, Phase, Aligned, OnGrid, ReceiveOpen, Take
<1>9. CASE RefuseOpen
  BY <1>9 DEF TypeOK, AppType, SeekType, Phase, Aligned, OnGrid, RefuseOpen, Take
<1>10. CASE ReceiveTune
  BY <1>10 DEF TypeOK, AppType, SeekType, Phase, Aligned, OnGrid, ReceiveTune, Take
<1>11. CASE ReceiveSeek
  <2>1. Tuned /\ Head(queue) = queue[1] /\ Head(queue).start \in Starts
    BY <1>11 DEF TypeOK, AppType, SeekIsTuned, Messages, ReceiveSeek, Take
  <2>2. /\ IsBand(config[band]) /\ Requested(Head(queue).start) \in Nat
        /\ (Head(queue).mode \in Downs) \in BOOLEAN
    BY <1>11, <2>1, BandType, RequestedNat
  <2>3. freq' \in Grid(config[band])
    BY <1>11, <2>2, AlignOnGrid DEF ReceiveSeek
  <2> QED BY <1>11, <2>3 DEF Aligned, OnGrid, ReceiveSeek, Take
<1>12. CASE BeginStop
  BY <1>12 DEF TypeOK, AppType, SeekType, Phase, Aligned, OnGrid, BeginStop, Ends
<1>13. CASE BeginSeek
  BY <1>13 DEF TypeOK, AppType, SeekType, Phase, Aligned, OnGrid, BeginSeek, Ends
<1>14. CASE OnAir
  BY <1>14 DEF TypeOK, AppType, SeekType, Phase, Aligned, OnGrid, OnAir, InStep
<1>15. CASE SetFreq
  <2>1. IsBand(config[band]) /\ (mode \in Downs) \in BOOLEAN
    BY <1>15, BandType DEF SeekIsTuned, SetFreq, InStep
  <2>2. freq \in Grid(config[band]) => freq' \in Grid(config[band])
    BY <1>15, <2>1, NextFreqOnGrid DEF SetFreq
  <2> QED BY <1>15, <2>2 DEF Aligned, OnGrid, SetFreq, InStep
<1>16. CASE PrecheckPasses
  BY <1>16 DEF TypeOK, AppType, SeekType, Phase, Aligned, OnGrid, PrecheckPasses, InStep
<1>17. CASE CheckStatus
  BY <1>17 DEF TypeOK, AppType, SeekType, Phase, Aligned, OnGrid, CheckStatus, InStep
<1>18. CASE Reject
  BY <1>18 DEF TypeOK, AppType, SeekType, Phase, Aligned, OnGrid, Reject, InStep, GoOn, ComeRound, Home
<1>19. CASE ListStation
  BY <1>19 DEF TypeOK, AppType, SeekType, Phase, Aligned, OnGrid, ListStation, InStep, GoOn, ComeRound, Home
<1>20. CASE CheckItsPi
  BY <1>20 DEF TypeOK, AppType, SeekType, Phase, Aligned, OnGrid, CheckItsPi, InStep, GoOn, ComeRound, Home
<1>21. CASE Find
  BY <1>21 DEF TypeOK, AppType, SeekType, Phase, Aligned, OnGrid, Find, InStep, GoOn
<1>22. CASE Listen
  BY <1>22 DEF TypeOK, AppType, SeekType, Phase, Aligned, OnGrid, Listen, InStep
<1>23. CASE AwaitPi
  BY <1>23 DEF TypeOK, AppType, SeekType, Phase, Aligned, OnGrid, AwaitPi, InStep
<1>24. CASE FindPi
  BY <1>24 DEF TypeOK, AppType, SeekType, Phase, Aligned, OnGrid, FindPi, InStep, GoOn
<1>25. CASE MissPi
  BY <1>25 DEF TypeOK, AppType, SeekType, Phase, Aligned, OnGrid, MissPi, InStep
<1>26. CASE Stop
  BY <1>26 DEF TypeOK, AppType, SeekType, Phase, Aligned, OnGrid, Stop, InStep
<1>27. CASE UNCHANGED vars
  BY <1>27 DEF TypeOK, AppType, SeekType, Phase, Aligned, OnGrid
<1> QED BY <1>1, <1>2, <1>3, <1>4, <1>5, <1>6, <1>7, <1>8, <1>9, <1>10, <1>11, <1>12, <1>13, <1>14, <1>15, <1>16, <1>17, <1>18, <1>19, <1>20, <1>21, <1>22, <1>23, <1>24, <1>25, <1>26, <1>27
  DEF Next, Application, Service, Receive, SeekHandler

(* Each action changes its variables within their types. *)
LEMMA TypeStep ==
  ASSUME TypeOK, Phase, SeekIsTuned, SeekIsTuned', [Next]_vars
  PROVE  TypeOK'
<1>0. AppType /\ SeekType /\ CounterType /\ ListType /\ TunerType /\ ToldType
  BY DEF TypeOK
<1>1. CASE Open
  <2>1. AppType'
    <3>1. PICK m \in Messages : Send(m)
      BY RadioAssumption, <1>1 DEF Messages, Open
    <3> QED BY <1>0, <3>1, SendType
  <2>2. SeekType' /\ CounterType' /\ ListType' /\ TunerType' /\ ToldType'
    BY <1>0, <1>1 DEF SeekType, CounterType, ListType, TunerType, ToldType, Open, Send
  <2> QED BY <2>1, <2>2 DEF TypeOK
<1>2. CASE SetTune
  <2>1. AppType'
    <3>1. PICK m \in Messages : Send(m)
      BY RadioAssumption, <1>2 DEF Messages, SetTune
    <3> QED BY <1>0, <3>1, SendType
  <2>2. SeekType' /\ CounterType' /\ ListType' /\ TunerType' /\ ToldType'
    BY <1>0, <1>2 DEF SeekType, CounterType, ListType, TunerType, ToldType, SetTune, Send
  <2> QED BY <2>1, <2>2 DEF TypeOK
<1>3. CASE SetSeek
  <2>1. AppType'
    <3>1. PICK m \in Messages : Send(m)
      BY RadioAssumption, <1>3 DEF Messages, SetSeek
    <3> QED BY <1>0, <3>1, SendType
  <2>2. SeekType' /\ CounterType' /\ ListType' /\ TunerType' /\ ToldType'
    BY <1>0, <1>3 DEF SeekType, CounterType, ListType, TunerType, ToldType, SetSeek, Send
  <2> QED BY <2>1, <2>2 DEF TypeOK
<1>4. CASE SetBandFreqConfig
  <2>1. AppType'
    <3>1. PICK b \in Bands : \E c \in Configs[b] : config' = [config EXCEPT ![b] = c]
      BY <1>4 DEF SetBandFreqConfig
    <3>2. PICK c \in Configs[b] : config' = [config EXCEPT ![b] = c]
      BY <3>1
    <3>3. config' \in [Bands -> UNION {Configs[d] : d \in Bands}]
      BY <1>0, <3>1, <3>2 DEF AppType
    <3>4. \A d \in Bands : config'[d] \in Configs[d]
      BY <1>0, <3>1, <3>2 DEF AppType
    <3> QED BY <1>0, <1>4, <3>3, <3>4 DEF AppType, SetBandFreqConfig
  <2>2. SeekType'
    BY <1>0, <1>4 DEF SeekType, SetBandFreqConfig
  <2>3. CounterType' /\ ListType' /\ TunerType' /\ ToldType'
    BY <1>0, <1>4 DEF CounterType, ListType, TunerType, ToldType, SetBandFreqConfig
  <2> QED BY <2>1, <2>2, <2>3 DEF TypeOK
<1>5. CASE BeginClose
  <2>1. AppType'
    BY <1>0, <1>5 DEF AppType, BeginClose
  <2>2. TunerType'
    BY <1>0, <1>5 DEF TunerType, Tuner, BeginClose
  <2>3. SeekType' /\ CounterType' /\ ListType' /\ ToldType'
    BY <1>0, <1>5 DEF SeekType, CounterType, ListType, ToldType, BeginClose
  <2> QED BY <2>1, <2>2, <2>3 DEF TypeOK
<1>6. CASE EndClose
  <2>1. AppType'
    BY <1>0, <1>6 DEF AppType, EndClose
  <2>2. SeekType' /\ CounterType' /\ ListType' /\ TunerType' /\ ToldType'
    BY <1>0, <1>6 DEF SeekType, CounterType, ListType, TunerType, ToldType, EndClose
  <2> QED BY <2>1, <2>2 DEF TypeOK
<1>7. CASE ReceiveNothing
  <2>1. SeekType'
    BY <1>0, <1>7 DEF SeekType, ReceiveNothing
  <2>2. AppType' /\ CounterType' /\ ListType' /\ TunerType' /\ ToldType'
    BY <1>0, <1>7 DEF AppType, CounterType, ListType, TunerType, ToldType, ReceiveNothing
  <2> QED BY <2>1, <2>2 DEF TypeOK
<1>8. CASE ReceiveOpen
  <2>1. Head(queue).band \in Bands /\ Head(queue).freq \in Nat
    BY <1>0, <1>8 DEF AppType, Messages, ReceiveOpen, Take
  <2>2. AppType'
    BY <1>0, <1>8 DEF AppType, ReceiveOpen, Take
  <2>3. SeekType'
    BY <1>0, <1>8, <2>1 DEF SeekType, ReceiveOpen, Take
  <2>4. TunerType'
    BY <1>0, <1>8, <2>1 DEF TunerType, Tuner, ReceiveOpen, Take
  <2>5. ToldType'
    BY <1>0, <1>8, <2>1 DEF ToldType, Told, ReceiveOpen, Take
  <2>6. CounterType' /\ ListType'
    BY <1>0, <1>8 DEF CounterType, ListType, ReceiveOpen, Take
  <2> QED BY <2>2, <2>3, <2>4, <2>5, <2>6 DEF TypeOK
<1>9. CASE RefuseOpen
  <2>1. AppType'
    BY <1>0, <1>9 DEF AppType, RefuseOpen, Take
  <2>2. SeekType'
    BY <1>0, <1>9 DEF SeekType, RefuseOpen, Take
  <2>3. CounterType' /\ ListType' /\ TunerType' /\ ToldType'
    BY <1>0, <1>9 DEF CounterType, ListType, TunerType, ToldType, RefuseOpen, Take
  <2> QED BY <2>1, <2>2, <2>3 DEF TypeOK
<1>10. CASE ReceiveTune
  <2>1. Head(queue).band \in Bands /\ Head(queue).freq \in Nat
    BY <1>0, <1>10 DEF AppType, Messages, ReceiveTune, Take
  <2>2. AppType'
    BY <1>0, <1>10 DEF AppType, ReceiveTune, Take
  <2>3. SeekType'
    BY <1>0, <1>10, <2>1 DEF SeekType, ReceiveTune, Take
  <2>4. TunerType'
    <3>1. CASE tuner.open
      <4>1. (IF Seeking THEN FALSE ELSE tuner.muted) \in BOOLEAN
        BY <1>0 DEF TunerType
      <4>2. tuner' = Tuner(TRUE, Head(queue).band, Head(queue).freq,
                           IF Seeking THEN FALSE ELSE tuner.muted)
        BY <1>10, <3>1 DEF ReceiveTune, Take
      <4> QED BY <2>1, <4>1, <4>2, TunerValue DEF TunerType
    <3>2. CASE ~tuner.open
      BY <1>0, <1>10, <3>2 DEF TunerType, ReceiveTune, Take
    <3> QED BY <3>1, <3>2
  <2>5. ToldType'
    <3>1. mode' \in Modes /\ band \in Bands \cup {None} /\ freq \in Nat \cup {None}
      BY <1>0, <1>10 DEF SeekType, ReceiveTune, Take
    <3>2. \/ told' = Told(Head(queue).band, Head(queue).freq, mode', None)
          \/ told' = Told(band, freq, "stop", None)
          \/ told' = told
      BY <1>10 DEF ReceiveTune, Take
    <3> QED BY <1>0, <2>1, <3>1, <3>2, ToldValue DEF ToldType
  <2>6. CounterType' /\ ListType'
    BY <1>0, <1>10 DEF CounterType, ListType, ReceiveTune, Take
  <2> QED BY <2>2, <2>3, <2>4, <2>5, <2>6 DEF TypeOK
<1>11. CASE ReceiveSeek
  <2>1. Head(queue).mode \in Modes
    BY <1>0, <1>11 DEF AppType, Messages, ReceiveSeek, Take
  <2>2. AppType'
    BY <1>0, <1>11 DEF AppType, ReceiveSeek, Take
  <2>3. SeekType'
    BY <1>0, <1>11, <2>1 DEF SeekType, SeekIsTuned, Tuned, ReceiveSeek, Take
  <2>4. CounterType' /\ ListType' /\ TunerType' /\ ToldType'
    BY <1>0, <1>11 DEF CounterType, ListType, TunerType, ToldType, ReceiveSeek, Take
  <2> QED BY <2>2, <2>3, <2>4 DEF TypeOK
<1>12. CASE BeginStop
  <2>1. SeekType'
    BY <1>0, <1>12 DEF SeekType, BeginStop, Ends
  <2>2. AppType' /\ CounterType' /\ ListType' /\ TunerType' /\ ToldType'
    BY <1>0, <1>12 DEF AppType, CounterType, ListType, TunerType, ToldType, BeginStop, Ends
  <2> QED BY <2>1, <2>2 DEF TypeOK
<1>13. CASE BeginSeek
  <2>1. SeekType'
    BY <1>0, <1>13 DEF SeekType, BeginSeek, Ends
  <2>2. ListType'
    <3>1. <<>> \in Seq(Nat)
      OBVIOUS
    <3>2. CASE next = "scan_station"
      BY <1>0, <1>13, <3>1, <3>2 DEF ListType, SeekType, BeginSeek, Ends
    <3>3. CASE next # "scan_station"
      BY <1>0, <1>13, <3>3 DEF ListType, BeginSeek, Ends
    <3> QED BY <3>2, <3>3
  <2>3. AppType' /\ CounterType' /\ TunerType' /\ ToldType'
    BY <1>0, <1>13 DEF AppType, CounterType, TunerType, ToldType, BeginSeek, Ends
  <2> QED BY <2>1, <2>2, <2>3 DEF TypeOK
<1>14. CASE OnAir
  <2>1. SeekType'
    BY <1>0, <1>14 DEF SeekType, OnAir, InStep
  <2>2. CounterType'
    BY <1>0, <1>14, TickedType DEF CounterType, OnAir, InStep
  <2>3. ToldType'
    BY <1>0, <1>14 DEF ToldType, Told, SeekType, ListType, OnAir, InStep
  <2>4. AppType' /\ ListType' /\ TunerType'
    BY <1>0, <1>14 DEF AppType, ListType, TunerType, OnAir, InStep
  <2> QED BY <2>1, <2>2, <2>3, <2>4 DEF TypeOK
<1>15. CASE SetFreq
  <2>1. SeekType'
    BY <1>0, <1>15 DEF SeekType, SeekIsTuned, Tuned, SetFreq, InStep
  <2>2. CounterType'
    BY <1>0, <1>15, TickedType DEF CounterType, SetFreq, InStep
  <2>3. TunerType'
    BY <1>0, <1>15 DEF TunerType, Retuned, Tuner, SeekIsTuned, SeekType, Tuned, SetFreq, InStep
  <2>4. ToldType'
    BY <1>0, <1>15 DEF ToldType, TellQuality, Told, ListType, SeekIsTuned, SeekType, Tuned, SetFreq, InStep
  <2>5. AppType' /\ ListType'
    BY <1>0, <1>15 DEF AppType, ListType, SetFreq, InStep
  <2> QED BY <2>1, <2>2, <2>3, <2>4, <2>5 DEF TypeOK
<1>16. CASE PrecheckPasses
  <2>1. SeekType'
    BY <1>0, <1>16 DEF SeekType, PrecheckPasses, InStep
  <2>2. CounterType'
    BY RadioAssumption, <1>0, <1>16 DEF CounterType, PrecheckPasses, InStep
  <2>3. AppType' /\ ListType' /\ TunerType' /\ ToldType'
    BY <1>0, <1>16 DEF AppType, ListType, TunerType, ToldType, PrecheckPasses, InStep
  <2> QED BY <2>1, <2>2, <2>3 DEF TypeOK
<1>17. CASE CheckStatus
  <2>1. SeekType'
    BY <1>0, <1>17 DEF SeekType, CheckStatus, InStep
  <2>2. CounterType'
    BY <1>0, <1>17, TickedType DEF CounterType, CheckStatus, InStep
  <2>3. AppType' /\ ListType' /\ TunerType' /\ ToldType'
    BY <1>0, <1>17 DEF AppType, ListType, TunerType, ToldType, CheckStatus, InStep
  <2> QED BY <2>1, <2>2, <2>3 DEF TypeOK
<1>18. CASE Reject
  <2>1. SeekType'
    BY <1>0, <1>18 DEF SeekType, Home, Reject, InStep, GoOn, ComeRound
  <2>2. CounterType'
    BY <1>0, <1>18, TickedType DEF CounterType, Reject, InStep, GoOn, ComeRound
  <2>3. ListType'
    BY <1>0, <1>18 DEF ListType, Judged, SeekIsTuned, SeekType, Tuned, Reject, InStep, GoOn, ComeRound
  <2>4. ToldType'
    BY <1>0, <1>18 DEF ToldType, TellQuality, Told, ListType, SeekIsTuned, SeekType, Tuned, Reject, InStep, GoOn, ComeRound
  <2>5. AppType' /\ TunerType'
    BY <1>0, <1>18 DEF AppType, TunerType, Reject, InStep, GoOn, ComeRound
  <2> QED BY <2>1, <2>2, <2>3, <2>4, <2>5 DEF TypeOK
<1>19. CASE ListStation
  <2>1. SeekType'
    BY <1>0, <1>19 DEF SeekType, Home, ListStation, InStep, GoOn, ComeRound
  <2>2. CounterType'
    <3>1. wait' = Ticked /\ tries' = tries /\ (listen' = listen \/ listen' = 0)
      BY <1>19 DEF ListStation, InStep, GoOn, ComeRound
    <3> QED BY RadioAssumption, <1>0, <3>1, TickedType DEF CounterType
  <2>3. ListType'
    <3>1. freq \in Nat
      BY <1>19 DEF SeekIsTuned, Tuned, ListStation, InStep, GoOn, ComeRound
    <3>2. Listed \in Seq(Nat)
      BY <1>0, <3>1 DEF ListType, Listed
    <3> QED BY <1>0, <1>19, <3>1, <3>2 DEF ListType, Judged, ListStation, InStep, GoOn, ComeRound
  <2>4. TunerType'
    BY <1>0, <1>19, MutedType DEF TunerType, ListStation, InStep, GoOn, ComeRound
  <2>5. AppType' /\ ToldType'
    BY <1>0, <1>19 DEF AppType, ToldType, ListStation, InStep, GoOn, ComeRound
  <2> QED BY <2>1, <2>2, <2>3, <2>4, <2>5 DEF TypeOK
<1>20. CASE CheckItsPi
  <2>1. SeekType'
    BY <1>0, <1>20 DEF SeekType, Home, CheckItsPi, InStep, GoOn, ComeRound
  <2>2. CounterType'
    BY RadioAssumption, <1>0, <1>20, TickedType DEF CounterType, CheckItsPi, InStep, GoOn, ComeRound
  <2>3. ListType'
    BY <1>0, <1>20 DEF ListType, Judged, SeekIsTuned, SeekType, Tuned, CheckItsPi, InStep, GoOn, ComeRound
  <2>4. AppType' /\ TunerType' /\ ToldType'
    BY <1>0, <1>20 DEF AppType, TunerType, ToldType, CheckItsPi, InStep, GoOn, ComeRound
  <2> QED BY <2>1, <2>2, <2>3, <2>4 DEF TypeOK
<1>21. CASE Find
  <2>1. SeekType'
    BY <1>0, <1>21 DEF SeekType, Find, InStep, GoOn
  <2>2. CounterType'
    BY <1>0, <1>21, TickedType DEF CounterType, Find, InStep, GoOn
  <2>3. ListType'
    BY <1>0, <1>21 DEF ListType, Judged, SeekIsTuned, SeekType, Tuned, Find, InStep, GoOn
  <2>4. ToldType'
    BY <1>0, <1>21 DEF ToldType, TellQuality, Told, ListType, SeekIsTuned, SeekType, Tuned, Find, InStep, GoOn
  <2>5. AppType' /\ TunerType'
    BY <1>0, <1>21 DEF AppType, TunerType, Find, InStep, GoOn
  <2> QED BY <2>1, <2>2, <2>3, <2>4, <2>5 DEF TypeOK
<1>22. CASE Listen
  <2>1. SeekType'
    BY <1>0, <1>22 DEF SeekType, Listen, InStep
  <2>2. CounterType'
    BY RadioAssumption, <1>0, <1>22, TickedType DEF CounterType, Phase, Listen, InStep
  <2>3. TunerType'
    BY <1>0, <1>22, MutedType DEF TunerType, Listen, InStep
  <2>4. AppType' /\ ListType' /\ ToldType'
    BY <1>0, <1>22 DEF AppType, ListType, ToldType, Listen, InStep
  <2> QED BY <2>1, <2>2, <2>3, <2>4 DEF TypeOK
<1>23. CASE AwaitPi
  <2>1. SeekType'
    BY <1>0, <1>23 DEF SeekType, AwaitPi, InStep
  <2>2. CounterType'
    BY <1>0, <1>23, TickedType DEF CounterType, AwaitPi, InStep
  <2>3. AppType' /\ ListType' /\ TunerType' /\ ToldType'
    BY <1>0, <1>23 DEF AppType, ListType, TunerType, ToldType, AwaitPi, InStep
  <2> QED BY <2>1, <2>2, <2>3 DEF TypeOK
<1>24. CASE FindPi
  <2>1. SeekType'
    BY <1>0, <1>24 DEF SeekType, FindPi, InStep, GoOn
  <2>2. CounterType'
    BY RadioAssumption, <1>0, <1>24 DEF CounterType, FindPi, InStep, GoOn
  <2>3. AppType' /\ ListType' /\ TunerType' /\ ToldType'
    BY <1>0, <1>24 DEF AppType, ListType, TunerType, ToldType, FindPi, InStep, GoOn
  <2> QED BY <2>1, <2>2, <2>3 DEF TypeOK
<1>25. CASE MissPi
  <2>1. SeekType'
    BY <1>0, <1>25 DEF SeekType, MissPi, InStep
  <2>2. CounterType'
    BY RadioAssumption, <1>0, <1>25, TickedType DEF CounterType, MissPi, InStep
  <2>3. AppType' /\ ListType' /\ TunerType' /\ ToldType'
    BY <1>0, <1>25 DEF AppType, ListType, TunerType, ToldType, MissPi, InStep
  <2> QED BY <2>1, <2>2, <2>3 DEF TypeOK
<1>26. CASE Stop
  <2>1. SeekType'
    BY <1>0, <1>26 DEF SeekType, Stop, InStep
  <2>2. CounterType'
    BY <1>0, <1>26, TickedType DEF CounterType, Stop, InStep
  <2>3. ListType'
    BY <1>0, <1>26 DEF ListType, Stop, InStep
  <2>4. TunerType'
    BY <1>0, <1>26 DEF TunerType, Retuned, Tuner, SeekIsTuned, SeekType, Tuned, Stop, InStep
  <2>5. ToldType'
    BY <1>0, <1>26 DEF ToldType, Told, ListType, SeekIsTuned, SeekType, Tuned, Stop, InStep
  <2>6. AppType'
    BY <1>0, <1>26 DEF AppType, Stop, InStep
  <2> QED BY <2>1, <2>2, <2>3, <2>4, <2>5, <2>6 DEF TypeOK
<1>27. CASE UNCHANGED vars
  BY <1>0, <1>27 DEF TypeOK, AppType, SeekType, CounterType, ListType, TunerType, ToldType
<1> QED BY <1>1, <1>2, <1>3, <1>4, <1>5, <1>6, <1>7, <1>8, <1>9, <1>10, <1>11, <1>12, <1>13, <1>14, <1>15, <1>16, <1>17, <1>18, <1>19, <1>20, <1>21, <1>22, <1>23, <1>24, <1>25, <1>26, <1>27
  DEF Next, Application, Service, Receive, SeekHandler

(* The invariant holds in every reachable state. *)
THEOREM Invariance == Spec => []IInv
<1>1. IInv /\ [Next]_vars => IInv'
  <2> SUFFICES ASSUME IInv, [Next]_vars PROVE IInv'
    OBVIOUS
  <2>0. TypeOK /\ SeekType /\ SeekIsTuned /\ Phase /\ Aligned /\ Agreed
    BY DEF IInv, TypeOK
  <2>1. SeekIsTuned'
    BY <2>0, TunedStep
  <2>2. TypeOK'
    BY <2>0, <2>1, TypeStep
  <2>3. Phase' /\ Agreed' /\ Aligned'
    BY <2>0, PhaseStep, AgreedStep, AlignedStep
  <2> QED BY <2>1, <2>2, <2>3 DEF IInv
<1> QED BY <1>1, InitIInv, PTL DEF Spec

(* Every variable of the service keeps its type. *)
THEOREM TypeCorrect == Spec => []TypeOK
<1>1. IInv => TypeOK
  BY DEF IInv
<1> QED BY <1>1, Invariance, PTL

(* A seek that is not disturbed stays on the frequencies of its band, from *)
(* its start to its end: it cannot step over the frequency it is to end at. *)
THEOREM SeekStaysOnGrid == Spec => []OnGrid
<1>1. IInv => OnGrid
  BY DEF IInv, Aligned
<1> QED BY <1>1, Invariance, PTL

(* Without a seek the tuner plays what the service and the application     *)
(* take it to play, however the last seek ended.                           *)
THEOREM RadioSettles == Spec => []Settled
<1>1. IInv => Settled
  BY DEF IInv, Phase, Agreed, Settled
<1> QED BY <1>1, Invariance, PTL

-----------------------------------------------------------------------------
(* One round of the band. *)

Going == Seeking /\ ~disturbed /\ pc # "begin"

(* What has been judged is what the round has passed, in the direction of  *)
(* the mode, and between two steps also the frequency it is at.            *)
JudgedPassed ==
  /\ judged \subseteq Grid(config[band])
  /\ \A g \in Grid(config[band]) :
       g \in judged <=> Passed(mode \in Downs, startFreq, freq, g)

JudgedHere ==
  /\ freq # startFreq /\ judged \subseteq Grid(config[band])
  /\ \A g \in Grid(config[band]) :
       g \in judged <=> g = freq \/ Passed(mode \in Downs, startFreq, freq, g)

RoundInv ==
  /\ pc = "begin" => freq = startFreq
  /\ Going /\ step = "start" => judged = {} /\ freq = startFreq
  /\ Going /\ step \in {"set_freq", "listen", "check_pi"} => JudgedHere
  /\ Going /\ Judging => JudgedPassed

(* Steps that move neither the round nor its band. *)
LEMMA RoundStays ==
  ASSUME RoundInv,
         UNCHANGED <<mode, freq, startFreq, judged, band>>,
         pc' = "begin" => pc = "begin",
         Going' => Going /\ config'[band] = config[band],
         \/ step' \in {"stop", "on_air"} \/ step' = step
         \/ Judging /\ Judging'
         \/ step = "listen" /\ step' = "set_freq"
         \/ step = "check_pi" /\ step' = "set_freq"
  PROVE  RoundInv'
<1>1. Judging => step \notin {"start", "set_freq", "listen", "check_pi", "stop", "on_air"}
  BY DEF Judging
<1>2. Judging' => step' \notin {"start", "set_freq", "listen", "check_pi", "stop", "on_air"}
  BY DEF Judging
<1>3. Going' /\ step' = "start" => Going /\ step = "start"
  BY <1>2
<1>4. Going' /\ step' \in {"set_freq", "listen", "check_pi"} => Going /\ step \in {"set_freq", "listen", "check_pi"}
  BY <1>2
<1>5. Going' /\ Judging' => Going /\ Judging
  BY <1>2 DEF Judging
<1>6. Going' => (JudgedHere => JudgedHere') /\ (JudgedPassed => JudgedPassed')
  BY DEF JudgedHere, JudgedPassed
<1> QED
  BY <1>3, <1>4, <1>5, <1>6 DEF RoundInv

(* A judgement ends the round, or the step is behind it. *)
LEMMA RoundJudges ==
  ASSUME IInv, RoundInv, InStep({"precheck", "check"}), mode' = mode, Judged,
         \/ step' = "stop"
         \/ freq' = freq /\ ~AtStart /\ step' \in {"set_freq", "listen", "check_pi"}
  PROVE  RoundInv'
<1>1. pc = "seek" /\ pc' = "receive" /\ Judging /\ UNCHANGED <<config, band, startFreq, disturbed>>
  BY DEF InStep, Judging
<1>2. Going' => Going
  BY <1>1 DEF Going
<1>3. CASE step' = "stop"
  BY <1>1, <1>3 DEF RoundInv, Judging
<1>4. CASE freq' = freq /\ ~AtStart /\ step' \in {"set_freq", "listen", "check_pi"}
  <2>1. ~Judging' /\ step' # "start"
    BY <1>4 DEF Judging
  <2>2. ASSUME Going' PROVE JudgedHere'
    <3>1. JudgedPassed /\ freq \in Grid(config[band])
      BY <1>1, <1>2, <2>2 DEF RoundInv, IInv, Aligned, OnGrid, Going
    <3>2. judged' = judged \cup {freq} /\ freq # startFreq
      BY <1>4 DEF Judged, AtStart
    <3> QED
      BY <1>1, <1>4, <3>1, <3>2 DEF JudgedPassed, JudgedHere
  <2> QED
    BY <1>1, <1>4, <2>1, <2>2 DEF RoundInv
<1> QED
  BY <1>3, <1>4

LEMMA RoundNext ==
  ASSUME IInv, RoundInv, [Next]_vars
  PROVE  RoundInv'
<1>1. CASE Open \/ SetTune \/ SetSeek \/ SetBandFreqConfig \/ BeginClose \/ EndClose
  <2>1. UNCHANGED <<mode, freq, startFreq, judged, band, step, pc>>
    BY <1>1 DEF Open, SetTune, SetSeek, Send, SetBandFreqConfig, BeginClose, EndClose
  <2>2. Going' => Going /\ config'[band] = config[band]
    <3>1. CASE SetBandFreqConfig
      BY <2>1, <3>1 DEF SetBandFreqConfig, Going
    <3>2. CASE Open \/ SetTune \/ SetSeek \/ BeginClose \/ EndClose
      <4>1. UNCHANGED <<config, disturbed>>
        BY <3>2 DEF Open, SetTune, SetSeek, Send, BeginClose, EndClose
      <4> QED
        BY <2>1, <4>1 DEF Going
    <3> QED
      BY <1>1, <3>1, <3>2
  <2> QED
    BY <2>1, <2>2, RoundStays
<1>2. CASE ReceiveNothing \/ RefuseOpen
  <2>1. UNCHANGED <<mode, freq, startFreq, judged, band, step, disturbed, config>> /\ pc = "receive" /\ pc' = "seek"
    BY <1>2 DEF ReceiveNothing, RefuseOpen, Take
  <2> QED
    BY <2>1, RoundStays DEF Going
<1>3. CASE ReceiveOpen
  <2>1. pc' = "seek" /\ mode' = mode /\ disturbed' = (disturbed \/ Seeking)
    BY <1>3 DEF ReceiveOpen
  <2> QED
    BY <2>1 DEF RoundInv, Going
<1>4. CASE ReceiveTune
  <2>1. pc' = "seek" /\ mode' = IF Seeking THEN "stop" ELSE mode
    BY <1>4 DEF ReceiveTune
  <2>2. ~Going'
    BY <2>1 DEF Going
  <2> QED
    BY <2>1, <2>2 DEF RoundInv
<1>5. CASE ReceiveSeek
  <2>1. pc' = "begin" /\ freq' = startFreq'
    BY <1>5 DEF ReceiveSeek
  <2> QED
    BY <2>1 DEF RoundInv, Going
<1>6. CASE BeginStop
  BY <1>6 DEF BeginStop, RoundInv, Judging
<1>7. CASE BeginSeek
  <2>1. pc = "begin" /\ pc' = "seek" /\ judged' = {} /\ UNCHANGED <<freq, startFreq, step>> /\ step = "start"
    BY <1>7 DEF BeginSeek, IInv, Phase
  <2>2. freq' = startFreq'
    BY <2>1 DEF RoundInv
  <2> QED
    BY <2>1, <2>2 DEF RoundInv, Judging
<1>8. CASE OnAir
  BY <1>8 DEF OnAir, InStep, RoundInv, Judging
<1>9. CASE SetFreq
  <2> DEFINE c == config[band]
             down == mode \in Downs
  <2>1. /\ pc = "seek" /\ pc' = "receive" /\ UNCHANGED <<config, band, startFreq, disturbed, mode, judged>>
        /\ step \in {"start", "set_freq"} /\ step' \in {"stop", "precheck"}
        /\ freq' = NextFreq(c, freq, down)
    BY <1>9 DEF SetFreq, InStep
  <2>2. IsBand(c) /\ down \in BOOLEAN
    BY <1>9, BandType DEF IInv, SeekIsTuned, SetFreq, InStep
  <2>3. ASSUME Going', step' = "precheck" PROVE JudgedPassed'
    <3>1. Going /\ freq \in Grid(c) /\ startFreq \in Grid(c)
      BY <2>1, <2>3 DEF Going, IInv, Aligned, OnGrid
    <3>2. CASE step = "start"
      <4>1. judged = {} /\ freq = startFreq
        BY <3>1, <3>2 DEF RoundInv
      <4>2. \A g \in Grid(c) : ~Passed(down, startFreq, freq', g)
        BY <2>1, <2>2, <3>1, <4>1, RoundBegins
      <4> QED
        BY <2>1, <4>1, <4>2 DEF JudgedPassed
    <3>3. CASE step = "set_freq"
      <4>1. JudgedHere
        BY <3>1, <3>3 DEF RoundInv
      <4>2. freq # startFreq
        BY <4>1 DEF JudgedHere
      <4>3. \A g \in Grid(c) : Passed(down, startFreq, freq', g) <=> g = freq \/ Passed(down, startFreq, freq, g)
        BY <2>1, <2>2, <3>1, <4>2, RoundStep
      <4> QED
        BY <2>1, <4>1, <4>3 DEF JudgedPassed, JudgedHere
    <3> QED
      BY <2>1, <3>2, <3>3
  <2> QED
    BY <2>1, <2>3 DEF RoundInv, Judging
<1>10. CASE PrecheckPasses \/ CheckStatus
  <2>1. /\ UNCHANGED <<mode, freq, startFreq, judged, band, disturbed, config>> /\ pc = "seek" /\ pc' = "receive"
        /\ Judging /\ Judging'
    BY <1>10 DEF PrecheckPasses, CheckStatus, InStep, Judging
  <2> QED
    BY <2>1, RoundStays DEF Going
<1>11. CASE Reject \/ ListStation \/ CheckItsPi
  <2>1. InStep({"precheck", "check"}) /\ mode' = mode /\ Judged
    BY <1>11 DEF Reject, ListStation, CheckItsPi, InStep
  <2>2. \/ step' = "stop"
        \/ freq' = freq /\ ~AtStart /\ step' \in {"set_freq", "listen", "check_pi"}
    BY <1>11 DEF Reject, ListStation, CheckItsPi, ComeRound, GoOn
  <2> QED
    BY <2>1, <2>2, RoundJudges
<1>12. CASE Find
  <2>1. InStep({"precheck", "check"}) /\ mode' = mode /\ Judged /\ step' = "stop"
    BY <1>12 DEF Find, InStep, GoOn
  <2> QED
    BY <2>1, RoundJudges
<1>13. CASE Listen \/ AwaitPi \/ FindPi \/ MissPi
  <2>1. /\ UNCHANGED <<mode, freq, startFreq, judged, band, disturbed, config>> /\ pc = "seek" /\ pc' = "receive"
        /\ step \in {"listen", "check_pi"} /\ step' \in {step, "set_freq"}
    BY <1>13 DEF Listen, AwaitPi, FindPi, MissPi, InStep, GoOn
  <2> QED
    BY <2>1, RoundStays DEF Going
<1>14. CASE Stop
  BY <1>14 DEF Stop, InStep, RoundInv, Judging
<1>15. CASE UNCHANGED vars
  BY <1>15, RoundStays DEF Going
<1> QED
  BY <1>1, <1>2, <1>3, <1>4, <1>5, <1>6, <1>7, <1>8, <1>9, <1>10, <1>11, <1>12, <1>13, <1>14, <1>15
  DEF Next, Application, Service, Receive, SeekHandler

LEMMA RoundIsOnePass == IInv /\ RoundInv => OnePass
<1> SUFFICES ASSUME IInv, RoundInv, Going, Judging
             PROVE  freq \notin judged /\ (AtStart => judged \cup {freq} = Grid(config[band]))
  BY DEF OnePass, Going
<1>1. JudgedPassed /\ freq \in Grid(config[band]) /\ startFreq \in Grid(config[band])
  BY DEF RoundInv, IInv, Aligned, OnGrid, Going
<1>2. IsBand(config[band]) /\ (mode \in Downs) \in BOOLEAN
  BY BandType DEF IInv, SeekIsTuned, Going
<1>3. /\ ~Passed(mode \in Downs, startFreq, freq, freq)
      /\ \A g \in Grid(config[band]) : g # startFreq => Passed(mode \in Downs, startFreq, startFreq, g)
  <2> DEFINE down == mode \in Downs
  <2>1. down \in BOOLEAN
    BY <1>2
  <2> HIDE DEF down
  <2>2. /\ ~Passed(down, startFreq, freq, freq)
        /\ \A g \in Grid(config[band]) : g # startFreq => Passed(down, startFreq, startFreq, g)
    BY <1>1, <1>2, <2>1, RoundPassesAll
  <2> QED
    BY <2>2 DEF down
<1> QED
  BY <1>1, <1>3 DEF JudgedPassed, AtStart

(* A seek goes round its band once: no frequency is judged twice, and when *)
(* it is back at its start all of them have been.                          *)
THEOREM SeekIsOnePass == Spec => []OnePass
<1>1. Init => RoundInv
  BY DEF Init, RoundInv, Going
<1>2. IInv /\ RoundInv => OnePass
  BY RoundIsOnePass
<1>3. IInv /\ RoundInv /\ [Next]_vars => RoundInv'
  BY RoundNext
<1> QED
  BY <1>1, <1>2, <1>3, Invariance, PTL DEF Spec

(* The station list of a scan holds frequencies of its band which the scan  *)
(* has judged, each once; and whatever happens, no more than it has room.   *)
StationsOnce ==
  mode = "scan_station" /\ ~disturbed =>
    /\ \A i, j \in DOMAIN stations : stations[i] = stations[j] => i = j
    /\ \A i \in DOMAIN stations : stations[i] \in judged \cap Grid(config[band])

StationsFit == Len(stations) <= STATIONS

LEMMA ListedStation ==
  ASSUME stations \in Seq(Nat), STATIONS \in Nat, freq \in Nat, StationsFit
  PROVE  /\ Len(Listed) <= STATIONS
         /\ \/ Listed = stations
            \/ /\ DOMAIN Listed = 1 .. Len(stations) + 1 /\ Listed[Len(stations) + 1] = freq
               /\ \A j \in DOMAIN stations : Listed[j] = stations[j]
<1>1. Len(stations) \in Nat /\ DOMAIN stations = 1 .. Len(stations)
  BY LenProperties
<1> DEFINE l == Append(stations, freq)
<1>2. /\ l \in Seq(Nat) /\ Len(l) = Len(stations) + 1 /\ DOMAIN l = 1 .. Len(stations) + 1
      /\ l[Len(stations) + 1] = freq /\ \A j \in 1 .. Len(stations) : l[j] = stations[j]
  BY <1>1, AppendProperties, LenProperties
<1>3. CASE Len(stations) < STATIONS
  <2>1. Listed = l
    BY <1>3 DEF Listed
  <2>2. Len(l) <= STATIONS
    BY <1>1, <1>2, <1>3
  <2> HIDE DEF l
  <2> QED
    BY <1>1, <1>2, <2>1, <2>2
<1>4. CASE ~(Len(stations) < STATIONS)
  <2>1. Listed = stations
    BY <1>4 DEF Listed
  <2> QED
    BY <2>1 DEF StationsFit
<1> QED
  BY <1>3, <1>4

LEMMA StationsFitNext ==
  ASSUME IInv, StationsFit, [Next]_vars
  PROVE  StationsFit'
<1>1. CASE ListStation
  <2>1. stations \in Seq(Nat) /\ freq \in Nat /\ STATIONS \in Nat
    BY <1>1, RadioAssumption DEF IInv, TypeOK, ListType, SeekIsTuned, Tuned, ListStation, InStep
  <2> QED
    BY <1>1, <2>1, ListedStation DEF ListStation, StationsFit
<1>2. CASE BeginSeek
  BY <1>2, RadioAssumption DEF BeginSeek, StationsFit
<1>3. CASE ~ListStation /\ ~BeginSeek
  <2>1. stations' = stations
    BY <1>3 DEF Next, Application, Service, Receive, SeekHandler, Open, SetTune, SetSeek, Send, SetBandFreqConfig,
                BeginClose, EndClose, ReceiveNothing, ReceiveOpen, RefuseOpen, Take, ReceiveTune, ReceiveSeek,
                BeginStop, InStep, OnAir, SetFreq, PrecheckPasses, CheckStatus, Reject, CheckItsPi, Find, Listen,
                AwaitPi, FindPi, MissPi, Stop
  <2> QED
    BY <2>1 DEF StationsFit
<1> QED
  BY <1>1, <1>2, <1>3

LEMMA StationsOnceNext ==
  ASSUME IInv, RoundInv, OnePass, StationsFit, StationsOnce, [Next]_vars
  PROVE  StationsOnce'
<1>1. CASE Open \/ SetTune \/ SetSeek \/ BeginClose \/ EndClose \/ ReceiveNothing \/ RefuseOpen \/ BeginStop
  <2>1. UNCHANGED <<mode, disturbed, stations, judged, config, band>>
    BY <1>1 DEF Open, SetTune, SetSeek, Send, BeginClose, EndClose, ReceiveNothing, RefuseOpen, Take, BeginStop
  <2> QED
    BY <2>1 DEF StationsOnce
<1>2. CASE SetBandFreqConfig
  BY <1>2 DEF SetBandFreqConfig, StationsOnce
<1>3. CASE ReceiveOpen
  BY <1>3 DEF ReceiveOpen, StationsOnce
<1>4. CASE ReceiveTune
  BY <1>4 DEF ReceiveTune, StationsOnce
<1>5. CASE ReceiveSeek
  <2>1. UNCHANGED <<mode, stations, judged, config, band>> /\ disturbed' = (disturbed /\ Seeking)
    BY <1>5 DEF ReceiveSeek, Take
  <2> QED
    BY <2>1 DEF StationsOnce
<1>6. CASE BeginSeek
  BY <1>6 DEF BeginSeek, StationsOnce
<1>7. CASE ListStation
  <2>1. /\ pc = "seek" /\ step = "check" /\ mode = "scan_station" /\ mode' = mode
        /\ UNCHANGED <<band, disturbed, config>>
        /\ stations' = Listed /\ judged' = judged \cup {freq}
    BY <1>7 DEF ListStation, InStep, Judged
  <2> SUFFICES ASSUME ~disturbed
               PROVE  /\ \A i, j \in DOMAIN stations' : stations'[i] = stations'[j] => i = j
                      /\ \A i \in DOMAIN stations' : stations'[i] \in judged' \cap Grid(config[band])
    BY <2>1 DEF StationsOnce
  <2>2. freq \notin judged /\ freq \in Grid(config[band]) /\ freq \in Nat
    BY <2>1 DEF OnePass, Judging, IInv, Aligned, OnGrid, SeekIsTuned, Tuned
  <2>3. /\ \A i, j \in DOMAIN stations : stations[i] = stations[j] => i = j
        /\ \A i \in DOMAIN stations : stations[i] \in judged \cap Grid(config[band])
    BY <2>1 DEF StationsOnce
  <2>4. stations \in Seq(Nat) /\ STATIONS \in Nat
    BY RadioAssumption DEF IInv, TypeOK, ListType
  <2>5. CASE stations' = stations
    BY <2>1, <2>3, <2>5
  <2>6. CASE /\ DOMAIN stations' = 1 .. Len(stations) + 1 /\ stations'[Len(stations) + 1] = freq
             /\ \A j \in DOMAIN stations : stations'[j] = stations[j]
    <3>1. DOMAIN stations' = DOMAIN stations \cup {Len(stations) + 1}
      BY <2>4, <2>6, LenProperties
    <3>2. \A i \in DOMAIN stations : stations'[i] # freq
      BY <2>2, <2>3, <2>6
    <3> QED
      BY <2>1, <2>2, <2>3, <2>6, <3>1, <3>2
  <2> QED
    BY <2>1, <2>2, <2>4, <2>5, <2>6, ListedStation
<1>8. CASE Reject \/ CheckItsPi \/ Find
  <2>1. UNCHANGED <<mode, disturbed, stations, config, band>> /\ judged' = judged \cup {freq}
    BY <1>8 DEF Reject, CheckItsPi, Find, InStep, Judged
  <2> QED
    BY <2>1 DEF StationsOnce
<1>9. CASE SetFreq \/ PrecheckPasses \/ CheckStatus \/ Listen \/ AwaitPi \/ FindPi \/ MissPi
  <2>1. UNCHANGED <<mode, disturbed, stations, judged, config, band>>
    BY <1>9 DEF SetFreq, PrecheckPasses, CheckStatus, Listen, AwaitPi, FindPi, MissPi, InStep
  <2> QED
    BY <2>1 DEF StationsOnce
<1>10. CASE OnAir \/ Stop
  BY <1>10 DEF OnAir, Stop, StationsOnce
<1>11. CASE UNCHANGED vars
  BY <1>11 DEF StationsOnce
<1> QED
  BY <1>1, <1>2, <1>3, <1>4, <1>5, <1>6, <1>7, <1>8, <1>9, <1>10, <1>11
  DEF Next, Application, Service, Receive, SeekHandler

(* A scan for stations reports no station twice and none of another band,   *)
(* and does not write past the end of its list.                             *)
THEOREM SeekListsStations == Spec => [](StationsFit /\ StationsOnce)
<1> DEFINE ListInv == RoundInv /\ StationsFit /\ StationsOnce
<1>1. Init => ListInv
  BY RadioAssumption DEF Init, RoundInv, Going, StationsFit, StationsOnce
<1>2. IInv /\ ListInv /\ [Next]_vars => ListInv'
  BY RoundNext, RoundIsOnePass, StationsFitNext, StationsOnceNext
<1>3. ListInv => StationsFit /\ StationsOnce
  OBVIOUS
<1> HIDE DEF ListInv
<1> QED
  BY <1>1, <1>2, <1>3, Invariance, PTL DEF Spec

(***************************************************************************)
(* The tuner driver Si479xx.                                               *)
(***************************************************************************)

LEMMA FunctionIsSeq ==
  ASSUME NEW S, NEW n \in Nat, NEW f \in [1 .. n -> S]
  PROVE  f \in Seq(S) /\ Len(f) = n
<1>1. f \in Seq(S)
  BY SeqDef
<1>2. Len(f) \in Nat /\ DOMAIN f = 1 .. Len(f)
  BY <1>1, LenProperties
<1>3. 1 .. Len(f) = 1 .. n
  BY <1>2
<1>4. QED
  BY <1>1, <1>2, <1>3

Joins(p, q, r) == /\ Len(r) = Len(p) + Len(q)
                  /\ \A i \in 1 .. Len(p) : r[i] = p[i]
                  /\ \A i \in 1 .. Len(q) : r[Len(p) + i] = q[i]

LEMMA JoinTwo ==
  ASSUME NEW S, NEW p \in Seq(S), NEW q \in Seq(S)
  PROVE  p \o q \in Seq(S) /\ Joins(p, q, p \o q)
<1> DEFINE r == p \o q
<1>1. /\ r \in Seq(S) /\ Len(r) = Len(p) + Len(q)
      /\ \A i \in 1 .. Len(p) + Len(q) : r[i] = IF i <= Len(p) THEN p[i] ELSE q[i - Len(p)]
  BY ConcatProperties
<1>2. Len(p) \in Nat /\ Len(q) \in Nat
  BY LenProperties
<1> HIDE DEF r
<1>3. \A i \in 1 .. Len(p) : r[i] = p[i]
  BY <1>1, <1>2
<1>4. ASSUME NEW i \in 1 .. Len(q) PROVE r[Len(p) + i] = q[i]
  <2>1. Len(p) + i \in 1 .. Len(p) + Len(q) /\ ~(Len(p) + i <= Len(p)) /\ Len(p) + i - Len(p) = i
    BY <1>2
  <2>2. QED
    BY <1>1, <2>1
<1>5. QED
  BY <1>1, <1>3, <1>4 DEF r, Joins

Commands == [cmd : {"POWER_UP", "LOAD_INIT", "HOST_LOAD", "BOOT", "DAC_CONFIG"}, to : {{0}, {1}, {0, 1}}]

(* Where the image of the second chip begins, when there are two.          *)
SecondImage(type) == IF type = QUAD THEN 5 ELSE 5 + SEGMENTS

(* What the proofs need to know of the commands of a start-up.             *)
LEMMA BootSteps ==
  ASSUME NEW type \in 1 .. 4
  PROVE  LET b == BootUp(type)  n == Len(BootUp(type)) IN
         /\ n \in Nat \ {0}
         /\ \A i \in 1 .. n : /\ b[i] \in Commands
                              /\ b[i].to = Chips => b[i].cmd = "HOST_LOAD"
         /\ b[n] = [cmd |-> "DAC_CONFIG", to |-> {0}]
         /\ BothChips(type) =>
              LET f == SecondImage(type) IN
              /\ n = f + SEGMENTS + 2
              /\ \A i \in 1 .. n :
                   /\ b[i].cmd = "HOST_LOAD" /\ 1 \in b[i].to <=> i \in f .. f + SEGMENTS - 1
                   /\ i > f + SEGMENTS - 1 => b[i].cmd # "HOST_LOAD"
                   /\ b[i].cmd = "BOOT" /\ 1 \in b[i].to <=> i = f + SEGMENTS + 1
                   /\ i > f + SEGMENTS + 1 => 1 \notin b[i].to
<1> USE SiAssumption DEF SecondImage, BothChips, QUAD, DUAL
<1> DEFINE C == {"POWER_UP", "LOAD_INIT", "BOOT"}
           w == IF BothChips(type) THEN 2 ELSE 1
<1>1. ASSUME NEW cmd \in C
      PROVE  /\ Each(type, cmd) \in Seq(Commands) /\ Len(Each(type, cmd)) = w
             /\ \A i \in 1 .. w : Each(type, cmd)[i] = [cmd |-> cmd, to |-> {i - 1}]
  <2>1. Each(type, cmd) = [i \in 1 .. w |-> [cmd |-> cmd, to |-> {i - 1}]]
    BY DEF Each
  <2>2. w \in Nat /\ \A i \in 1 .. w : i = 1 \/ i = 2
    OBVIOUS
  <2> HIDE DEF w
  <2>3. \A i \in 1 .. w : {i - 1} \in {{0}, {1}, {0, 1}}
    BY <2>2
  <2>4. \A i \in 1 .. w : [cmd |-> cmd, to |-> {i - 1}] \in Commands
    BY <2>3 DEF Commands
  <2>5. Each(type, cmd) \in [1 .. w -> Commands]
    BY <2>1, <2>4
  <2>6. QED
    BY <2>1, <2>2, <2>5, FunctionIsSeq
<1> DEFINE h == IF type = 3 THEN SEGMENTS + SEGMENTS ELSE SEGMENTS
           Where(i) == IF type = QUAD THEN {0, 1} ELSE IF i <= SEGMENTS THEN {0} ELSE {1}
<1>2. /\ HostLoad(type) \in Seq(Commands) /\ Len(HostLoad(type)) = h
      /\ \A i \in 1 .. h : HostLoad(type)[i] = [cmd |-> "HOST_LOAD", to |-> Where(i)]
  <2>1. ASSUME NEW to \in {{0}, {1}, {0, 1}}
        PROVE  /\ Load(to) \in Seq(Commands) /\ Len(Load(to)) = SEGMENTS
               /\ \A i \in 1 .. SEGMENTS : Load(to)[i] = [cmd |-> "HOST_LOAD", to |-> to]
    <3>1. Load(to) \in [1 .. SEGMENTS -> Commands]
      BY DEF Load, Commands
    <3>2. \A i \in 1 .. SEGMENTS : Load(to)[i] = [cmd |-> "HOST_LOAD", to |-> to]
      BY DEF Load
    <3>3. QED
      BY <3>1, <3>2, FunctionIsSeq
  <2>2. CASE type = 4
    BY <2>1, <2>2 DEF HostLoad
  <2>3. CASE type = 3
    <3>1. HostLoad(type) = Load({0}) \o Load({1})
      BY <2>3 DEF HostLoad
    <3>2. /\ Load({0}) \in Seq(Commands) /\ Len(Load({0})) = SEGMENTS
          /\ \A i \in 1 .. SEGMENTS : Load({0})[i] = [cmd |-> "HOST_LOAD", to |-> {0}]
      BY <2>1
    <3>3. /\ Load({1}) \in Seq(Commands) /\ Len(Load({1})) = SEGMENTS
          /\ \A i \in 1 .. SEGMENTS : Load({1})[i] = [cmd |-> "HOST_LOAD", to |-> {1}]
      BY <2>1
    <3> DEFINE l == Load({0})
               m == Load({1})
    <3>4. l \in Seq(Commands) /\ m \in Seq(Commands)
      BY <3>2, <3>3
    <3> HIDE DEF l, m
    <3>5. /\ l \o m \in Seq(Commands) /\ Len(l \o m) = Len(l) + Len(m)
          /\ \A i \in 1 .. Len(l) + Len(m) : (l \o m)[i] = IF i <= Len(l) THEN l[i] ELSE m[i - Len(l)]
      BY <3>4, ConcatProperties
    <3>6. HostLoad(type) = l \o m /\ Len(l) = SEGMENTS /\ Len(m) = SEGMENTS
      BY <3>1, <3>2, <3>3 DEF l, m
    <3> DEFINE q == l \o m
    <3>7. \A i \in 1 .. h : q[i] = IF i <= SEGMENTS THEN l[i] ELSE m[i - SEGMENTS]
      BY <2>3, <3>5, <3>6
    <3> HIDE DEF q
    <3>8. ASSUME NEW i \in 1 .. h PROVE q[i] = [cmd |-> "HOST_LOAD", to |-> Where(i)]
      <4>1. CASE i <= SEGMENTS
        <5>1. i \in 1 .. SEGMENTS /\ Where(i) = {0}
          BY <2>3, <4>1
        <5>2. q[i] = l[i]
          BY <3>7, <4>1
        <5>3. QED
          BY <3>2, <5>1, <5>2 DEF l
      <4>2. CASE ~(i <= SEGMENTS)
        <5>1. i - SEGMENTS \in 1 .. SEGMENTS /\ Where(i) = {1}
          BY <2>3, <4>2
        <5>2. q[i] = m[i - SEGMENTS]
          BY <3>7, <4>2
        <5>3. QED
          BY <3>3, <5>1, <5>2 DEF m
      <4>3. QED
        BY <4>1, <4>2
    <3>9. QED
      BY <2>3, <3>5, <3>6, <3>8 DEF q
  <2>4. CASE type \in {1, 2}
    <3>1. HostLoad(type) = Load({0})
      BY <2>4 DEF HostLoad
    <3>2. h = SEGMENTS
      BY <2>4
    <3>3. /\ Load({0}) \in Seq(Commands) /\ Len(Load({0})) = SEGMENTS
          /\ \A i \in 1 .. SEGMENTS : Load({0})[i] = [cmd |-> "HOST_LOAD", to |-> {0}]
      BY <2>1
    <3>4. \A i \in 1 .. SEGMENTS : Where(i) = {0}
      BY <2>4
    <3> HIDE DEF h, Where
    <3>5. QED
      BY <3>1, <3>2, <3>3, <3>4
  <2>5. QED
    BY <2>2, <2>3, <2>4
<1> DEFINE last1 == <<[cmd |-> "DAC_CONFIG", to |-> {0}]>>
<1>3. last1 \in Seq(Commands) /\ Len(last1) = 1 /\ last1[1] = [cmd |-> "DAC_CONFIG", to |-> {0}]
  BY DEF Commands
<1> DEFINE b == BootUp(type)
           n == Len(BootUp(type))
<1> HIDE DEF last1
<1>0. w \in Nat \ {0} /\ h \in Nat \ {0} /\ (BothChips(type) => w = 2) /\ (~BothChips(type) => w = 1)
  OBVIOUS
<1> HIDE DEF w, h
<1>4. /\ n = w + w + h + w + 1
      /\ \A j \in 1 .. w : /\ b[j] = [cmd |-> "POWER_UP", to |-> {j - 1}]
                           /\ b[w + j] = [cmd |-> "LOAD_INIT", to |-> {j - 1}]
                           /\ b[w + w + h + j] = [cmd |-> "BOOT", to |-> {j - 1}]
      /\ \A j \in 1 .. h : b[w + w + j] = [cmd |-> "HOST_LOAD", to |-> Where(j)]
      /\ b[n] = [cmd |-> "DAC_CONFIG", to |-> {0}]
  <2> DEFINE e1 == Each(type, "POWER_UP")
             e2 == Each(type, "LOAD_INIT")
             e3 == HostLoad(type)
             e4 == Each(type, "BOOT")
  <2>2. /\ e1 \in Seq(Commands) /\ e2 \in Seq(Commands) /\ e3 \in Seq(Commands) /\ e4 \in Seq(Commands)
        /\ Len(e1) = w /\ Len(e2) = w /\ Len(e3) = h /\ Len(e4) = w
    BY <1>1, <1>2
  <2>3. b = e1 \o e2 \o e3 \o e4 \o last1
    BY DEF BootUp, last1
  <2>4. /\ \A j \in 1 .. w : /\ e1[j] = [cmd |-> "POWER_UP", to |-> {j - 1}]
                             /\ e2[j] = [cmd |-> "LOAD_INIT", to |-> {j - 1}]
                             /\ e4[j] = [cmd |-> "BOOT", to |-> {j - 1}]
        /\ \A j \in 1 .. h : e3[j] = [cmd |-> "HOST_LOAD", to |-> Where(j)]
    BY <1>1, <1>2
  <2>5. last1 \in Seq(Commands) /\ Len(last1) = 1
    BY <1>3
  <2> HIDE DEF e1, e2, e3, e4, b, Where
  <2>6. /\ Len(b) = Len(e1) + Len(e2) + Len(e3) + Len(e4) + Len(last1)
        /\ \A i \in 1 .. Len(e1) : b[i] = e1[i]
        /\ \A i \in 1 .. Len(e2) : b[Len(e1) + i] = e2[i]
        /\ \A i \in 1 .. Len(e3) : b[Len(e1) + Len(e2) + i] = e3[i]
        /\ \A i \in 1 .. Len(e4) : b[Len(e1) + Len(e2) + Len(e3) + i] = e4[i]
        /\ \A i \in 1 .. Len(last1) : b[Len(e1) + Len(e2) + Len(e3) + Len(e4) + i] = last1[i]
    <3>1. /\ e1 \in Seq(Commands) /\ e2 \in Seq(Commands) /\ e3 \in Seq(Commands)
          /\ e4 \in Seq(Commands) /\ last1 \in Seq(Commands)
      BY <2>2, <2>5
    <3> DEFINE s1 == e1 \o e2
               s2 == s1 \o e3
               s3 == s2 \o e4
               s4 == s3 \o last1
    <3>2. s1 \in Seq(Commands) /\ Joins(e1, e2, s1)
      BY <3>1, JoinTwo
    <3> HIDE DEF s1
    <3>3. s2 \in Seq(Commands) /\ Joins(s1, e3, s2)
      BY <3>1, <3>2, JoinTwo
    <3> HIDE DEF s2
    <3>4. s3 \in Seq(Commands) /\ Joins(s2, e4, s3)
      BY <3>1, <3>3, JoinTwo
    <3> HIDE DEF s3
    <3>5. s4 \in Seq(Commands) /\ Joins(s3, last1, s4)
      BY <3>1, <3>4, JoinTwo
    <3> HIDE DEF s4
    <3>6. Len(e1) \in Nat /\ Len(e2) \in Nat /\ Len(e3) \in Nat /\ Len(e4) \in Nat /\ Len(last1) \in Nat
      BY <3>1, LenProperties
    <3>7. /\ Len(s1) = Len(e1) + Len(e2) /\ Len(s2) = Len(e1) + Len(e2) + Len(e3)
          /\ Len(s3) = Len(e1) + Len(e2) + Len(e3) + Len(e4)
          /\ Len(s4) = Len(e1) + Len(e2) + Len(e3) + Len(e4) + Len(last1)
      BY <3>2, <3>3, <3>4, <3>5 DEF Joins
    <3>8. ASSUME NEW i \in 1 .. Len(e1) PROVE s4[i] = e1[i]
      <4>1. i \in 1 .. Len(s1) /\ i \in 1 .. Len(s2) /\ i \in 1 .. Len(s3)
        BY <3>6, <3>7
      <4>2. QED
        BY <3>2, <3>3, <3>4, <3>5, <4>1 DEF Joins
    <3>9. ASSUME NEW i \in 1 .. Len(e2) PROVE s4[Len(e1) + i] = e2[i]
      <4>1. Len(e1) + i \in 1 .. Len(s1) /\ Len(e1) + i \in 1 .. Len(s2) /\ Len(e1) + i \in 1 .. Len(s3)
        BY <3>6, <3>7
      <4>2. QED
        BY <3>2, <3>3, <3>4, <3>5, <4>1 DEF Joins
    <3>10. ASSUME NEW i \in 1 .. Len(e3) PROVE s4[Len(e1) + Len(e2) + i] = e3[i]
      <4>1. Len(s1) + i \in 1 .. Len(s2) /\ Len(s1) + i \in 1 .. Len(s3)
        BY <3>6, <3>7
      <4>2. s4[Len(s1) + i] = e3[i]
        BY <3>3, <3>4, <3>5, <4>1 DEF Joins
      <4>3. QED
        BY <3>7, <4>2
    <3>11. ASSUME NEW i \in 1 .. Len(e4) PROVE s4[Len(e1) + Len(e2) + Len(e3) + i] = e4[i]
      <4>1. Len(s2) + i \in 1 .. Len(s3)
        BY <3>6, <3>7
      <4>2. s4[Len(s2) + i] = e4[i]
        BY <3>4, <3>5, <4>1 DEF Joins
      <4>3. QED
        BY <3>7, <4>2
    <3>12. ASSUME NEW i \in 1 .. Len(last1) PROVE s4[Len(e1) + Len(e2) + Len(e3) + Len(e4) + i] = last1[i]
      <4>1. s4[Len(s3) + i] = last1[i]
        BY <3>5 DEF Joins
      <4>2. QED
        BY <3>7, <4>1
    <3>13. s4 = b
      BY <2>3 DEF s4, s3, s2, s1
    <3>14. QED
      BY <3>7, <3>8, <3>9, <3>10, <3>11, <3>12, <3>13
  <2>7. n = Len(b)
    BY DEF b
  <2> HIDE DEF n
  <2>8. n = w + w + h + w + 1
    BY <2>2, <2>5, <2>6, <2>7
  <2>9. b[n] = last1[1]
    BY <2>2, <2>5, <2>6, <2>8
  <2>10. QED
    <3>1. \A j \in 1 .. w : /\ b[j] = e1[j] /\ b[w + j] = e2[j] /\ b[w + w + h + j] = e4[j]
      BY <2>2, <2>6
    <3>2. \A j \in 1 .. h : b[w + w + j] = e3[j]
      BY <2>2, <2>6
    <3>3. QED
      BY <1>3, <2>4, <2>8, <2>9, <3>1, <3>2
<1> HIDE DEF b, n
<1>5. ASSUME NEW i \in 1 .. n
      PROVE  \/ \E j \in 1 .. w : i = j \/ i = w + j \/ i = w + w + h + j
             \/ \E j \in 1 .. h : i = w + w + j
             \/ i = n
  <2>1. i \in Nat /\ n = w + w + h + w + 1
    BY <1>4
  <2>2. \/ i \in 1 .. w \/ i - w \in 1 .. w \/ i - (w + w) \in 1 .. h \/ i - (w + w + h) \in 1 .. w \/ i = n
    BY <1>0, <2>1
  <2>3. /\ i = w + (i - w) /\ i = w + w + (i - (w + w)) /\ i = w + w + h + (i - (w + w + h))
    BY <1>0, <2>1
  <2>4. QED
    BY <2>2, <2>3
<1>6. n \in Nat \ {0} /\ b[n] = [cmd |-> "DAC_CONFIG", to |-> {0}]
  BY <1>0, <1>4
<1>7. ASSUME NEW i \in 1 .. n PROVE b[i] \in Commands /\ (b[i].to = Chips => b[i].cmd = "HOST_LOAD")
  <2>1. \A j \in 1 .. w : {j - 1} \in {{0}, {1}, {0, 1}} /\ {j - 1} # Chips
    <3>1. \A j \in 1 .. w : j - 1 = 0 \/ j - 1 = 1
      BY <1>0
    <3>2. Chips = {0, 1}
      BY DEF Chips
    <3>3. QED
      BY <3>1, <3>2
  <2>2. \A j \in 1 .. h : Where(j) \in {{0}, {1}, {0, 1}}
    OBVIOUS
  <2> HIDE DEF Where
  <2>3. CASE \E j \in 1 .. w : i = j \/ i = w + j \/ i = w + w + h + j
    <3>1. PICK j \in 1 .. w : i = j \/ i = w + j \/ i = w + w + h + j
      BY <2>3
    <3>2. \E c \in C : b[i] = [cmd |-> c, to |-> {j - 1}]
      BY <1>4, <3>1
    <3>3. QED
      BY <2>1, <3>2 DEF Commands
  <2>4. CASE \E j \in 1 .. h : i = w + w + j
    <3>1. PICK j \in 1 .. h : i = w + w + j
      BY <2>4
    <3>2. b[i] = [cmd |-> "HOST_LOAD", to |-> Where(j)]
      BY <1>4, <3>1
    <3>3. QED
      BY <2>2, <3>2 DEF Commands
  <2>5. CASE i = n
    <3>1. {0} # Chips
      BY DEF Chips
    <3>2. QED
      BY <1>4, <2>5, <3>1 DEF Commands
  <2>6. QED
    BY <1>5, <2>3, <2>4, <2>5
<1>8. ASSUME BothChips(type), NEW i \in 1 .. n
      PROVE  LET f == SecondImage(type) IN
             /\ n = f + SEGMENTS + 2
             /\ b[i].cmd = "HOST_LOAD" /\ 1 \in b[i].to <=> i \in f .. f + SEGMENTS - 1
             /\ i > f + SEGMENTS - 1 => b[i].cmd # "HOST_LOAD"
             /\ b[i].cmd = "BOOT" /\ 1 \in b[i].to <=> i = f + SEGMENTS + 1
             /\ i > f + SEGMENTS + 1 => 1 \notin b[i].to
  <2> DEFINE f == SecondImage(type)
  <2>1. /\ w = 2 /\ n = f + SEGMENTS + 2 /\ w + w + h = f + SEGMENTS - 1
        /\ f \in Nat /\ SEGMENTS \in Nat \ {0} /\ f >= 5
    BY <1>0, <1>4, <1>8 DEF h
  <2>2. \A j \in 1 .. h : 1 \in Where(j) <=> 4 + j >= f
    BY <1>8 DEF h
  <2> HIDE DEF f, Where
  <2>3. CASE \E j \in 1 .. w : i = j \/ i = w + j
    <3>1. PICK j \in 1 .. w : i = j \/ i = w + j
      BY <2>3
    <3>2. b[i].cmd = "POWER_UP" \/ b[i].cmd = "LOAD_INIT"
      <4>1. b[j] = [cmd |-> "POWER_UP", to |-> {j - 1}] /\ b[w + j] = [cmd |-> "LOAD_INIT", to |-> {j - 1}]
        BY <1>4
      <4>2. QED
        BY <3>1, <4>1
    <3>3. i < f
      BY <2>1, <3>1
    <3>4. QED
      BY <2>1, <3>2, <3>3 DEF f
  <2>4. CASE \E j \in 1 .. w : i = w + w + h + j
    <3>1. PICK j \in 1 .. w : i = w + w + h + j
      BY <2>4
    <3>2. b[i] = [cmd |-> "BOOT", to |-> {j - 1}]
      BY <1>4, <3>1
    <3>3. i > f + SEGMENTS - 1 /\ (1 \in {j - 1} <=> i = f + SEGMENTS + 1) /\ i <= f + SEGMENTS + 1
      BY <2>1, <3>1
    <3>4. QED
      BY <2>1, <3>2, <3>3 DEF f
  <2>5. CASE \E j \in 1 .. h : i = w + w + j
    <3>1. PICK j \in 1 .. h : i = w + w + j
      BY <2>5
    <3>2. b[i] = [cmd |-> "HOST_LOAD", to |-> Where(j)]
      BY <1>4, <3>1
    <3>3. i <= f + SEGMENTS - 1 /\ (1 \in Where(j) <=> i \in f .. f + SEGMENTS - 1)
      BY <1>0, <2>1, <2>2, <3>1
    <3>4. QED
      BY <2>1, <3>2, <3>3 DEF f
  <2>6. CASE i = n
    <3>1. b[i].cmd = "DAC_CONFIG" /\ b[i].to = {0}
      BY <1>4, <2>6
    <3>2. i > f + SEGMENTS + 1
      BY <2>1, <2>6
    <3>3. QED
      BY <2>1, <3>1, <3>2 DEF f
  <2>7. QED
    BY <1>5, <2>3, <2>4, <2>5, <2>6
<1>9. BothChips(type) => n = SecondImage(type) + SEGMENTS + 2
  <2>1. n \in 1 .. n
    BY <1>6
  <2>2. QED
    BY <1>8, <2>1
<1> HIDE DEF w, h, C, Where
<1>10. QED
  BY <1>6, <1>7, <1>8, <1>9 DEF b, n

AnyBand == SiBands \cup {Nowhere}
AllFreqs == UNION {SiFreqs[b] : b \in SiBands}
AnyFreq == AllFreqs \cup {Nowhere}
SiCalls == [op : {"none", "open", "tune", "close"}, type : 0 .. 4, t : Tuners, band : AnyBand, freq : AnyFreq]
SiEnds  == [call : SiCalls, ok : BOOLEAN, clean : BOOLEAN]
SiChips == [state : {"reset", "bootloader", "application"}, image : Nat]
Settings == [what : {"band", "tune", "freq"}, t : Tuners]

SiTypes ==
  /\ doing \in {"idle", "boot", "tuning"} /\ call \in SiCalls /\ siType \in 0 .. 4
  /\ initialized \in BOOLEAN /\ spi \subseteq Chips /\ chips \in [Chips -> SiChips]
  /\ at \in [Tuners -> [band : AnyBand, freq : AnyFreq]] /\ current \in [Tuners -> AnyBand]
  /\ frequency \in [Tuners -> [SiBands -> AnyFreq]]
  /\ attempts \in Nat /\ at_step \in Nat \ {0} /\ todo \in Seq(Settings)
  /\ faults \in Nat /\ siCalls \in Nat /\ last \in SiEnds
  /\ clean \in BOOLEAN /\ short \subseteq Chips /\ strays \subseteq Tuners

(* What is under way.                                                      *)
Opening == doing = "boot" =>
  /\ call.op = "open" /\ call.type = siType /\ siType \in 1 .. 4 /\ call.band \in SiBands
  /\ attempts > 0 /\ at_step \in 1 .. Len(BootUp(siType))
  /\ current = [t \in Tuners |-> Nowhere] /\ at = [t \in Tuners |-> Nothing]

Tuning == doing = "tuning" =>
  /\ call.band \in SiBands /\ Len(todo) > 0 /\ todo[Len(todo)].what # "band"
  /\ \/ call.op = "open" /\ call.type = siType /\ siType \in 1 .. 4
     \/ call.op = "tune" /\ Len(todo) = 1 /\ todo[1].t = call.t

(* The second chip has the pieces of its image that were sent to it so     *)
(* far, and is started once they were all sent; or it missed one.          *)
ImageSoFar == LET f == SecondImage(siType) IN
  \/ 1 \in short
  \/ /\ chips[1].image = IF at_step <= f THEN 0
                         ELSE IF at_step >= f + SEGMENTS THEN SEGMENTS ELSE at_step - f
     /\ at_step > f + SEGMENTS + 1 => chips[1].state = "application"
Starting == doing = "boot" /\ BothChips(siType) => ImageSoFar

AllStarted(type) == \A d \in AllChannels(type) : chips[d].state = "application" \/ d \in short \ {0}
Started == doing = "tuning" /\ call.op = "open" => AllStarted(siType)

(* The notes have the band of every tuner but the strays.                  *)
Noted == \A t \in Tuners : t \in strays \/ current[t] = at[t].band

(* A tune that has given the band and met no failure is in that band.      *)
InBand == doing = "tuning" /\ call.op = "tune" /\ todo[1].what = "freq" /\ clean /\ TakesTuner(call.t)
          => at[call.t].band = call.band

SiInv == SiTypes /\ Opening /\ Tuning /\ Starting /\ Started /\ Noted /\ InBand /\ AnswersTrue /\ TuneWorks

(* The commands of a start-up, by what becomes of the attempt.             *)
Retried == /\ attempts > 1 /\ attempts' = attempts - 1 /\ Reset /\ UNCHANGED <<doing, last, todo>>
GivenUp == /\ End(call, FALSE, clean') /\ attempts' = attempts - 1 /\ chips' \in [Chips -> SiChips]
           /\ UNCHANGED <<at, at_step, short, strays, todo>>
Onward  == \E n \in at_step .. Len(BootUp(siType)) + 1 :
             /\ Advance(n) /\ UNCHANGED <<at, strays>>
             /\ \/ /\ n = at_step + 1 /\ short' = short
                   /\ \E c \in Chips : /\ Step.to = {c} /\ Takes(c, Step.cmd)
                                       /\ chips' = [chips EXCEPT ![c] = Effect(@, Step.cmd)]
                \/ /\ n = at_step + 1 /\ Step.to = Chips
                   /\ \E lost \in SUBSET Chips : chips' = Loaded(Chips \ lost) /\ short' = short \cup lost
                \/ /\ n <= Len(BootUp(siType)) /\ AfterImage(n) /\ Step.cmd = "HOST_LOAD"
                   /\ short' = short \cup Step.to /\ chips' = chips

LEMMA NowhereTyped ==
  /\ Nowhere \in AnyBand /\ Nowhere \in AnyFreq /\ Nothing \in [band : AnyBand, freq : AnyFreq]
  /\ \A b \in SiBands : b \in AnyBand /\ \A f \in SiFreqs[b] : f \in AnyFreq
<1>1. Nowhere \in AnyBand
  BY DEF AnyBand
<1>2. Nowhere \in AnyFreq
  BY DEF AnyFreq
<1>3. \A b \in SiBands : b \in AnyBand
  BY DEF AnyBand
<1>4. ASSUME NEW b \in SiBands, NEW f \in SiFreqs[b] PROVE f \in AnyFreq
  <2>1. SiFreqs[b] \in {SiFreqs[x] : x \in SiBands}
    OBVIOUS
  <2>2. f \in UNION {SiFreqs[x] : x \in SiBands}
    BY <2>1
  <2>3. QED
    BY Zenon, <2>2 DEF AnyFreq, AllFreqs
<1>5. QED
  BY <1>1, <1>2, <1>3, <1>4 DEF Nothing

LEMMA EffectType ==
  ASSUME NEW chip \in SiChips, NEW cmd
  PROVE  Effect(chip, cmd) \in SiChips
<1>1. /\ [chip EXCEPT !.state = "bootloader"] \in SiChips
      /\ [chip EXCEPT !.state = "application"] \in SiChips
      /\ [chip EXCEPT !.image = @ + 1] \in SiChips
  BY DEF SiChips
<1>2. CASE cmd = "POWER_UP"
  BY <1>1, <1>2 DEF Effect
<1>3. CASE cmd = "HOST_LOAD"
  BY <1>1, <1>3 DEF Effect
<1>4. CASE cmd = "BOOT"
  BY <1>1, <1>4 DEF Effect
<1>5. CASE cmd \notin {"POWER_UP", "HOST_LOAD", "BOOT"}
  BY <1>5 DEF Effect
<1>6. QED
  BY <1>2, <1>3, <1>4, <1>5

LEMMA StartUpSteps ==
  ASSUME SiInv, BootCommand
  PROVE  /\ doing = "boot" /\ faults' \in Nat /\ clean' \in BOOLEAN /\ Step \in Commands
         /\ UNCHANGED <<call, siType, initialized, spi, current, frequency, siCalls>>
         /\ Retried \/ GivenUp \/ Onward
<1> USE SiAssumption
<1>1. /\ doing = "boot" /\ siType \in 1 .. 4 /\ at_step \in 1 .. Len(BootUp(siType)) /\ attempts > 0
      /\ UNCHANGED <<call, siType, initialized, spi, current, frequency, siCalls>>
  BY DEF BootCommand, SiInv, Opening
<1>2. /\ Len(BootUp(siType)) \in Nat \ {0} /\ Step \in Commands /\ (Step.to = Chips => Step.cmd = "HOST_LOAD")
  BY <1>1, BootSteps DEF Step
<1>3. /\ attempts \in Nat /\ faults \in Nat /\ clean \in BOOLEAN /\ chips \in [Chips -> SiChips]
  BY DEF SiInv, SiTypes
<1>4. \A c \in Chips : Effect(chips[c], Step.cmd) \in SiChips /\ Effect(chips[c], "HOST_LOAD") \in SiChips
  BY <1>3, EffectType
<1>5. ASSUME BootFailed, attempts = 1 => chips' \in [Chips -> SiChips]
      PROVE  Retried \/ GivenUp
  <2>1. CASE attempts > 1
    BY <1>5, <2>1 DEF BootFailed, Retried
  <2>2. CASE ~(attempts > 1)
    <3>1. attempts = 1
      BY <1>1, <1>3, <2>2
    <3>2. QED
      BY <1>5, <2>2, <3>1 DEF BootFailed, GivenUp
  <2>3. QED
    BY <2>1, <2>2
<1>6. ASSUME NEW c \in Chips, Step.to = {c}, CommandOne(c)
      PROVE  faults' \in Nat /\ clean' \in BOOLEAN /\ (Retried \/ GivenUp \/ Onward)
  <2>1. CASE ~Takes(c, Step.cmd)
    <3>1. UNCHANGED <<faults, clean>> /\ BootFailed /\ (attempts = 1 => UNCHANGED chips)
      BY <1>6, <2>1 DEF CommandOne
    <3>2. QED
      BY <1>3, <1>5, <3>1
  <2>2. CASE Takes(c, Step.cmd)
    <3>1. PICK done \in BOOLEAN, heard \in BOOLEAN :
            /\ Outcome(done, heard)
            /\ IF heard
               THEN /\ chips' = [chips EXCEPT ![c] = Effect(@, Step.cmd)]
                    /\ Advance(at_step + 1) /\ UNCHANGED <<at, short, strays>>
               ELSE /\ BootFailed
                    /\ attempts = 1 => chips' = IF done THEN [chips EXCEPT ![c] = Effect(@, Step.cmd)] ELSE chips
      BY <1>6, <2>2 DEF CommandOne
    <3>2. faults' \in Nat
      BY <1>3, <3>1 DEF Outcome
    <3>3. clean' \in BOOLEAN
      BY <3>1 DEF Outcome
    <3>4. CASE heard
      <4>1. at_step + 1 \in at_step .. Len(BootUp(siType)) + 1
        BY <1>1, <1>2
      <4>2. QED
        BY <1>6, <2>2, <3>1, <3>2, <3>3, <3>4, <4>1 DEF Onward
    <3>5. CASE ~heard
      <4>1. BootFailed
        BY <3>1, <3>5
      <4>2. attempts = 1 => chips' \in [Chips -> SiChips]
        <5>1. ASSUME attempts = 1
              PROVE  \/ chips' = [chips EXCEPT ![c] = Effect(@, Step.cmd)] \/ chips' = chips
          BY <3>1, <3>5, <5>1
        <5>2. QED
          BY <1>3, <1>4, <5>1
      <4>3. QED
        BY <1>5, <3>2, <3>3, <4>1, <4>2
    <3>6. QED
      BY <3>4, <3>5
  <2>3. QED
    BY <2>1, <2>2
<1>7. ASSUME Step.to = Chips, CommandBoth
      PROVE  faults' \in Nat /\ clean' \in BOOLEAN /\ (Retried \/ GivenUp \/ Onward)
  <2>1. CASE \E lost \in SUBSET Chips :
               /\ lost # {} => faults > 0
               /\ chips' = Loaded(Chips \ lost)
               /\ faults' = IF lost = {} THEN faults ELSE faults - 1
               /\ clean' = (clean /\ lost = {}) /\ short' = short \cup lost
               /\ Advance(at_step + 1) /\ UNCHANGED <<at, strays>>
    <3>1. PICK lost \in SUBSET Chips :
               /\ lost # {} => faults > 0
               /\ chips' = Loaded(Chips \ lost)
               /\ faults' = IF lost = {} THEN faults ELSE faults - 1
               /\ clean' = (clean /\ lost = {}) /\ short' = short \cup lost
               /\ Advance(at_step + 1) /\ UNCHANGED <<at, strays>>
      BY <2>1
    <3>2. faults' \in Nat
      BY <1>3, <3>1
    <3>3. clean' \in BOOLEAN
      BY <3>1
    <3>4. at_step + 1 \in at_step .. Len(BootUp(siType)) + 1
      BY <1>1, <1>2
    <3>5. QED
      BY <1>7, <3>1, <3>2, <3>3, <3>4 DEF Onward
  <2>2. CASE /\ faults > 0 /\ faults' = faults - 1 /\ clean' = FALSE
             /\ BootFailed
             /\ attempts = 1 => \E got \in SUBSET Chips : chips' = Loaded(got)
    <3>1. \A got \in SUBSET Chips : Loaded(got) \in [Chips -> SiChips]
      BY <1>3, <1>4 DEF Loaded
    <3>2. attempts = 1 => chips' \in [Chips -> SiChips]
      BY <2>2, <3>1
    <3>3. Retried \/ GivenUp
      BY <1>5, <2>2, <3>2
    <3>4. faults > 0 /\ faults' = faults - 1 /\ clean' = FALSE
      BY <2>2
    <3>5. faults' \in Nat
      BY <1>3, <3>4
    <3>6. QED
      BY <3>3, <3>4, <3>5
  <2>3. QED
    BY <1>7, <2>1, <2>2 DEF CommandBoth
<1>8. ASSUME NoPiece
      PROVE  faults' \in Nat /\ clean' \in BOOLEAN /\ (Retried \/ GivenUp \/ Onward)
  <2>1. Step.cmd = "HOST_LOAD" /\ faults' \in Nat /\ clean' = FALSE
    BY <1>3, <1>8 DEF NoPiece
  <2>2. CASE FirstPiece
    BY <1>3, <1>5, <1>8, <2>1, <2>2 DEF NoPiece
  <2>3. CASE ~FirstPiece
    <3>1. PICK n \in at_step .. Len(BootUp(siType)) : AfterImage(n) /\ Advance(n)
      BY <1>8, <2>3 DEF NoPiece
    <3>2. short' = short \cup Step.to /\ UNCHANGED <<chips, at, strays>>
      BY <1>8, <2>3 DEF NoPiece
    <3>3. n \in at_step .. Len(BootUp(siType)) + 1 /\ n <= Len(BootUp(siType))
      BY <1>1, <1>2
    <3>4. QED
      BY <2>1, <3>1, <3>2, <3>3 DEF Onward
  <2>4. QED
    BY <2>2, <2>3
<1>9. QED
  BY <1>1, <1>2, <1>6, <1>7, <1>8 DEF BootCommand

LEMMA SetBandStep ==
  ASSUME SiTypes, Noted, NEW t \in Tuners, NEW b \in SiBands, SetBand(t, b)
  PROVE  /\ at' \in [Tuners -> [band : AnyBand, freq : AnyFreq]] /\ current' \in [Tuners -> AnyBand]
         /\ strays' \subseteq Tuners /\ faults' \in Nat /\ clean' \in BOOLEAN /\ Noted'
         /\ clean' /\ TakesTuner(t) => at'[t].band = b
<1>1. /\ at \in [Tuners -> [band : AnyBand, freq : AnyFreq]] /\ current \in [Tuners -> AnyBand]
      /\ strays \subseteq Tuners /\ faults \in Nat /\ clean \in BOOLEAN
  BY DEF SiTypes
<1>2. CASE ~TakesTuner(t)
  <2>1. UNCHANGED <<at, current, strays, faults, clean>>
    BY <1>2 DEF SetBand
  <2>2. QED
    BY <1>1, <1>2, <2>1 DEF Noted
<1>3. CASE TakesTuner(t)
  <2>1. PICK done \in BOOLEAN, heard \in BOOLEAN :
         /\ Outcome(done, heard)
         /\ at' = IF done THEN [at EXCEPT ![t] = [band |-> b, freq |-> Nowhere]] ELSE at
         /\ current' = NoteBand(t, b, heard)
         /\ strays' = IF heard THEN strays \ {t} ELSE IF done THEN strays \cup {t} ELSE strays
    BY <1>3 DEF SetBand
  <2>2. faults' \in Nat
    BY <1>1, <2>1 DEF Outcome
  <2>3. clean' \in BOOLEAN /\ (clean' => heard) /\ (heard => done)
    BY <2>1 DEF Outcome
  <2>4. [band |-> b, freq |-> Nowhere] \in [band : AnyBand, freq : AnyFreq] /\ b \in AnyBand
    BY NowhereTyped
  <2>5. CASE heard
    <3>1. /\ at' = [at EXCEPT ![t] = [band |-> b, freq |-> Nowhere]]
          /\ current' = [current EXCEPT ![t] = b] /\ strays' = strays \ {t}
      BY <2>1, <2>3, <2>5 DEF NoteBand
    <3>2. QED
      BY <1>1, <2>2, <2>3, <2>4, <3>1 DEF Noted
  <2>6. CASE ~heard /\ done
    <3>1. /\ at' = [at EXCEPT ![t] = [band |-> b, freq |-> Nowhere]]
          /\ current' = current /\ strays' = strays \cup {t}
      BY <2>1, <2>6 DEF NoteBand
    <3>2. QED
      BY <1>1, <2>2, <2>3, <2>4, <2>6, <3>1 DEF Noted
  <2>7. CASE ~heard /\ ~done
    <3>1. at' = at /\ current' = current /\ strays' = strays
      BY <2>1, <2>7 DEF NoteBand
    <3>2. QED
      BY <1>1, <2>2, <2>3, <2>7, <3>1 DEF Noted
  <2>8. QED
    BY <2>5, <2>6, <2>7
<1>4. QED
  BY <1>2, <1>3

LEMMA TuneToStep ==
  ASSUME SiTypes, Noted, NEW t \in Tuners, NEW b \in SiBands, NEW f \in AnyFreq, NEW ok \in BOOLEAN,
         TuneTo(t, b, f, ok), UNCHANGED <<current, strays>>
  PROVE  /\ at' \in [Tuners -> [band : AnyBand, freq : AnyFreq]]
         /\ frequency' \in [Tuners -> [SiBands -> AnyFreq]]
         /\ faults' \in Nat /\ clean' \in BOOLEAN /\ Noted' /\ at'[t].band = at[t].band
         /\ ok => at'[t] = [band |-> b, freq |-> f] /\ frequency'[t][b] = f
         /\ clean' => clean
         /\ clean' /\ TakesTuner(t) /\ at[t].band = b => ok
<1>1. /\ at \in [Tuners -> [band : AnyBand, freq : AnyFreq]] /\ frequency \in [Tuners -> [SiBands -> AnyFreq]]
      /\ faults \in Nat /\ clean \in BOOLEAN
  BY DEF SiTypes
<1>2. CASE ~TakesTuner(t) \/ at[t].band # b
  <2>1. ok = FALSE /\ UNCHANGED <<at, frequency, faults, clean>>
    BY <1>2 DEF TuneTo
  <2>2. QED
    BY <1>1, <1>2, <2>1 DEF Noted
<1>3. CASE TakesTuner(t) /\ at[t].band = b
  <2>1. PICK done \in BOOLEAN :
         /\ Outcome(done, ok)
         /\ at' = IF done THEN [at EXCEPT ![t].freq = f] ELSE at
         /\ frequency' = NoteFreq(t, b, f, ok)
    BY <1>3 DEF TuneTo
  <2>2. faults' \in Nat
    BY <1>1, <2>1 DEF Outcome
  <2>3. clean' \in BOOLEAN /\ (clean' => clean /\ ok) /\ (ok => done)
    BY <2>1 DEF Outcome
  <2>4. frequency' \in [Tuners -> [SiBands -> AnyFreq]] /\ (ok => frequency'[t][b] = f)
    BY <1>1, <2>1 DEF NoteFreq
  <2>5. /\ at' \in [Tuners -> [band : AnyBand, freq : AnyFreq]]
        /\ \A u \in Tuners : at'[u].band = at[u].band
        /\ done => at'[t] = [band |-> b, freq |-> f]
    <3>1. CASE done
      <4>1. at' = [at EXCEPT ![t].freq = f]
        BY <2>1, <3>1
      <4>2. QED
        BY <1>1, <1>3, <4>1
    <3>2. CASE ~done
      BY <1>1, <2>1, <3>2
    <3>3. QED
      BY <3>1, <3>2
  <2>6. Noted'
    BY <2>5 DEF Noted
  <2>7. QED
    BY <2>2, <2>3, <2>4, <2>5, <2>6
<1>4. QED
  BY <1>2, <1>3

LEMMA StartUpKeeps == SiInv /\ BootCommand => SiInv'
<1> SUFFICES ASSUME SiInv, BootCommand PROVE SiInv'
  OBVIOUS
<1> USE SiAssumption
<1>1. /\ doing = "boot" /\ faults' \in Nat /\ clean' \in BOOLEAN /\ Step \in Commands
      /\ UNCHANGED <<call, siType, initialized, spi, current, frequency, siCalls>>
      /\ Retried \/ GivenUp \/ Onward
  BY StartUpSteps
<1>2. SiTypes /\ Opening /\ Starting /\ Noted
  BY DEF SiInv
<1>3. /\ call.op = "open" /\ call.type = siType /\ siType \in 1 .. 4 /\ call.band \in SiBands
      /\ attempts > 0 /\ at_step \in 1 .. Len(BootUp(siType))
      /\ current = [t \in Tuners |-> Nowhere] /\ at = [t \in Tuners |-> Nothing]
  BY <1>1, <1>2 DEF Opening
<1>4. Len(BootUp(siType)) \in Nat \ {0}
  BY <1>3, BootSteps
<1>5. \A t \in Tuners : Nothing.band = Nowhere
  BY DEF Nothing
<1>6. CASE Retried
  <2>1. /\ attempts > 1 /\ attempts' = attempts - 1 /\ UNCHANGED <<doing, last, todo>>
        /\ chips' = [c \in Chips |-> Off] /\ at' = [t \in Tuners |-> Nothing]
        /\ at_step' = 1 /\ short' = {} /\ strays' = {}
    BY <1>6 DEF Retried, Reset
  <2>2. SiTypes'
    <3>1. chips' \in [Chips -> SiChips]
      BY <2>1 DEF Off, SiChips
    <3>2. at' \in [Tuners -> [band : AnyBand, freq : AnyFreq]]
      BY <2>1, NowhereTyped
    <3>3. attempts' \in Nat /\ at_step' \in Nat \ {0}
      BY <1>2, <2>1 DEF SiTypes
    <3>4. QED
      BY <1>1, <1>2, <2>1, <3>1, <3>2, <3>3 DEF SiTypes
  <2>3. Opening'
    BY <1>1, <1>2, <1>3, <1>4, <2>1 DEF Opening, SiTypes
  <2>4. Starting'
    <3>1. 1 <= SecondImage(siType) /\ SecondImage(siType) \in Nat
      BY DEF SecondImage
    <3>2. chips'[1].image = 0
      BY <2>1 DEF Off, Chips
    <3>3. QED
      BY <1>1, <2>1, <3>1, <3>2 DEF Starting, ImageSoFar, SecondImage
  <2>5. Noted'
    BY <1>1, <1>3, <1>5, <2>1 DEF Noted
  <2>6. Tuning' /\ Started' /\ InBand' /\ AnswersTrue' /\ TuneWorks'
    BY <1>1, <2>1 DEF Tuning, Started, InBand, AnswersTrue, TuneWorks
  <2>7. QED
    BY <2>2, <2>3, <2>4, <2>5, <2>6 DEF SiInv
<1>7. CASE GivenUp
  <2>1. /\ doing' = "idle" /\ last' = [call |-> call, ok |-> FALSE, clean |-> clean']
        /\ attempts' = attempts - 1 /\ chips' \in [Chips -> SiChips]
        /\ UNCHANGED <<at, at_step, short, strays, todo>>
    BY <1>7 DEF GivenUp, End
  <2>2. SiTypes'
    <3>1. last' \in SiEnds
      BY <1>1, <1>2, <2>1 DEF SiTypes, SiEnds
    <3>2. attempts' \in Nat
      BY <1>2, <1>3, <2>1 DEF SiTypes
    <3>3. QED
      BY <1>1, <1>2, <2>1, <3>1, <3>2 DEF SiTypes
  <2>3. Noted'
    BY <1>1, <1>2, <2>1 DEF Noted
  <2>4. Opening' /\ Starting' /\ Tuning' /\ Started' /\ InBand'
    BY <2>1 DEF Opening, Starting, Tuning, Started, InBand
  <2>5. last'.ok = FALSE /\ last'.call.op = "open"
    BY <1>3, <2>1
  <2>6. AnswersTrue' /\ TuneWorks'
    BY <2>5 DEF AnswersTrue, TuneWorks
  <2>7. QED
    BY <2>2, <2>3, <2>4, <2>6 DEF SiInv
<1>8. CASE Onward
  <2> DEFINE n == Len(BootUp(siType))
             f == SecondImage(siType)
  <2>1. PICK m \in at_step .. n + 1 :
             /\ Advance(m) /\ UNCHANGED <<at, strays>>
             /\ \/ /\ m = at_step + 1 /\ short' = short
                   /\ \E c \in Chips : /\ Step.to = {c} /\ Takes(c, Step.cmd)
                                       /\ chips' = [chips EXCEPT ![c] = Effect(@, Step.cmd)]
                \/ /\ m = at_step + 1 /\ Step.to = Chips
                   /\ \E lost \in SUBSET Chips : chips' = Loaded(Chips \ lost) /\ short' = short \cup lost
                \/ /\ m <= n /\ AfterImage(m) /\ Step.cmd = "HOST_LOAD"
                   /\ short' = short \cup Step.to /\ chips' = chips
    BY <1>8 DEF Onward
  <2>2. /\ at_step' = m /\ UNCHANGED <<attempts, last>>
        /\ m > n => doing' = "tuning" /\ todo' = FirstSettings(siType)
        /\ ~(m > n) => UNCHANGED <<doing, todo>>
    BY <2>1 DEF Advance
  <2>3. /\ chips \in [Chips -> SiChips] /\ short \subseteq Chips /\ at_step \in Nat /\ m \in Nat
        /\ n \in Nat \ {0} /\ at_step >= 1 /\ at_step <= n /\ m >= at_step /\ m <= n + 1 /\ SEGMENTS \in Nat \ {0}
    BY <1>2, <1>3, <1>4, <2>1 DEF SiTypes
  <2>4. Step = BootUp(siType)[at_step]
    BY DEF Step
  <2>5. /\ Step.to = Chips => Step.cmd = "HOST_LOAD"
        /\ at_step = n => Step = [cmd |-> "DAC_CONFIG", to |-> {0}]
        /\ BothChips(siType) => /\ n = f + SEGMENTS + 2
                                /\ Step.cmd = "HOST_LOAD" /\ 1 \in Step.to <=> at_step \in f .. f + SEGMENTS - 1
                                /\ at_step > f + SEGMENTS - 1 => Step.cmd # "HOST_LOAD"
                                /\ Step.cmd = "BOOT" /\ 1 \in Step.to <=> at_step = f + SEGMENTS + 1
                                /\ at_step > f + SEGMENTS + 1 => 1 \notin Step.to
    BY <1>3, <2>4, BootSteps
  <2>6. f \in Nat /\ f >= 5
    BY DEF SecondImage
  <2> HIDE DEF n, f
  <2>7. chips' \in [Chips -> SiChips] /\ short' \subseteq Chips
    <3>1. \A c \in Chips : Effect(chips[c], Step.cmd) \in SiChips /\ Effect(chips[c], "HOST_LOAD") \in SiChips
      BY <2>3, EffectType
    <3>2. \A got \in SUBSET Chips : Loaded(got) \in [Chips -> SiChips]
      BY <2>3, <3>1 DEF Loaded
    <3>3. Step.to \subseteq Chips
      BY <1>1 DEF Commands, Chips
    <3>4. QED
      BY <2>1, <2>3, <3>1, <3>2, <3>3
  <2>8. ASSUME BothChips(siType) PROVE ImageSoFar'
    <3>1. ImageSoFar
      BY <1>1, <1>2, <2>8 DEF Starting
    <3>2. CASE 1 \in short'
      BY <3>2 DEF ImageSoFar
    <3>3. CASE 1 \notin short'
      <4>1. 1 \notin short
        BY <2>1, <3>3
      <4>2. /\ chips[1].image = IF at_step <= f THEN 0
                                ELSE IF at_step >= f + SEGMENTS THEN SEGMENTS ELSE at_step - f
            /\ at_step > f + SEGMENTS + 1 => chips[1].state = "application"
        BY <3>1, <4>1 DEF ImageSoFar, f
      <4>3. 1 \in Chips /\ chips[1] \in SiChips
        BY <2>3 DEF Chips
      <4> DEFINE w == chips[1].image
                 w2 == chips'[1].image
                 on == chips[1].state = "application"
                 on2 == chips'[1].state = "application"
      <4>4. \/ /\ m = at_step + 1 /\ Step.cmd = "HOST_LOAD" /\ 1 \in Step.to /\ w2 = w + 1 /\ (on2 <=> on)
            \/ /\ m = at_step + 1 /\ Step.cmd = "BOOT" /\ 1 \in Step.to /\ w2 = w /\ (w = SEGMENTS => on2)
            \/ /\ m = at_step + 1 /\ ~(Step.cmd \in {"BOOT", "HOST_LOAD"} /\ 1 \in Step.to) /\ w2 = w /\ (on => on2)
            \/ /\ m >= at_step /\ m <= f /\ at_step < f /\ w2 = w /\ on2 = on
        <5>1. CASE /\ m = at_step + 1 /\ short' = short
                   /\ \E c \in Chips : /\ Step.to = {c} /\ Takes(c, Step.cmd)
                                       /\ chips' = [chips EXCEPT ![c] = Effect(@, Step.cmd)]
          <6>1. PICK c \in Chips : /\ Step.to = {c} /\ Takes(c, Step.cmd)
                                   /\ chips' = [chips EXCEPT ![c] = Effect(@, Step.cmd)]
            BY <5>1
          <6>2. CASE c # 1
            <7>1. chips'[1] = chips[1] /\ 1 \notin Step.to
              BY <2>3, <4>3, <6>1, <6>2
            <7>2. QED
              BY <5>1, <7>1
          <6>3. CASE c = 1
            <7>1. chips'[1] = Effect(chips[1], Step.cmd) /\ 1 \in Step.to
              BY <2>3, <4>3, <6>1, <6>3
            <7>2. Step.cmd = "POWER_UP" => chips[1].state = "reset"
              BY <6>1, <6>3 DEF Takes, RequestStatus
            <7>3. CASE Step.cmd = "HOST_LOAD"
              BY <4>3, <5>1, <7>1, <7>3 DEF Effect, SiChips
            <7>4. CASE Step.cmd = "BOOT"
              BY <4>3, <5>1, <7>1, <7>4 DEF Effect, SiChips
            <7>5. CASE Step.cmd = "POWER_UP"
              BY <4>3, <5>1, <7>1, <7>2, <7>5 DEF Effect, SiChips
            <7>6. CASE Step.cmd \notin {"HOST_LOAD", "BOOT", "POWER_UP"}
              BY <4>3, <5>1, <7>1, <7>6 DEF Effect, SiChips
            <7>7. QED
              BY <7>3, <7>4, <7>5, <7>6
          <6>4. QED
            BY <6>2, <6>3
        <5>2. CASE /\ m = at_step + 1 /\ Step.to = Chips
                   /\ \E lost \in SUBSET Chips : chips' = Loaded(Chips \ lost) /\ short' = short \cup lost
          <6>1. PICK lost \in SUBSET Chips : chips' = Loaded(Chips \ lost) /\ short' = short \cup lost
            BY <5>2
          <6>2. 1 \notin lost
            BY <3>3, <6>1
          <6>3. chips'[1] = Effect(chips[1], "HOST_LOAD")
            BY <4>3, <6>1, <6>2 DEF Loaded
          <6>4. w2 = w + 1 /\ (on2 <=> on)
            BY <4>3, <6>3 DEF Effect, SiChips
          <6>5. QED
            BY <2>5, <4>3, <5>2, <6>4
        <5>3. CASE /\ m <= n /\ AfterImage(m) /\ Step.cmd = "HOST_LOAD"
                   /\ short' = short \cup Step.to /\ chips' = chips
          <6>1. 1 \notin Step.to
            BY <3>3, <5>3
          <6>2. at_step < f
            BY <2>3, <2>5, <2>6, <2>8, <5>3, <6>1
          <6>3. f \in 1 .. n
            BY <2>3, <2>5, <2>6, <2>8
          <6>4. BootUp(siType)[f] # Step
            <7>1. f \in f .. f + SEGMENTS - 1
              BY <2>3, <2>6
            <7>2. 1 \in BootUp(siType)[f].to
              BY <1>3, <2>8, <6>3, <7>1, BootSteps DEF f, n
            <7>3. QED
              BY <6>1, <7>2
          <6>5. ~(m > f)
            <7>1. ASSUME m > f PROVE FALSE
              <8>1. f \in at_step .. m - 1
                BY <2>3, <2>6, <6>2, <7>1
              <8>2. BootUp(siType)[f] = Step
                BY <5>3, <8>1 DEF AfterImage
              <8>3. QED
                BY <6>4, <8>2
            <7>2. QED
              BY <7>1
          <6>6. QED
            BY <2>3, <2>6, <5>3, <6>2, <6>5
        <5>4. QED
          BY <2>1, <5>1, <5>2, <5>3
      <4>5. w \in Nat
        BY <4>3 DEF SiChips
      <4> HIDE DEF w, w2
      <4>6. /\ w2 = IF m <= f THEN 0 ELSE IF m >= f + SEGMENTS THEN SEGMENTS ELSE m - f
            /\ m > f + SEGMENTS + 1 => on2
        <5>1. /\ w = IF at_step <= f THEN 0 ELSE IF at_step >= f + SEGMENTS THEN SEGMENTS ELSE at_step - f
              /\ at_step > f + SEGMENTS + 1 => on
          BY <4>2 DEF w
        <5> HIDE DEF on, on2
        <5>2. CASE m = at_step + 1 /\ Step.cmd = "HOST_LOAD" /\ 1 \in Step.to /\ w2 = w + 1 /\ (on2 <=> on)
          <6>1. at_step \in f .. f + SEGMENTS - 1
            BY <2>5, <2>8, <5>2
          <6>2. QED
            BY <2>3, <2>6, <5>1, <5>2, <6>1
        <5>3. CASE m = at_step + 1 /\ Step.cmd = "BOOT" /\ 1 \in Step.to /\ w2 = w /\ (w = SEGMENTS => on2)
          <6>1. at_step = f + SEGMENTS + 1
            BY <2>5, <2>8, <5>3
          <6>2. QED
            BY <2>3, <2>6, <5>1, <5>3, <6>1
        <5>4. CASE /\ m = at_step + 1 /\ ~(Step.cmd \in {"BOOT", "HOST_LOAD"} /\ 1 \in Step.to)
                   /\ w2 = w /\ (on => on2)
          <6>1. at_step \notin f .. f + SEGMENTS - 1 /\ at_step # f + SEGMENTS + 1
            BY <2>5, <2>8, <5>4
          <6>2. at_step < f \/ at_step > f + SEGMENTS - 1
            BY <2>3, <2>6, <6>1
          <6>3. QED
            BY <2>3, <2>6, <5>1, <5>4, <6>1, <6>2
        <5>5. CASE m >= at_step /\ m <= f /\ at_step < f /\ w2 = w /\ on2 = on
          BY <2>3, <2>6, <5>1, <5>5
        <5>6. QED
          BY <4>4, <5>2, <5>3, <5>4, <5>5
      <4>7. QED
        BY <1>1, <2>2, <4>6 DEF ImageSoFar, w2, f
    <3>4. QED
      BY <3>2, <3>3
  <2>9. todo' \in Seq(Settings) /\ (m > n => Len(todo') > 0 /\ todo'[Len(todo')].what # "band")
    <3>1. CASE m > n
      <4> DEFINE bands == [i \in 1 .. siType |-> [what |-> "band", t |-> i - 1]]
                 tunes == [i \in 1 .. siType |-> [what |-> "tune", t |-> i - 1]]
      <4>1. /\ bands \in [1 .. siType -> Settings] /\ tunes \in [1 .. siType -> Settings]
            /\ siType \in Nat
        <5>1. \A i \in 1 .. siType : i - 1 \in Tuners
          BY <1>3 DEF Tuners
        <5>2. QED
          BY <1>3, <5>1 DEF Settings
      <4>2. OfType(siType) = [i \in 1 .. siType |-> i - 1] /\ OfType(siType) \in [1 .. siType -> Tuners]
        BY <1>3 DEF OfType, Tuners
      <4>3. Len(OfType(siType)) = siType
        BY <4>1, <4>2, FunctionIsSeq
      <4>4. FirstSettings(siType) = bands \o tunes
        BY <4>2, <4>3 DEF FirstSettings
      <4>5. bands \in Seq(Settings) /\ Len(bands) = siType
        BY <4>1, FunctionIsSeq
      <4>6. tunes \in Seq(Settings) /\ Len(tunes) = siType
        BY <4>1, FunctionIsSeq
      <4>7. tunes[siType].what = "tune"
        BY <1>3
      <4> HIDE DEF bands, tunes
      <4> DEFINE both == bands \o tunes
      <4>8. both \in Seq(Settings) /\ Joins(bands, tunes, both)
        BY <4>5, <4>6, JoinTwo
      <4> HIDE DEF both
      <4>9. Len(both) = siType + siType /\ both[siType + siType] = tunes[siType]
        BY <1>3, <4>5, <4>6, <4>8 DEF Joins
      <4>10. todo' = both
        BY <2>2, <3>1, <4>4 DEF both
      <4>11. QED
        BY <1>3, <4>7, <4>8, <4>9, <4>10
    <3>2. CASE ~(m > n)
      BY <1>2, <2>2, <3>2 DEF SiTypes
    <3>3. QED
      BY <3>1, <3>2
  <2>10. SiTypes'
    <3>1. doing' \in {"idle", "boot", "tuning"}
      BY <1>1, <2>2
    <3>2. at_step' \in Nat \ {0}
      BY <2>2, <2>3
    <3>3. QED
      BY <1>1, <1>2, <2>1, <2>2, <2>7, <2>9, <3>1, <3>2 DEF SiTypes
  <2>11. Opening'
    <3>1. CASE m > n
      BY <2>2, <3>1 DEF Opening
    <3>2. CASE ~(m > n)
      <4>1. m \in 1 .. n
        BY <2>3, <3>2
      <4>2. QED
        BY <1>1, <1>3, <2>1, <2>2, <3>2, <4>1 DEF Opening, n
    <3>3. QED
      BY <3>1, <3>2
  <2>12. Tuning'
    BY <1>1, <1>3, <2>2, <2>9 DEF Tuning
  <2>13. Starting'
    BY <1>1, <2>8 DEF Starting
  <2>14. Started'
    <3> SUFFICES ASSUME doing' = "tuning" PROVE AllStarted(siType)'
      BY <1>1 DEF Started
    <3>1. m > n
      BY <1>1, <2>2
    <3>2. at_step = n /\ m = at_step + 1
      BY <2>1, <2>3, <3>1
    <3>3. Step = [cmd |-> "DAC_CONFIG", to |-> {0}]
      BY <2>5, <3>2
    <3>4. {0} # Chips
      BY DEF Chips
    <3>5. short' = short /\ Takes(0, "DAC_CONFIG") /\ chips' = [chips EXCEPT ![0] = Effect(@, "DAC_CONFIG")]
      <4>1. PICK c \in Chips : /\ Step.to = {c} /\ Takes(c, Step.cmd)
                               /\ chips' = [chips EXCEPT ![c] = Effect(@, Step.cmd)]
        BY <2>1, <3>1, <3>2, <3>3, <3>4
      <4>2. c = 0
        BY <3>3, <4>1
      <4>3. QED
        BY <2>1, <3>1, <3>2, <3>3, <3>4, <4>1, <4>2
    <3>6. chips'[0].state = "application"
      <4>1. chips[0].state = "application"
        BY <3>5 DEF Takes, RequestStatus
      <4>2. 0 \in Chips
        BY DEF Chips
      <4>3. QED
        BY <2>3, <3>5, <4>1, <4>2 DEF Effect
    <3>7. BothChips(siType) => chips'[1].state = "application" \/ 1 \in short'
      <4>1. ASSUME BothChips(siType) PROVE at_step' > f + SEGMENTS + 1
        BY <2>2, <2>3, <2>5, <2>6, <3>2, <4>1
      <4>2. QED
        BY <1>1, <2>8, <4>1 DEF ImageSoFar, f
    <3>8. \A d \in AllChannels(siType) : d = 0 \/ (d = 1 /\ BothChips(siType))
      BY DEF AllChannels
    <3>9. QED
      BY <1>1, <3>6, <3>7, <3>8 DEF AllStarted
  <2>15. Noted'
    BY <1>1, <1>2, <2>1 DEF Noted
  <2>16. InBand' /\ AnswersTrue' /\ TuneWorks'
    BY <1>1, <1>3, <2>2 DEF InBand, AnswersTrue, TuneWorks
  <2>17. QED
    BY <2>10, <2>11, <2>12, <2>13, <2>14, <2>15, <2>16 DEF SiInv
<1>9. QED
  BY <1>1, <1>6, <1>7, <1>8

LEMMA SettingKeeps == SiInv /\ TunerCommand => SiInv'
<1> SUFFICES ASSUME SiInv, TunerCommand PROVE SiInv'
  OBVIOUS
<1> DEFINE op == Head(todo)
<1>1. SiTypes /\ Tuning /\ Started /\ Noted /\ InBand
  BY DEF SiInv
<1>2. /\ doing = "tuning" /\ UNCHANGED <<call, siType, spi, chips, attempts, at_step, siCalls, short>>
  BY DEF TunerCommand
<1>3. /\ call.band \in SiBands /\ Len(todo) > 0 /\ todo[Len(todo)].what # "band"
      /\ \/ call.op = "open" /\ call.type = siType /\ siType \in 1 .. 4
         \/ call.op = "tune" /\ Len(todo) = 1 /\ todo[1].t = call.t
  BY <1>1, <1>2 DEF Tuning
<1>4. todo \in Seq(Settings) /\ call \in SiCalls /\ call.freq \in AnyFreq
  BY <1>1 DEF SiTypes, SiCalls
<1>5. Len(todo) \in Nat
  BY <1>4, LenProperties
<1>6. op = todo[1] /\ todo[1] \in Settings
  <2>1. 1 \in 1 .. Len(todo)
    BY <1>3, <1>5
  <2>2. todo[1] \in Settings
    BY <1>4, <2>1, ElementOfSeq
  <2>3. todo # <<>>
    BY <1>3, EmptySeq
  <2>4. op = todo[1]
    BY <1>4, <2>3, HeadTailProperties
  <2>5. QED
    BY <2>2, <2>4
<1>7. op.t \in Tuners
  BY <1>6 DEF Settings
<1>8. /\ Tail(todo) \in Seq(Settings) /\ Len(Tail(todo)) = Len(todo) - 1
      /\ \A i \in 1 .. Len(Tail(todo)) : Tail(todo)[i] = todo[i + 1]
  <2>1. todo # <<>>
    BY <1>3, EmptySeq
  <2>2. QED
    BY <1>4, <2>1, HeadTailProperties
<1>9. Len(todo) > 1 => Len(Tail(todo)) > 0 /\ Tail(todo)[Len(Tail(todo))].what # "band"
  <2> SUFFICES ASSUME Len(todo) > 1 PROVE Len(Tail(todo)) > 0 /\ Tail(todo)[Len(Tail(todo))].what # "band"
    OBVIOUS
  <2> DEFINE r == Tail(todo)
  <2>1. Len(r) = Len(todo) - 1 /\ Len(r) > 0 /\ Len(r) \in 1 .. Len(r) /\ Len(r) + 1 = Len(todo)
    BY <1>5, <1>8
  <2>2. r[Len(r)] = todo[Len(todo)]
    BY <1>8, <2>1
  <2>3. QED
    BY <1>3, <2>1, <2>2
<1> HIDE DEF op
<1>10. (Opening /\ Starting)'
  <2>1. doing' \in {"idle", "tuning"}
    BY <1>2 DEF TunerCommand, End
  <2>2. QED
    BY <2>1 DEF Opening, Starting
<1>11. AllChannels(siType)' = AllChannels(siType) /\ (\A t : TakesTuner(t)' <=> TakesTuner(t))
  BY <1>2 DEF AllChannels, TakesTuner, Takes
<1>12. Started'
  BY <1>1, <1>2 DEF Started, AllStarted
<1>13. CASE /\ \/ op.what = "band" /\ todo' = Tail(todo)
               \/ op.what = "tune" /\ NeedsBand(op.t, call.band) /\ todo' = [todo EXCEPT ![1].what = "freq"]
            /\ SetBand(op.t, call.band)
            /\ UNCHANGED <<frequency, doing, last, initialized>>
  <2>1. /\ at' \in [Tuners -> [band : AnyBand, freq : AnyFreq]] /\ current' \in [Tuners -> AnyBand]
        /\ strays' \subseteq Tuners /\ faults' \in Nat /\ clean' \in BOOLEAN /\ Noted'
        /\ clean' /\ TakesTuner(op.t) => at'[op.t].band = call.band
    BY <1>1, <1>3, <1>7, <1>13, SetBandStep
  <2>2. /\ todo' \in Seq(Settings) /\ Len(todo') > 0 /\ todo'[Len(todo')].what # "band"
        /\ call.op = "tune" => Len(todo') = 1 /\ todo'[1].t = call.t
    <3>1. CASE op.what = "band" /\ todo' = Tail(todo)
      <4>1. Len(todo) # 1
        BY <1>3, <1>6, <3>1
      <4>2. Len(todo) > 1
        <5>1. Len(todo) > 0
          BY <1>3
        <5>2. \A n \in Nat : n > 0 /\ n # 1 => n > 1
          OBVIOUS
        <5>3. QED
          BY Zenon, <1>5, <4>1, <5>1, <5>2
      <4>3. QED
        BY <1>3, <1>8, <1>9, <3>1, <4>1, <4>2
    <3>2. CASE op.what = "tune" /\ todo' = [todo EXCEPT ![1].what = "freq"]
      <4> DEFINE e == [todo[1] EXCEPT !.what = "freq"]
      <4>1. e \in Settings /\ e.t = todo[1].t /\ e.what = "freq"
        BY <1>6 DEF Settings
      <4>2. todo' = [todo EXCEPT ![1] = e]
        BY <3>2
      <4>3. 1 \in 1 .. Len(todo) /\ Len(todo) \in 1 .. Len(todo)
        BY <1>3, <1>5
      <4> HIDE DEF e
      <4>4. /\ todo' \in Seq(Settings) /\ Len(todo') = Len(todo)
            /\ \A j \in 1 .. Len(todo) : todo'[j] = IF j = 1 THEN e ELSE todo[j]
        BY <1>4, <4>1, <4>2, <4>3, ExceptSeq
      <4>5. QED
        BY <1>3, <4>1, <4>3, <4>4
    <3>3. QED
      BY <1>13, <3>1, <3>2
  <2>3. SiTypes'
    BY <1>1, <1>2, <1>13, <2>1, <2>2 DEF SiTypes
  <2>4. Tuning'
    BY <1>2, <1>3, <1>13, <2>2 DEF Tuning
  <2>5. InBand'
    <3>1. call.op = "tune" => op.t = call.t
      BY <1>3, <1>6
    <3>2. QED
      BY <1>2, <1>11, <2>1, <3>1 DEF InBand
  <2>6. AnswersTrue' /\ TuneWorks'
    BY <1>2, <1>13 DEF AnswersTrue, TuneWorks
  <2>7. QED
    BY <1>10, <1>12, <2>1, <2>3, <2>4, <2>5, <2>6 DEF SiInv
<1>14. CASE /\ op.what = "freq" \/ (op.what = "tune" /\ ~NeedsBand(op.t, call.band))
            /\ todo' = Tail(todo)
            /\ \E ok \in BOOLEAN :
                 /\ TuneTo(op.t, call.band, call.freq, ok)
                 /\ IF Len(todo) > 1 THEN UNCHANGED <<doing, last, initialized>>
                    ELSE IF call.op = "open" THEN End(call, TRUE, clean') /\ initialized' = TRUE
                    ELSE End(call, ok, clean') /\ UNCHANGED initialized
            /\ UNCHANGED <<current, strays>>
  <2>1. PICK ok \in BOOLEAN :
                 /\ TuneTo(op.t, call.band, call.freq, ok)
                 /\ IF Len(todo) > 1 THEN UNCHANGED <<doing, last, initialized>>
                    ELSE IF call.op = "open" THEN End(call, TRUE, clean') /\ initialized' = TRUE
                    ELSE End(call, ok, clean') /\ UNCHANGED initialized
    BY <1>14
  <2>2. /\ at' \in [Tuners -> [band : AnyBand, freq : AnyFreq]]
        /\ frequency' \in [Tuners -> [SiBands -> AnyFreq]]
        /\ faults' \in Nat /\ clean' \in BOOLEAN /\ Noted' /\ at'[op.t].band = at[op.t].band
        /\ ok => at'[op.t] = [band |-> call.band, freq |-> call.freq] /\ frequency'[op.t][call.band] = call.freq
        /\ clean' => clean
        /\ clean' /\ TakesTuner(op.t) /\ at[op.t].band = call.band => ok
    BY <1>1, <1>3, <1>4, <1>7, <1>14, <2>1, TuneToStep
  <2>3. CASE Len(todo) > 1
    <3>1. UNCHANGED <<doing, last, initialized>> /\ todo' = Tail(todo)
      BY <1>14, <2>1, <2>3
    <3>2. SiTypes'
      BY <1>1, <1>2, <1>8, <1>14, <2>2, <3>1 DEF SiTypes
    <3>3. call.op = "open"
      BY <1>3, <2>3
    <3>4. Tuning'
      BY <1>2, <1>3, <1>9, <2>3, <3>1, <3>3 DEF Tuning
    <3>5. InBand' /\ AnswersTrue' /\ TuneWorks'
      BY <1>2, <3>1, <3>3 DEF InBand, AnswersTrue, TuneWorks
    <3>6. QED
      BY <1>10, <1>12, <2>2, <3>2, <3>4, <3>5 DEF SiInv
  <2>4. CASE ~(Len(todo) > 1)
    <3>1. \E r \in BOOLEAN :
            /\ doing' = "idle" /\ last' = [call |-> call, ok |-> r, clean |-> clean']
            /\ (call.op = "tune" => (r <=> ok))
      <4>1. CASE call.op = "open"
        BY <2>1, <2>4, <4>1 DEF End
      <4>2. CASE call.op = "tune"
        BY <2>1, <2>4, <4>2 DEF End
      <4>3. QED
        BY <1>3, <4>1, <4>2
    <3>2. PICK r \in BOOLEAN :
            /\ doing' = "idle" /\ last' = [call |-> call, ok |-> r, clean |-> clean']
            /\ (call.op = "tune" => (r <=> ok))
      BY <3>1
    <3>3. last'.call = call /\ (last'.ok <=> r) /\ (last'.clean <=> clean') /\ last' \in SiEnds
      <4>1. last' = [call |-> call, ok |-> r, clean |-> clean']
        BY Zenon, <3>2
      <4>2. last'.call = call /\ last'.ok = r /\ last'.clean = clean'
        BY Zenon, <4>1
      <4>3. call \in SiCalls /\ clean' \in BOOLEAN
        BY <1>4, <2>2
      <4>4. last' \in SiEnds
        BY Zenon, <4>1, <4>3 DEF SiEnds
      <4>5. QED
        BY Zenon, <4>2, <4>4
    <3>a. doing' = "idle"
      BY Zenon, <3>2
    <3>4. SiTypes'
      <4>1. initialized' \in BOOLEAN
        BY <1>1, <1>3, <2>1, <2>4 DEF SiTypes
      <4>2. QED
        BY <1>1, <1>2, <1>8, <1>14, <2>2, <3>3, <3>a, <4>1 DEF SiTypes
    <3>5. Tuning' /\ InBand'
      BY <3>a DEF Tuning, InBand
    <3>6. CASE call.op = "open"
      <4>1. AllStarted(call.type)'
        BY <1>1, <1>2, <1>3, <3>6 DEF Started, AllStarted
      <4>2. AnswersTrue'
        BY <1>2, <3>3, <3>6, <4>1 DEF AnswersTrue, AllStarted
      <4>3. TuneWorks'
        BY <3>3, <3>6 DEF TuneWorks
      <4>4. QED
        BY <1>10, <1>12, <2>2, <3>4, <3>5, <4>2, <4>3 DEF SiInv
    <3>7. CASE call.op = "tune"
      <4>0. r <=> ok
        BY Zenon, <3>2, <3>7
      <4>a. op.t = call.t /\ (op.what = "freq" <=> todo[1].what = "freq")
        BY <1>3, <1>6, <3>7
      <4>1. op.t = call.t /\ (r <=> ok) /\ (op.what = "freq" <=> todo[1].what = "freq")
        BY <4>0, <4>a
      <4>2. AnswersTrue'
        <5> SUFFICES ASSUME ok
                     PROVE  /\ at'[call.t] = [band |-> call.band, freq |-> call.freq]
                            /\ GetTune(call.t)' = at'[call.t] \/ call.t \in strays'
          BY <1>2, <3>3, <3>7, <4>1 DEF AnswersTrue
        <5>1. at'[call.t] = [band |-> call.band, freq |-> call.freq]
          BY <2>2, <4>1
        <5>2. ASSUME call.t \notin strays' PROVE GetTune(call.t)' = at'[call.t]
          <6>1. current'[call.t] = call.band
            BY <1>7, <2>2, <4>1, <5>1, <5>2 DEF Noted
          <6>2. frequency'[call.t][call.band] = call.freq
            BY <2>2, <4>1
          <6>3. QED
            BY <1>2, <1>3, <5>1, <6>1, <6>2 DEF GetTune
        <5>3. QED
          BY <5>1, <5>2
      <4>3. TuneWorks'
        <5> SUFFICES ASSUME clean', TakesTuner(call.t), call.t \notin strays' PROVE ok
          BY <1>2, <1>11, <3>3, <3>7, <4>1 DEF TuneWorks
        <5>1. at[call.t].band = call.band
          <6>1. CASE op.what = "freq"
            BY <1>1, <1>2, <2>2, <3>7, <4>1, <6>1 DEF InBand
          <6>2. CASE ~NeedsBand(op.t, call.band)
            BY <1>1, <1>7, <1>14, <4>1, <6>2 DEF NeedsBand, Noted
          <6>3. QED
            BY <1>14, <6>1, <6>2
        <5>2. QED
          BY <2>2, <4>1, <5>1
      <4>4. QED
        BY <1>10, <1>12, <2>2, <3>4, <3>5, <4>2, <4>3 DEF SiInv
    <3>8. QED
      BY <1>3, <3>6, <3>7
  <2>5. QED
    BY <2>3, <2>4
<1>15. QED
  BY <1>13, <1>14 DEF TunerCommand, op

LEMMA OpenTunerKeeps ==
  ASSUME SiInv, NEW type \in Types, NEW b \in SiBands, NEW f \in SiFreqs[b], OpenTuner(type, b, f)
  PROVE  SiInv'
<1> USE SiAssumption
<1> DEFINE c == [op |-> "open", type |-> type, t |-> 0, band |-> b, freq |-> f]
<1>1. SiTypes /\ Noted
  BY DEF SiInv
<1>2. /\ type \in 1 .. 4 /\ c \in SiCalls /\ c.op = "open" /\ c.type = type /\ c.band = b
  BY NowhereTyped DEF SiCalls, Tuners
<1>3. doing = "idle" /\ siCalls' = siCalls - 1 /\ siCalls > 0 /\ call' = c /\ UNCHANGED <<initialized, todo>>
  BY DEF OpenTuner, Begin
<1> HIDE DEF c
<1>4. siCalls' \in Nat
  BY <1>1, <1>3 DEF SiTypes
<1>5. ASSUME NEW cl \in BOOLEAN, End(c, FALSE, cl), clean' \in BOOLEAN, siType' \in 0 .. 4, spi' \subseteq Chips,
             at' \in [Tuners -> [band : AnyBand, freq : AnyFreq]], current' \in [Tuners -> AnyBand],
             frequency' \in [Tuners -> [SiBands -> AnyFreq]], strays' \subseteq Tuners, faults' \in Nat,
             UNCHANGED <<chips, attempts, at_step, short>>, Noted'
      PROVE  SiInv'
  <2>1. doing' = "idle" /\ last' = [call |-> c, ok |-> FALSE, clean |-> cl]
    BY <1>5 DEF End
  <2>2. last' \in SiEnds /\ last'.call.op = "open" /\ last'.ok = FALSE
    BY <1>2, <1>5, <2>1 DEF SiEnds
  <2>3. SiTypes'
    BY <1>1, <1>2, <1>3, <1>4, <1>5, <2>1, <2>2 DEF SiTypes
  <2>4. (Opening /\ Tuning /\ Starting /\ Started /\ InBand)'
    BY <2>1 DEF Opening, Tuning, Starting, Started, InBand
  <2>5. AnswersTrue' /\ TuneWorks'
    BY <2>2 DEF AnswersTrue, TuneWorks
  <2>6. QED
    BY <1>5, <2>3, <2>4, <2>5 DEF SiInv
<1>6. CASE initialized
  <2>1. /\ End(c, FALSE, TRUE) /\ clean' = TRUE
        /\ UNCHANGED <<siType, spi, chips, at, current, frequency, attempts, at_step, short, strays, faults>>
    BY <1>6 DEF OpenTuner, c
  <2>2. Noted'
    BY <1>1, <2>1 DEF Noted
  <2>3. QED
    BY <1>1, <1>5, <2>1, <2>2 DEF SiTypes
<1>7. CASE ~initialized
  <2>1. /\ siType' = type /\ current' = [t \in Tuners |-> Nowhere] /\ frequency' = [t \in Tuners |-> NoFreqs]
    BY <1>7 DEF OpenTuner, Clear
  <2>2. current' \in [Tuners -> AnyBand] /\ frequency' \in [Tuners -> [SiBands -> AnyFreq]] /\ siType' \in 0 .. 4
    BY <1>2, <2>1, NowhereTyped DEF NoFreqs
  <2>3. AllChannels(type) \subseteq Chips
    BY DEF AllChannels, Chips
  <2>4. CASE /\ spi' = spi \cup AllChannels(type) /\ doing' = "boot" /\ clean' = TRUE
             /\ attempts' = RETRIES /\ Reset
             /\ UNCHANGED <<last, faults>>
    <3>1. /\ chips' = [d \in Chips |-> Off] /\ at' = [t \in Tuners |-> Nothing]
          /\ at_step' = 1 /\ short' = {} /\ strays' = {}
      BY <2>4 DEF Reset
    <3>2. chips' \in [Chips -> SiChips] /\ at' \in [Tuners -> [band : AnyBand, freq : AnyFreq]]
      BY <3>1, NowhereTyped DEF Off, SiChips
    <3>3. SiTypes'
      BY <1>1, <1>2, <1>3, <1>4, <2>2, <2>3, <2>4, <3>1, <3>2 DEF SiTypes
    <3>4. 1 \in 1 .. Len(BootUp(type))
      <4>1. Len(BootUp(type)) \in Nat \ {0}
        BY <1>2, BootSteps
      <4>2. QED
        BY <4>1
    <3>5. Opening'
      BY <1>2, <1>3, <2>1, <2>4, <3>1, <3>4 DEF Opening
    <3>6. Starting'
      <4>1. 1 <= SecondImage(type) /\ SecondImage(type) \in Nat
        BY DEF SecondImage
      <4>2. chips'[1].image = 0
        BY <3>1 DEF Off, Chips
      <4>3. QED
        BY <2>1, <3>1, <4>1, <4>2 DEF Starting, ImageSoFar, SecondImage
    <3>7. Noted'
      BY <2>1, <3>1 DEF Noted, Nothing
    <3>8. (Tuning /\ Started /\ InBand /\ AnswersTrue /\ TuneWorks)'
      BY <2>4 DEF Tuning, Started, InBand, AnswersTrue, TuneWorks
    <3>9. QED
      BY <3>3, <3>5, <3>6, <3>7, <3>8 DEF SiInv
  <2>5. CASE /\ faults > 0 /\ faults' = faults - 1
             /\ \E opens \in SUBSET AllChannels(type) :
                  opens # AllChannels(type) /\ (1 \in opens => 0 \in opens) /\ spi' = spi \cup opens
             /\ End(c, FALSE, FALSE) /\ clean' = FALSE
             /\ strays' = {t \in Tuners : at[t] # Nothing}
             /\ UNCHANGED <<chips, at, attempts, at_step, short>>
    <3>1. spi' \subseteq Chips
      BY <1>1, <2>3, <2>5 DEF SiTypes
    <3>2. faults' \in Nat
      BY <1>1, <2>5 DEF SiTypes
    <3>3. Noted'
      BY <2>1, <2>5 DEF Noted, Nothing
    <3>4. at' \in [Tuners -> [band : AnyBand, freq : AnyFreq]] /\ strays' \subseteq Tuners
      BY <1>1, <2>5 DEF SiTypes
    <3>5. QED
      BY <1>5, <2>2, <2>5, <3>1, <3>2, <3>3, <3>4
  <2>6. QED
    BY <1>7, <2>4, <2>5 DEF OpenTuner, c
<1>8. QED
  BY <1>6, <1>7

LEMMA TuneTunerKeeps ==
  ASSUME SiInv, NEW t \in Tuners, NEW b \in SiBands, NEW f \in SiFreqs[b], TuneTuner(t, b, f)
  PROVE  SiInv'
<1> DEFINE c == [op |-> "tune", type |-> siType, t |-> t, band |-> b, freq |-> f]
           q == <<[what |-> "tune", t |-> t]>>
<1>1. SiTypes /\ Noted
  BY DEF SiInv
<1>2. /\ doing = "idle" /\ siCalls' = siCalls - 1 /\ siCalls > 0 /\ call' = c
      /\ doing' = "tuning" /\ todo' = q /\ clean' = TRUE
      /\ UNCHANGED <<siType, initialized, spi, chips, at, current, frequency, attempts, at_step, faults, last, short, strays>>
  BY DEF TuneTuner, Begin
<1>3. c \in SiCalls /\ c.op = "tune" /\ c.t = t /\ c.band = b
  BY <1>1, NowhereTyped DEF SiCalls, SiTypes
<1>4. q \in Seq(Settings) /\ Len(q) = 1 /\ q[1].what = "tune" /\ q[1].t = t
  BY DEF Settings
<1> HIDE DEF c, q
<1>5. siCalls' \in Nat
  BY <1>1, <1>2 DEF SiTypes
<1>6. SiTypes'
  BY <1>1, <1>2, <1>3, <1>4, <1>5 DEF SiTypes
<1>7. Tuning'
  BY <1>2, <1>3, <1>4 DEF Tuning
<1>8. InBand' /\ Started'
  BY <1>2, <1>3, <1>4 DEF InBand, Started
<1>9. (Opening /\ Starting /\ AnswersTrue /\ TuneWorks)'
  BY <1>2 DEF Opening, Starting, AnswersTrue, TuneWorks
<1>10. Noted'
  BY <1>1, <1>2 DEF Noted
<1>11. QED
  BY <1>6, <1>7, <1>8, <1>9, <1>10 DEF SiInv

LEMMA CloseTunerKeeps == SiInv /\ CloseTuner => SiInv'
<1> SUFFICES ASSUME SiInv, CloseTuner PROVE SiInv'
  OBVIOUS
<1> DEFINE c == [NoCall EXCEPT !.op = "close"]
<1>1. SiTypes
  BY DEF SiInv
<1>2. /\ doing' = "idle" /\ siCalls' = siCalls - 1 /\ siCalls > 0 /\ call' = c
      /\ last' = [call |-> c, ok |-> TRUE, clean |-> TRUE]
      /\ spi' = spi \ AllChannels(siType) /\ initialized' = FALSE
      /\ current' = [t \in Tuners |-> Nowhere] /\ frequency' = [t \in Tuners |-> NoFreqs]
      /\ chips' = [d \in Chips |-> Off] /\ at' = [t \in Tuners |-> Nothing]
      /\ short' = {} /\ strays' = {} /\ clean' = TRUE
      /\ UNCHANGED <<siType, attempts, at_step, todo, faults>>
  BY DEF CloseTuner, Begin, End, Clear
<1>3. c \in SiCalls /\ c.op = "close"
  BY NowhereTyped DEF NoCall, SiCalls, Tuners
<1> HIDE DEF c
<1>4. siCalls' \in Nat
  BY <1>1, <1>2 DEF SiTypes
<1>5. /\ current' \in [Tuners -> AnyBand] /\ frequency' \in [Tuners -> [SiBands -> AnyFreq]]
      /\ chips' \in [Chips -> SiChips] /\ at' \in [Tuners -> [band : AnyBand, freq : AnyFreq]]
  BY <1>2, NowhereTyped DEF NoFreqs, Off, SiChips
<1>6. last' \in SiEnds /\ last'.call.op = "close"
  BY <1>2, <1>3 DEF SiEnds
<1>7. SiTypes'
  BY <1>1, <1>2, <1>3, <1>4, <1>5, <1>6 DEF SiTypes
<1>8. Noted'
  BY <1>2 DEF Noted, Nothing
<1>9. (Opening /\ Starting /\ Tuning /\ Started /\ InBand)'
  BY <1>2 DEF Opening, Starting, Tuning, Started, InBand
<1>10. AnswersTrue' /\ TuneWorks'
  BY <1>6 DEF AnswersTrue, TuneWorks
<1>11. QED
  BY <1>7, <1>8, <1>9, <1>10 DEF SiInv

LEMMA SiInvHolds == SiSpec => []SiInv
<1>1. SiInit => SiInv
  <2> SUFFICES ASSUME SiInit PROVE SiInv
    OBVIOUS
  <2> USE SiAssumption
  <2>1. NoCall \in SiCalls /\ NoCall.op = "none"
    BY NowhereTyped DEF NoCall, SiCalls, Tuners
  <2>2. /\ current \in [Tuners -> AnyBand] /\ frequency \in [Tuners -> [SiBands -> AnyFreq]]
        /\ chips \in [Chips -> SiChips] /\ at \in [Tuners -> [band : AnyBand, freq : AnyFreq]]
    BY NowhereTyped DEF SiInit, NoFreqs, Off, SiChips
  <2>3. last \in SiEnds /\ last.ok = FALSE /\ last.call.op = "none"
    BY <2>1 DEF SiInit, SiEnds
  <2>4. todo \in Seq(Settings)
    BY EmptySeq DEF SiInit
  <2>a. /\ doing = "idle" /\ call = NoCall /\ siType = 0 /\ initialized = FALSE /\ spi = {} /\ attempts = 0
        /\ at_step = 1 /\ faults = FAULTS /\ siCalls = CALLS_SI /\ clean = TRUE /\ short = {} /\ strays = {}
    BY DEF SiInit
  <2>b. FAULTS \in Nat /\ CALLS_SI \in Nat
    BY DEF SiAssumption
  <2>5. SiTypes
    <3>1. /\ doing \in {"idle", "boot", "tuning"} /\ call \in SiCalls /\ siType \in 0 .. 4
          /\ spi \subseteq Chips /\ attempts \in Nat /\ at_step \in Nat \ {0} /\ faults \in Nat
          /\ siCalls \in Nat /\ short \subseteq Chips /\ strays \subseteq Tuners
      BY <2>1, <2>a, <2>b
    <3>2. initialized \in BOOLEAN /\ clean \in BOOLEAN
      BY <2>a
    <3>3. QED
      BY <2>2, <2>3, <2>4, <3>1, <3>2 DEF SiTypes
  <2>6. Noted
    BY DEF SiInit, Noted, Nothing
  <2>7. AnswersTrue /\ TuneWorks
    BY <2>3 DEF AnswersTrue, TuneWorks
  <2>8. Opening /\ Starting /\ Tuning /\ Started /\ InBand
    BY DEF SiInit, Opening, Starting, Tuning, Started, InBand
  <2>9. QED
    BY <2>5, <2>6, <2>7, <2>8 DEF SiInv
<1>2. SiInv /\ [SiNext]_siVars => SiInv'
  <2> SUFFICES ASSUME SiInv, [SiNext]_siVars PROVE SiInv'
    OBVIOUS
  <2>1. CASE \E type \in Types, b \in SiBands : \E f \in SiFreqs[b] : OpenTuner(type, b, f)
    BY <2>1, OpenTunerKeeps
  <2>2. CASE BootCommand
    BY <2>2, StartUpKeeps
  <2>3. CASE TunerCommand
    BY <2>3, SettingKeeps
  <2>4. CASE \E t \in Tuners, b \in SiBands : \E f \in SiFreqs[b] : TuneTuner(t, b, f)
    BY <2>4, TuneTunerKeeps
  <2>5. CASE CloseTuner
    BY <2>5, CloseTunerKeeps
  <2>6. CASE UNCHANGED siVars
    <3>1. SiTypes' /\ Noted'
      BY <2>6 DEF SiInv, siVars, SiTypes, Noted
    <3>2. Opening' /\ Tuning' /\ Starting'
      BY <2>6 DEF SiInv, siVars, Opening, Tuning, Starting, ImageSoFar
    <3>3. Started' /\ InBand'
      BY <2>6 DEF SiInv, siVars, Started, AllStarted, InBand, TakesTuner, Takes
    <3>4. AnswersTrue' /\ TuneWorks'
      BY <2>6 DEF SiInv, siVars, AnswersTrue, TuneWorks, GetTune, TakesTuner, Takes
    <3>5. QED
      BY <3>1, <3>2, <3>3, <3>4 DEF SiInv
  <2>7. QED
    BY <2>1, <2>2, <2>3, <2>4, <2>5, <2>6 DEF SiNext
<1>3. QED
  BY <1>1, <1>2, PTL DEF SiSpec

(* Whatever commands are lost or not confirmed: an opening that succeeds   *)
(* has started its chips, and a tune that succeeds has left the tuner at   *)
(* the station that getTune then reports; the exceptions are those of      *)
(* AnswersTrue.                                                            *)
THEOREM GoodAnswersAreTrue == SiSpec => []AnswersTrue
BY SiInvHolds, PTL DEF SiInv

(* A tune in which nothing fails succeeds, whatever has failed before it,  *)
(* unless the notes of that tuner have the wrong band.                     *)
THEOREM TunesWork == SiSpec => []TuneWorks
BY SiInvHolds, PTL DEF SiInv

(* What the driver notes as the band of a tuner is the band it is in, but   *)
(* for the strays: tuners whose answer to a change of band was lost, or     *)
(* whose notes were wiped by an opening that failed before the reset.       *)
THEOREM NotesAreTrue == SiSpec => []Noted
BY SiInvHolds, PTL DEF SiInv
=============================================================================
