------------------------------- MODULE SiTuner -------------------------------
(***************************************************************************)
(* The Si479xx tuner driver: tuner/src/si479xx/si479xx_core.c and          *)
(* si479xx_hal.c, with the calls of hal/src/tcradio_hal.c that reach them. *)
(* A board has one to four tuners, two to a chip; a chip has a channel of  *)
(* the SPI bus, is started from a firmware image that the host loads piece *)
(* by piece, and then takes commands for each of its tuners.               *)
(*                                                                         *)
(* Every call of the HAL holds its mutex, so calls never interleave; but a *)
(* call is a sequence of commands, each of which may be lost or carried    *)
(* out without an answer, and the driver keeps notes of where its tuners   *)
(* are instead of asking them.                                             *)
(***************************************************************************)
EXTENDS Integers, Sequences

CONSTANTS Types,           \* numTuners of the configurations, 1 (SINGLE) to 4 (QUAD)
          SiBands,         \* FM and AM
          SiFreqs,         \* SiFreqs[b]: the frequencies tuned to in b
          SEGMENTS,        \* pieces of a firmware image
          RETRIES,         \* retrycnt of si479xx_open
          FAULTS,          \* bound on the failures of SPI, chips and files
          CALLS_SI,        \* bound on the calls
          Nowhere          \* no band, no frequency

DUAL == 2
QUAD == 4

Tuners == 0 .. 3           \* PRIMARY, SECONDARY, TERTIARY, QUATERNARY
Chips  == 0 .. 1
Chip(t) == t \div 2

Nothing  == [band |-> Nowhere, freq |-> Nowhere]
NoFreqs  == [b \in SiBands |-> Nowhere]

ASSUME SiAssumption ==
  /\ Types \subseteq 1 .. 4 /\ Nowhere \notin SiBands
  /\ \A b \in SiBands : Nowhere \notin SiFreqs[b]
  /\ SEGMENTS \in Nat \ {0} /\ RETRIES \in Nat \ {0} /\ FAULTS \in Nat /\ CALLS_SI \in Nat

VARIABLES
  doing,                   \* "idle", "boot" or "tuning": what the call is at
  call,                    \* the call: [op, type, t, band, freq]
  siType,                  \* gSilabConf.numTuners
  initialized,             \* si479xx_drv_initialized
  spi,                     \* the open channels of the bus
  chips,                   \* the state of a chip, and the pieces of the image it has
  at,                      \* the band and the frequency a tuner is really at
  current,                 \* si479xx_drv_current_band
  frequency,               \* si479xx_drv_fm_frequency and si479xx_drv_am_frequency
  attempts, at_step,       \* retrycnt; the command of the start-up that is next
  todo,                    \* the bands to set and the tunes to make
  faults, siCalls,         \* what is left of the bounds
  last,                    \* how the last call ended
  clean,                   \* nothing has failed in this call
  short,                   \* chips that missed a piece of their image, unnoticed
  strays                   \* tuners that are in another band than the notes have

siVars == <<doing, call, siType, initialized, spi, chips, at, current, frequency, attempts,
            at_step, todo, faults, siCalls, last, clean, short, strays>>

Off   == [state |-> "reset", image |-> 0]
Clear == current' = [t \in Tuners |-> Nowhere] /\ frequency' = [t \in Tuners |-> NoFreqs]

NoCall == [op |-> "none", type |-> 0, t |-> 0, band |-> Nowhere, freq |-> Nowhere]

SiInit == /\ doing = "idle" /\ call = NoCall /\ siType = 0
          /\ initialized = FALSE /\ spi = {}
          /\ chips = [c \in Chips |-> Off] /\ at = [t \in Tuners |-> Nothing]
          /\ current = [t \in Tuners |-> Nowhere] /\ frequency = [t \in Tuners |-> NoFreqs]
          /\ attempts = 0 /\ at_step = 1 /\ todo = <<>>
          /\ faults = FAULTS /\ siCalls = CALLS_SI
          /\ last = [call |-> NoCall, ok |-> FALSE, clean |-> TRUE]
          /\ clean = TRUE /\ short = {} /\ strays = {}

Begin(c) == doing = "idle" /\ siCalls > 0 /\ siCalls' = siCalls - 1 /\ call' = c
End(c, ok, cl) == doing' = "idle" /\ last' = [call |-> c, ok |-> ok, clean |-> cl]

(* How a command ends that the chip would take: it was carried out, and    *)
(* the driver heard so.  What was not carried out is never heard.          *)
Outcome(done, heard) == /\ heard => done
                        /\ heard \/ faults > 0
                        /\ faults' = IF heard THEN faults ELSE faults - 1
                        /\ clean' = (clean /\ heard)

(***************************************************************************)
(* Starting the chips.                                                     *)
(***************************************************************************)
BothChips(type) == type > DUAL
Each(type, cmd) == [i \in 1 .. (IF BothChips(type) THEN 2 ELSE 1) |-> [cmd |-> cmd, to |-> {i - 1}]]

Load(to) == [s \in 1 .. SEGMENTS |-> [cmd |-> "HOST_LOAD", to |-> to]]
HostLoad(type) == IF type = QUAD THEN Load({0, 1})
                  ELSE IF BothChips(type) THEN Load({0}) \o Load({1}) ELSE Load({0})

(* The commands of si479xx_bootup whose results it looks at; wrong         *)
(* variant: the last of them left out.                                     *)
WithoutDac(type) == Each(type, "POWER_UP") \o Each(type, "LOAD_INIT") \o HostLoad(type) \o Each(type, "BOOT")
BootUp(type) == Each(type, "POWER_UP") \o Each(type, "LOAD_INIT") \o HostLoad(type)
                \o Each(type, "BOOT") \o <<[cmd |-> "DAC_CONFIG", to |-> {0}]>>

(* The states in which a chip takes a command.                             *)
RequestStatus(cmd) == CASE cmd = "POWER_UP" -> {"reset"}
                        [] cmd \in {"LOAD_INIT", "HOST_LOAD", "BOOT"} -> {"bootloader"}
                        [] OTHER -> {"application"}
Takes(c, cmd) == c \in spi /\ chips[c].state \in RequestStatus(cmd)

(* What a command does to the chip; one that is booted from half an image  *)
(* stays in its boot loader.                                               *)
Effect(chip, cmd) ==
  CASE cmd = "POWER_UP"  -> [chip EXCEPT !.state = "bootloader"]
    [] cmd = "HOST_LOAD" -> [chip EXCEPT !.image = @ + 1]
    [] cmd = "BOOT" /\ chip.image = SEGMENTS -> [chip EXCEPT !.state = "application"]
    [] OTHER -> chip

(* si479xx_reset: the reset line goes to both chips.                       *)
Reset == /\ chips' = [c \in Chips |-> Off] /\ at' = [t \in Tuners |-> Nothing]
         /\ at_step' = 1 /\ short' = {} /\ strays' = {}

OfType(type) == [i \in 1 .. type |-> i - 1]

(* Once the chips are started every tuner is given the first band, and     *)
(* then the first station.                                                 *)
FirstSettings(type) == LET ts == OfType(type) IN
  [i \in 1 .. Len(ts) |-> [what |-> "band", t |-> ts[i]]] \o [i \in 1 .. Len(ts) |-> [what |-> "tune", t |-> ts[i]]]

(* The channels an opening needs and a closing gives back.                 *)
AllChannels(type) == IF BothChips(type) THEN {0, 1} ELSE {0}

(* si479xx_open up to the first command.  A channel that does not open     *)
(* ends the call.                                                          *)
OpenTuner(type, b, f) ==
  LET c == [op |-> "open", type |-> type, t |-> 0, band |-> b, freq |-> f] IN
  /\ Begin(c)
  /\ IF initialized
     THEN /\ End(c, FALSE, TRUE) /\ clean' = TRUE
          /\ UNCHANGED <<siType, spi, chips, at, current, frequency, attempts, at_step, short, strays, faults>>
     ELSE /\ siType' = type /\ Clear
          /\ \/ /\ spi' = spi \cup AllChannels(type) /\ doing' = "boot" /\ clean' = TRUE
                /\ attempts' = RETRIES /\ Reset
                /\ UNCHANGED <<last, faults>>
             \/ /\ faults > 0 /\ faults' = faults - 1
                /\ \E opens \in SUBSET AllChannels(type) :
                     opens # AllChannels(type) /\ (1 \in opens => 0 \in opens) /\ spi' = spi \cup opens
                /\ End(c, FALSE, FALSE) /\ clean' = FALSE
                /\ strays' = {t \in Tuners : at[t] # Nothing}
                /\ UNCHANGED <<chips, at, attempts, at_step, short>>
  /\ UNCHANGED <<initialized, todo>>

Step == BootUp(siType)[at_step]

(* An attempt has failed: the chips are reset for another, or the call     *)
(* ends and leaves channels and power as they are.                         *)
BootFailed == /\ attempts' = attempts - 1
              /\ IF attempts > 1 THEN Reset /\ UNCHANGED <<doing, last>>
                 ELSE /\ End(call, FALSE, clean') /\ UNCHANGED <<at, at_step, short, strays>>
              /\ UNCHANGED todo

Advance(n) == /\ at_step' = n
              /\ IF n > Len(BootUp(siType))
                 THEN doing' = "tuning" /\ todo' = FirstSettings(siType)
                 ELSE UNCHANGED <<doing, todo>>
              /\ UNCHANGED <<attempts, last>>

(* A command to one chip: si479xx_command.                                 *)
CommandOne(c) ==
  \/ /\ ~Takes(c, Step.cmd)
     /\ UNCHANGED <<faults, clean>> /\ BootFailed /\ (attempts = 1 => UNCHANGED chips)
  \/ /\ Takes(c, Step.cmd)
     /\ \E done, heard \in BOOLEAN :
          /\ Outcome(done, heard)
          /\ IF heard
             THEN /\ chips' = [chips EXCEPT ![c] = Effect(@, Step.cmd)]
                  /\ Advance(at_step + 1) /\ UNCHANGED <<at, short, strays>>
             ELSE /\ BootFailed
                  /\ attempts = 1 => chips' = IF done THEN [chips EXCEPT ![c] = Effect(@, Step.cmd)] ELSE chips

(* A piece of the image to both chips: si479xx_command_dualtuner waits for *)
(* their readiness, but does not look at the results of the writing.       *)
Loaded(cs) == [c \in Chips |-> IF c \in cs THEN Effect(chips[c], "HOST_LOAD") ELSE chips[c]]

CommandBoth ==
  \/ \E lost \in SUBSET Chips :
       /\ lost # {} => faults > 0
       /\ chips' = Loaded(Chips \ lost)
       /\ faults' = IF lost = {} THEN faults ELSE faults - 1
       /\ clean' = (clean /\ lost = {}) /\ short' = short \cup lost
       /\ Advance(at_step + 1) /\ UNCHANGED <<at, strays>>
  \/ /\ faults > 0 /\ faults' = faults - 1 /\ clean' = FALSE
     /\ BootFailed
     /\ attempts = 1 => \E got \in SUBSET Chips : chips' = Loaded(got)

FirstPiece == at_step > 1 /\ BootUp(siType)[at_step - 1] # Step
AfterImage(n) == /\ BootUp(siType)[n] # Step
                 /\ \A m \in at_step .. n - 1 : BootUp(siType)[m] = Step

(* The image file gives no piece: the first one missing fails the attempt, *)
(* a later one ends the loop of si479xx_host_load as the last piece does.  *)
NoPiece == /\ Step.cmd = "HOST_LOAD" /\ faults > 0 /\ faults' = faults - 1 /\ clean' = FALSE
           /\ IF FirstPiece
              THEN BootFailed /\ (attempts = 1 => UNCHANGED chips)
              ELSE /\ \E n \in at_step .. Len(BootUp(siType)) : AfterImage(n) /\ Advance(n)
                   /\ short' = short \cup Step.to /\ UNCHANGED <<chips, at, strays>>

BootCommand == /\ doing = "boot"
               /\ \/ \E c \in Chips : Step.to = {c} /\ CommandOne(c)
                  \/ Step.to = Chips /\ CommandBoth
                  \/ NoPiece
               /\ UNCHANGED <<call, siType, initialized, spi, current, frequency, siCalls>>

(***************************************************************************)
(* Bands and stations.                                                     *)
(***************************************************************************)
TakesTuner(t) == Takes(Chip(t), "TUNER_CMD_GATEWAY")

(* si479xx_setBand: the band is noted when the chip says it has changed;   *)
(* wrong variant: noted as soon as the command is given.                   *)
NoteAtOnce(t, b, heard) == [current EXCEPT ![t] = b]
NoteBand(t, b, heard) == IF heard THEN [current EXCEPT ![t] = b] ELSE current

SetBand(t, b) ==
  IF ~TakesTuner(t) THEN UNCHANGED <<at, current, strays, faults, clean>>
  ELSE \E done, heard \in BOOLEAN :
         /\ Outcome(done, heard)
         /\ at' = IF done THEN [at EXCEPT ![t] = [band |-> b, freq |-> Nowhere]] ELSE at
         /\ current' = NoteBand(t, b, heard)
         /\ strays' = IF heard THEN strays \ {t} ELSE IF done THEN strays \cup {t} ELSE strays

(* The tuning command of si479xx_setTune: "ok" is its answer.  A tuner     *)
(* refuses the frequency of a band it is not in.                           *)
NoteFreq(t, b, f, ok) == IF ok THEN [frequency EXCEPT ![t][b] = f] ELSE frequency

TuneTo(t, b, f, ok) ==
  IF ~TakesTuner(t) \/ at[t].band # b
  THEN ok = FALSE /\ UNCHANGED <<at, frequency, faults, clean>>
  ELSE \E done \in BOOLEAN :
         /\ Outcome(done, ok)
         /\ at' = IF done THEN [at EXCEPT ![t].freq = f] ELSE at
         /\ frequency' = NoteFreq(t, b, f, ok)

(* Tuning starts with the band when the notes say that it is another; what *)
(* becomes of the change is not looked at.                                 *)
NeedsBand(t, b) == current[t] # b

(* The calls of si479xx_setBand and si479xx_setTune inside a call; opening *)
(* looks at the result of neither.                                         *)
TunerCommand ==
  /\ doing = "tuning"
  /\ LET op == Head(todo) IN
     \/ /\ \/ op.what = "band" /\ todo' = Tail(todo)
           \/ op.what = "tune" /\ NeedsBand(op.t, call.band) /\ todo' = [todo EXCEPT ![1].what = "freq"]
        /\ SetBand(op.t, call.band)
        /\ UNCHANGED <<frequency, doing, last, initialized>>
     \/ /\ op.what = "freq" \/ (op.what = "tune" /\ ~NeedsBand(op.t, call.band))
        /\ todo' = Tail(todo)
        /\ \E ok \in BOOLEAN :
             /\ TuneTo(op.t, call.band, call.freq, ok)
             /\ IF Len(todo) > 1 THEN UNCHANGED <<doing, last, initialized>>
                ELSE IF call.op = "open" THEN End(call, TRUE, clean') /\ initialized' = TRUE
                ELSE End(call, ok, clean') /\ UNCHANGED initialized
        /\ UNCHANGED <<current, strays>>
  /\ UNCHANGED <<call, siType, spi, chips, attempts, at_step, siCalls, short>>

(* si479xx_setTune: it does not ask whether the driver is open.            *)
TuneTuner(t, b, f) ==
  /\ Begin([op |-> "tune", type |-> siType, t |-> t, band |-> b, freq |-> f])
  /\ doing' = "tuning" /\ todo' = <<[what |-> "tune", t |-> t]>> /\ clean' = TRUE
  /\ UNCHANGED <<siType, initialized, spi, chips, at, current, frequency, attempts, at_step, faults, last, short, strays>>

(* si479xx_getTune: the notes, not the chip.                               *)
GetTune(t) == [band |-> current[t], freq |-> IF current[t] \in SiBands THEN frequency[t][current[t]] ELSE Nowhere]

(* si479xx_close: the power goes with the channels.                        *)
CloseTuner ==
  LET c == [NoCall EXCEPT !.op = "close"] IN
  /\ Begin(c) /\ End(c, TRUE, TRUE)
  /\ spi' = spi \ AllChannels(siType) /\ Clear /\ initialized' = FALSE
  /\ chips' = [d \in Chips |-> Off] /\ at' = [t \in Tuners |-> Nothing]
  /\ short' = {} /\ strays' = {} /\ clean' = TRUE
  /\ UNCHANGED <<siType, attempts, at_step, todo, faults>>

SiNext == \/ \E type \in Types, b \in SiBands : \E f \in SiFreqs[b] : OpenTuner(type, b, f)
          \/ BootCommand
          \/ TunerCommand
          \/ \E t \in Tuners, b \in SiBands : \E f \in SiFreqs[b] : TuneTuner(t, b, f)
          \/ CloseTuner

SiSpec == SiInit /\ [][SiNext]_siVars

(***************************************************************************)
(* What the driver promises.                                               *)
(***************************************************************************)
(* A good answer is true, whatever failed before it: a driver that says it *)
(* is open has started its chips (only of a second chip that missed a      *)
(* piece of its image it does not know), and a tune that succeeded has     *)
(* left the tuner at that station, which is what the driver reports of it  *)
(* (unless it believes that the change of band before it has failed).      *)
AnswersTrue ==
  LET c == last.call IN
  doing = "idle" /\ last.ok =>
    /\ c.op = "open" => \A d \in AllChannels(c.type) : chips[d].state = "application" \/ d \in short \ {0}
    /\ c.op = "tune" => at[c.t] = [band |-> c.band, freq |-> c.freq] /\ (GetTune(c.t) = at[c.t] \/ c.t \in strays)

(* A tuner that can be reached is never lost: a tune in which nothing      *)
(* fails succeeds, whatever has failed before it.  It does not if the last *)
(* change of band was carried out but not confirmed: the notes keep the    *)
(* old band, and a tune to it does not set it again.                       *)
TuneWorks ==
  LET c == last.call IN
  doing = "idle" /\ c.op = "tune" /\ last.clean /\ TakesTuner(c.t) => last.ok \/ c.t \in strays
=============================================================================
