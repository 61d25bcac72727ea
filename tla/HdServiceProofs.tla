--------------------------- MODULE HdServiceProofs --------------------------
(***************************************************************************)
(* The way of the samples and of the news through the framework.           *)
(*  - Service loop: for every set of programs and stations, every interval *)
(*    and every plan, nothing of an earlier station follows the word of a  *)
(*    tuning, and the slots of program service data are left alone for     *)
(*    their interval.                                                      *)
(*  - IQ input: for every size of buffer and block, I and Q of a pair are  *)
(*    of one block, unless the samples have strayed.                       *)
(*  - Samples to the core: for every size, whatever the base band input    *)
(*    thread, the application and the primary thread do in between, a      *)
(*    vector that is not whole costs an orphaned post.                     *)
(***************************************************************************)
EXTENDS HdService, HdPairs, HdVectors, CircBuffProofs, SequenceTheorems, TLAPS

(* What the queues hold. *)
Messages == {"PSD"} \X (SUBSET Programs) \cup {"SIS"} \X BOOLEAN
              \cup {"TUNE"} \X Freqs \cup {"TUNED"} \X Nat

Notices == [kind : {"TUNE", "SIS", "SIGNAL"}, gen : Nat]
             \cup [kind : {"PSD"}, prog : Programs, gen : Nat]
             \cup [kind : {"PTY"}, gen : Nat, prog : Programs, value : Nat]

Dated == [gen : Nat, n : Nat]

Cores == [gen : Nat, freq : Freqs, acq : BOOLEAN, playing : Programs, enabled : BOOLEAN,
          reacq : BOOLEAN, changed : SUBSET Programs, data : [Programs -> Dated]]

KeptProgram == {<<>>} \cup {<<p>> : p \in Programs}

BbPlaces == {<<"idle">>, <<"change">>} \cup {<<"keep", p>> : p \in Programs}
              \cup {<<"flag", kept>> : kept \in KeptProgram}

(* The types of what comes and goes between the threads, ...               *)
QueueTypes == /\ svcQ \in Seq(Messages) /\ bbQ \in Seq(Freqs) /\ appQ \in Seq(Notices)
              /\ tuned \in Freqs /\ bb \in BbPlaces
              /\ core \in Cores /\ progNum \in Programs /\ told \in Nat

(* ... and of what belongs to the service thread.                          *)
LoopTypes == /\ pc \in {"message", "status", "report", "psd", "fill", "clear", "send", "sis",
                        "copy", "notify"}
             /\ fill \subseteq Programs /\ got \subseteq Programs
             /\ statusChk \in 0 .. STATUS
             /\ psd \in [mask : SUBSET Programs, notify : BOOLEAN, chk : 0 .. PSD]
             /\ sis \in [on : BOOLEAN, notify : BOOLEAN, chk : 0 .. SIS]
             /\ quiet \in 0 .. PSD /\ missed \subseteq Programs
             /\ slot \in [psd : [Programs -> Dated], signal : [gen : Nat, acq : BOOLEAN]]

-----------------------------------------------------------------------------

LEMMA HomeIsFreq == Home \in Freqs /\ First \in Programs /\ Programs \subseteq Nat
  BY ServiceAssumption DEF First

LEMMA Intervals == PSD \in Nat \ {0} /\ SIS \in Nat \ {0} /\ STATUS \in Nat \ {0} /\ BURST \in Nat \ {0}
  BY ServiceAssumption

LEMMA PlanFirst ==
  ASSUME NEW plan \in Plans
  PROVE  plan.first \in Seq(Messages)
<1> DEFINE asked == {"PSD"} \X (SUBSET Programs) \cup {"SIS"} \X BOOLEAN
<1>1. plan.first \in Seq(asked)
  BY ServiceAssumption
<1>2. asked \subseteq Messages
  BY DEF Messages
<1> QED
  BY <1>1, <1>2

(* What a message carries. *)
LEMMA MessageHead ==
  ASSUME svcQ \in Seq(Messages), svcQ # <<>>
  PROVE  /\ Tail(svcQ) \in Seq(Messages)
         /\ Head(svcQ)[1] = "TUNE" => Head(svcQ)[2] \in Freqs
         /\ Head(svcQ)[1] = "TUNED" => Head(svcQ)[2] \in Nat
         /\ Head(svcQ)[1] = "PSD" => Head(svcQ)[2] \subseteq Programs
         /\ Head(svcQ)[1] = "SIS" => Head(svcQ)[2] \in BOOLEAN
<1>1. Head(svcQ) \in Messages /\ Tail(svcQ) \in Seq(Messages)
  BY HeadTailProperties
<1> QED
  BY <1>1 DEF Messages

LEMMA QueueTypesInit == Init => QueueTypes
<1> SUFFICES ASSUME Init PROVE QueueTypes
  OBVIOUS
<1>1. svcQ \in Seq(Messages)
  BY PlanFirst DEF Init
<1>2. bbQ \in Seq(Freqs) /\ appQ \in Seq(Notices)
  BY EmptySeq DEF Init
<1>3. core \in Cores
  BY HomeIsFreq DEF Init, Cores, Dated, Nothing
<1> QED
  BY <1>1, <1>2, <1>3, HomeIsFreq DEF QueueTypes, Init, BbPlaces

LEMMA LoopTypesInit == Init => LoopTypes
<1> SUFFICES ASSUME Init PROVE LoopTypes
  OBVIOUS
<1>1. slot \in [psd : [Programs -> Dated], signal : [gen : Nat, acq : BOOLEAN]]
  BY DEF Init, Dated, Nothing, Silent
<1> QED
  BY <1>1, Intervals DEF LoopTypes, Init

-----------------------------------------------------------------------------
(* The types are kept.                                                     *)

LEMMA Asked ==
  ASSUME QueueTypes, NEW m \in Messages, Ask(m)
  PROVE  QueueTypes'
<1>1. svcQ' \in Seq(Messages)
  BY AppendProperties DEF Ask, QueueTypes
<1> QED
  BY <1>1 DEF Ask, QueueTypes, input, thread

LEMMA CoreMoves ==
  ASSUME QueueTypes, Reacquired \/ Acquire \/ Lose \/ \E p \in Programs : SetProgram(p) \/ ReceivePsd(p)
  PROVE  QueueTypes' /\ core' \in Cores
<1>1. core \in Cores
  BY DEF QueueTypes
<1>2. CASE Reacquired
  <2>1. core' \in Cores
    BY <1>1, <1>2 DEF Reacquired, Cores
  <2> QED
    BY <1>2, <2>1 DEF Reacquired, QueueTypes, queues
<1>3. CASE Acquire
  <2>1. core' \in Cores
    BY <1>1, <1>3 DEF Acquire, Cores
  <2> QED
    BY <1>3, <2>1 DEF Acquire, QueueTypes, queues, input
<1>4. CASE Lose
  <2>1. core' \in Cores
    BY <1>1, <1>4 DEF Lose, Cores
  <2> QED
    BY <1>4, <2>1 DEF Lose, QueueTypes, queues, input
<1>5. ASSUME NEW p \in Programs, SetProgram(p) PROVE QueueTypes' /\ core' \in Cores
  <2>1. core' \in Cores
    BY <1>1, <1>5 DEF SetProgram, Cores
  <2> QED
    BY <1>5, <2>1 DEF SetProgram, QueueTypes, queues, input
<1>6. ASSUME NEW p \in Programs, ReceivePsd(p) PROVE QueueTypes' /\ core' \in Cores
  <2> DEFINE data == [core.data EXCEPT ![p].n = @ + 1]
             changed == IF core.enabled THEN core.changed \cup {p} ELSE core.changed
  <2>a. core.data[p] \in Dated /\ core.data \in [Programs -> Dated] /\ core.changed \in SUBSET Programs
    BY <1>1 DEF Cores
  <2>b. [core.data[p] EXCEPT !.n = @ + 1] \in Dated
    BY <2>a DEF Dated
  <2>c. data \in [Programs -> Dated]
    BY <2>a, <2>b
  <2>d. changed \in SUBSET Programs
    BY <2>a
  <2>e. core' = [core EXCEPT !.data = data, !.changed = changed]
    BY <1>6 DEF ReceivePsd
  <2> HIDE DEF data, changed
  <2>1. core' \in Cores
    BY <1>1, <2>c, <2>d, <2>e DEF Cores
  <2> QED
    BY <1>6, <2>1 DEF ReceivePsd, QueueTypes, queues, input
<1> QED
  BY <1>2, <1>3, <1>4, <1>5, <1>6

LEMMA InputMoves ==
  ASSUME QueueTypes, Input
  PROVE  QueueTypes' /\ core' \in Cores
<1>1. core \in Cores /\ bb \in BbPlaces /\ tuned \in Freqs
  BY DEF QueueTypes
<1>2. CASE SetTuneStore
  <2>1. Head(bbQ) \in Freqs /\ Tail(bbQ) \in Seq(Freqs)
    BY <1>2, HeadTailProperties DEF SetTuneStore, QueueTypes
  <2>2. core.playing \in Programs
    BY <1>1 DEF Cores
  <2>3. bb' \in BbPlaces /\ tuned' \in Freqs
    BY <1>2, <2>1, <2>2 DEF SetTuneStore, BbPlaces
  <2> QED
    BY <1>2, <2>1, <2>3 DEF SetTuneStore, QueueTypes, thread
<1>3. CASE Reacquire
  <2> DEFINE data == [p \in Programs |-> [gen |-> core.gen + 1, n |-> 0]]
  <2>a. core.gen + 1 \in Nat
    BY <1>1 DEF Cores
  <2>b. data \in [Programs -> Dated]
    BY <2>a DEF Dated
  <2>c. core' = [core EXCEPT !.gen = core.gen + 1, !.freq = tuned, !.acq = FALSE, !.reacq = TRUE,
                             !.changed = {}, !.data = data]
    BY <1>3 DEF Reacquire, Forgotten
  <2> HIDE DEF data
  <2>1. core' \in Cores
    BY <1>1, <2>a, <2>b, <2>c DEF Cores
  <2>2. Tail(bb) \in KeptProgram
    <3>1. CASE bb = <<"change">>
      BY <3>1 DEF KeptProgram
    <3>2. ASSUME NEW p \in Programs, bb = <<"keep", p>> PROVE Tail(bb) = <<p>>
      BY <3>2
    <3> QED
      BY <1>1, <1>3, <3>1, <3>2 DEF Reacquire, BbPlaces, KeptProgram
  <2>3. bb' \in BbPlaces
    BY <1>3, <2>2 DEF Reacquire, BbPlaces
  <2> QED
    BY <1>3, <2>1, <2>3 DEF Reacquire, QueueTypes, queues
<1>4. CASE TuneDone
  <2>1. core.gen \in Nat
    BY <1>1 DEF Cores
  <2>2. <<"TUNED", core.gen>> \in Messages
    BY <2>1 DEF Messages
  <2>3. svcQ' \in Seq(Messages)
    BY <1>4, <2>2, AppendProperties DEF TuneDone, QueueTypes
  <2>4. bb[2] \in KeptProgram
    BY <1>1, <1>4 DEF TuneDone, BbPlaces
  <2>5. core' \in Cores /\ progNum' \in Programs
    <3>1. CASE bb[2] = <<>>
      BY <1>1, <1>4, <3>1 DEF TuneDone, QueueTypes
    <3>2. CASE bb[2] # <<>>
      <4>1. bb[2][1] \in Programs
        BY <2>4, <3>2 DEF KeptProgram
      <4>2. core' = [core EXCEPT !.playing = bb[2][1]] /\ progNum' = bb[2][1]
        BY <1>4, <3>2 DEF TuneDone
      <4> QED
        BY <1>1, <4>1, <4>2 DEF Cores
    <3> QED
      BY <3>1, <3>2
  <2> QED
    BY <1>4, <2>3, <2>5 DEF TuneDone, QueueTypes, thread, BbPlaces
<1> QED
  BY <1>2, <1>3, <1>4 DEF Input

(* The signal and the data of a slot are the core's.                       *)
LEMMA CoreParts ==
  ASSUME QueueTypes
  PROVE  /\ core \in Cores /\ core.gen \in Nat /\ core.acq \in BOOLEAN /\ core.freq \in Freqs
         /\ core.data \in [Programs -> Dated] /\ core.changed \in SUBSET Programs
         /\ core.playing \in Programs /\ core.enabled \in BOOLEAN
  BY DEF QueueTypes, Cores

LEMMA SlotParts ==
  ASSUME LoopTypes
  PROVE  /\ slot.psd \in [Programs -> Dated] /\ slot.signal \in [gen : Nat, acq : BOOLEAN]
         /\ slot.signal.gen \in Nat /\ slot.signal.acq \in BOOLEAN
         /\ \A p \in Programs : slot.psd[p] \in Dated /\ slot.psd[p].gen \in Nat
  BY DEF LoopTypes, Dated

LEMMA PtyType == QueueTypes => PtyNow \in Nat
<1> SUFFICES ASSUME QueueTypes PROVE PtyNow \in Nat
  OBVIOUS
<1>1. Pty \in [Freqs -> [Programs -> Nat]]
  BY ServiceAssumption
<1>2. core.freq \in Freqs /\ progNum \in Programs /\ core.acq \in BOOLEAN
  BY CoreParts DEF QueueTypes
<1>3. Pty[core.freq][progNum] \in Nat
  BY <1>1, <1>2
<1> QED
  BY <1>2, <1>3 DEF PtyNow

(* The notifications of a pass. *)
LEMMA NoticesOf ==
  ASSUME QueueTypes, LoopTypes
  PROVE  /\ Signal \in Notices /\ Signal.gen = slot.signal.gen /\ Signal.kind = "SIGNAL"
         /\ [kind |-> "PTY", gen |-> core.gen, prog |-> progNum, value |-> PtyNow] \in Notices
         /\ [kind |-> "SIS", gen |-> core.gen] \in Notices
         /\ \A p \in Programs : PsdMessage(p) \in Notices
         /\ \A g \in Nat : [kind |-> "TUNE", gen |-> g] \in Notices
<1>1. core.gen \in Nat /\ slot.signal.gen \in Nat /\ progNum \in Programs
  BY CoreParts, SlotParts DEF QueueTypes
<1>2. \A p \in Programs : PsdMessage(p) \in Notices
  BY SlotParts DEF PsdMessage, Notices
<1>3. PtyNow \in Nat
  BY PtyType
<1>4. [kind |-> "PTY", gen |-> core.gen, prog |-> progNum, value |-> PtyNow] \in Notices
  BY <1>1, <1>3 DEF Notices
<1>5. Signal \in Notices /\ Signal.gen = slot.signal.gen /\ Signal.kind = "SIGNAL"
  BY <1>1 DEF Signal, Notices
<1>6. /\ [kind |-> "SIS", gen |-> core.gen] \in Notices
      /\ \A g \in Nat : [kind |-> "TUNE", gen |-> g] \in Notices
  BY <1>1 DEF Notices
<1> QED
  BY <1>2, <1>4, <1>5, <1>6

LEMMA NoticeGen == \A m \in Notices : m.gen \in Nat
  BY DEF Notices

LEMMA AppQTyped == QueueTypes => /\ Len(appQ) \in Nat /\ DOMAIN appQ = 1 .. Len(appQ)
                                 /\ \A i \in DOMAIN appQ : appQ[i] \in Notices /\ appQ[i].gen \in Nat
<1> SUFFICES ASSUME QueueTypes
             PROVE  /\ Len(appQ) \in Nat /\ DOMAIN appQ = 1 .. Len(appQ)
                    /\ \A i \in DOMAIN appQ : appQ[i] \in Notices /\ appQ[i].gen \in Nat
  OBVIOUS
<1>1. appQ \in Seq(Notices)
  BY DEF QueueTypes
<1>2. Len(appQ) \in Nat /\ DOMAIN appQ = 1 .. Len(appQ)
  BY <1>1, LenProperties
<1> QED
  BY <1>1, <1>2, ElementOfSeq, NoticeGen

(* The messages that are taken. *)
LEMMA TakeMoves ==
  ASSUME QueueTypes, LoopTypes,
         NoMessage \/ EventSetTune \/ NotifyTune \/ EventEnablePsd \/ EventEnableSis
  PROVE  QueueTypes' /\ LoopTypes'
<1>1. /\ svcQ # <<>> => /\ Tail(svcQ) \in Seq(Messages)
                        /\ Head(svcQ)[1] = "TUNE" => Head(svcQ)[2] \in Freqs
                        /\ Head(svcQ)[1] = "TUNED" => Head(svcQ)[2] \in Nat
                        /\ Head(svcQ)[1] = "PSD" => Head(svcQ)[2] \subseteq Programs
                        /\ Head(svcQ)[1] = "SIS" => Head(svcQ)[2] \in BOOLEAN
      /\ PSD \in Nat /\ SIS \in Nat /\ STATUS \in Nat
  BY MessageHead, Intervals DEF QueueTypes
<1>2. /\ psd \in [mask : SUBSET Programs, notify : BOOLEAN, chk : 0 .. PSD]
      /\ sis \in [on : BOOLEAN, notify : BOOLEAN, chk : 0 .. SIS]
  BY DEF LoopTypes
<1>3. CASE NoMessage
  BY <1>3 DEF NoMessage, Goto, QueueTypes, LoopTypes, queues, input
<1>4. CASE EventSetTune
  <2>1. Tail(svcQ) \in Seq(Messages) /\ Head(svcQ)[2] \in Freqs
    BY <1>1, <1>4 DEF EventSetTune, Take
  <2>2. bbQ' \in Seq(Freqs)
    BY <1>4, <2>1, AppendProperties DEF EventSetTune, QueueTypes
  <2>3. QueueTypes'
    BY <1>4, <2>1, <2>2 DEF EventSetTune, Take, QueueTypes, input
  <2>4. /\ psd' \in [mask : SUBSET Programs, notify : BOOLEAN, chk : 0 .. PSD]
        /\ sis' \in [on : BOOLEAN, notify : BOOLEAN, chk : 0 .. SIS]
    BY <1>1, <1>2, <1>4 DEF EventSetTune
  <2>5. statusChk' \in 0 .. STATUS /\ quiet' \in 0 .. PSD
    BY <1>1, <1>4 DEF EventSetTune
  <2> QED
    BY <1>4, <2>3, <2>4, <2>5 DEF EventSetTune, Take, Goto, LoopTypes
<1>5. CASE NotifyTune
  <2>1. Tail(svcQ) \in Seq(Messages) /\ [kind |-> "TUNE", gen |-> Head(svcQ)[2]] \in Notices
    BY <1>1, <1>5, NoticesOf DEF NotifyTune, Take
  <2>2. appQ' \in Seq(Notices)
    BY <1>5, <2>1, AppendProperties DEF NotifyTune, QueueTypes
  <2>3. QueueTypes'
    BY <1>5, <2>1, <2>2 DEF NotifyTune, Take, QueueTypes, input
  <2> QED
    BY <1>5, <2>3 DEF NotifyTune, Take, Goto, LoopTypes
<1>6. CASE EventEnablePsd
  <2>1. Tail(svcQ) \in Seq(Messages) /\ Head(svcQ)[2] \subseteq Programs
    BY <1>1, <1>6 DEF EventEnablePsd, Take
  <2>2. psd' \in [mask : SUBSET Programs, notify : BOOLEAN, chk : 0 .. PSD]
    <3>1. ASSUME NEW mask \in SUBSET Programs
          PROVE  PsdOn(mask) \in [mask : SUBSET Programs, notify : BOOLEAN, chk : 0 .. PSD]
      <4>1. CASE mask # {}
        <5>1. PsdOn(mask) = [mask |-> mask, notify |-> TRUE, chk |-> PSD]
          BY <4>1 DEF PsdOn
        <5> QED
          BY <1>1, <5>1
      <4>2. CASE mask = {}
        <5>1. PsdOn(mask) = [psd EXCEPT !.mask = {}, !.notify = FALSE]
          BY <4>2 DEF PsdOn
        <5> QED
          BY <1>2, <5>1
      <4> QED
        BY <4>1, <4>2
    <3> QED
      BY <1>6, <2>1, <3>1 DEF EventEnablePsd
  <2>3. QueueTypes'
    BY <1>6, <2>1 DEF EventEnablePsd, Take, QueueTypes, input
  <2> QED
    BY <1>6, <2>2, <2>3 DEF EventEnablePsd, Take, Goto, LoopTypes
<1>7. CASE EventEnableSis
  <2>1. Tail(svcQ) \in Seq(Messages) /\ Head(svcQ)[2] \in BOOLEAN
    BY <1>1, <1>7 DEF EventEnableSis, Take
  <2>2. sis' \in [on : BOOLEAN, notify : BOOLEAN, chk : 0 .. SIS]
    <3>1. CASE Head(svcQ)[2]
      <4>1. sis' = [on |-> TRUE, notify |-> TRUE, chk |-> 0]
        BY <1>7, <3>1 DEF EventEnableSis
      <4> QED
        BY <1>1, <4>1
    <3>2. CASE ~Head(svcQ)[2]
      <4>1. sis' = [sis EXCEPT !.on = FALSE, !.notify = FALSE]
        BY <1>7, <3>2 DEF EventEnableSis
      <4> QED
        BY <1>2, <4>1
    <3> QED
      BY <3>1, <3>2
  <2>3. QueueTypes'
    BY <1>7, <2>1 DEF EventEnableSis, Take, QueueTypes, input
  <2> QED
    BY <1>7, <2>2, <2>3 DEF EventEnableSis, Take, Goto, LoopTypes
<1> QED
  BY <1>3, <1>4, <1>5, <1>6, <1>7

LEMMA StatusMoves ==
  ASSUME QueueTypes, LoopTypes, StatusWait \/ StatusRead \/ StatusReport
  PROVE  QueueTypes' /\ LoopTypes'
<1>1. statusChk \in 0 .. STATUS /\ STATUS \in Nat
  BY Intervals DEF LoopTypes
<1>2. CASE StatusWait
  <2>1. statusChk' \in 0 .. STATUS
    BY <1>1, <1>2 DEF StatusWait
  <2> QED
    BY <1>2, <2>1 DEF StatusWait, QueueTypes, LoopTypes, queues, input
<1>3. CASE StatusRead
  <2>1. core.gen \in Nat /\ core.acq \in BOOLEAN /\ slot.psd \in [Programs -> Dated]
    BY CoreParts, SlotParts
  <2>2. slot' \in [psd : [Programs -> Dated], signal : [gen : Nat, acq : BOOLEAN]]
    BY <1>3, <2>1 DEF StatusRead, LoopTypes
  <2> QED
    BY <1>3, <2>2 DEF StatusRead, QueueTypes, LoopTypes, queues, input
<1>4. CASE StatusReport
  <2> DEFINE m == [kind |-> "PTY", gen |-> core.gen, prog |-> progNum, value |-> PtyNow]
             reported == IF SignalNews THEN Append(appQ, Signal) ELSE appQ
  <2>1. Signal \in Notices /\ m \in Notices /\ appQ \in Seq(Notices)
    BY NoticesOf DEF QueueTypes
  <2>2. reported \in Seq(Notices)
    BY <2>1, AppendProperties
  <2>3. appQ' = IF PtyNews THEN Append(reported, m) ELSE reported
    BY <1>4 DEF StatusReport
  <2> HIDE DEF m, reported
  <2>4. appQ' \in Seq(Notices)
    BY <2>1, <2>2, <2>3, AppendProperties
  <2>5. QueueTypes'
    BY <1>4, <2>4 DEF StatusReport, QueueTypes, input
  <2> QED
    BY <1>1, <1>4, <2>5 DEF StatusReport, LoopTypes
<1> QED
  BY <1>2, <1>3, <1>4

LEMMA CountedDown ==
  ASSUME NEW top \in Nat, NEW look, look.chk \in 0 .. top
  PROVE  /\ Decreased(look) = [look EXCEPT !.chk = IF @ > 0 THEN @ - 1 ELSE 0]
         /\ (IF look.chk > 0 THEN look.chk - 1 ELSE 0) \in 0 .. top
  BY DEF Decreased

LEMMA PsdMoves ==
  ASSUME QueueTypes, LoopTypes, PsdWait \/ PsdLook \/ FillPsd \/ ClearPsd \/ SendPsd
  PROVE  QueueTypes' /\ LoopTypes'
<1> DEFINE Looks == [mask : SUBSET Programs, notify : BOOLEAN, chk : 0 .. PSD]
<1>1. PSD \in Nat \ {0} /\ psd \in Looks /\ psd.chk \in 0 .. PSD /\ psd.mask \in SUBSET Programs
  BY Intervals DEF LoopTypes
<1>2. core \in Cores /\ core.changed \in SUBSET Programs /\ core.data \in [Programs -> Dated]
  BY CoreParts
<1>3. CASE PsdWait
  <2>1. Decreased(psd) \in Looks
    BY <1>1, CountedDown
  <2>2. psd' \in Looks
    BY <1>1, <1>3, <2>1 DEF PsdWait
  <2> QED
    BY <1>3, <2>2 DEF PsdWait, QueueTypes, LoopTypes, queues, input
<1>4. CASE PsdLook
  <2>1. Wanted \in SUBSET Programs
    BY <1>1, <1>2 DEF Wanted
  <2>2. psd' \in Looks
    BY <1>1, <1>4 DEF PsdLook
  <2>3. core' \in Cores
    BY <1>2, <1>4 DEF PsdLook, Cores
  <2> QED
    BY <1>4, <2>1, <2>2, <2>3 DEF PsdLook, QueueTypes, LoopTypes, queues, input
<1>5. CASE FillPsd
  <2>1. PICK p \in Programs : slot' = [slot EXCEPT !.psd[p] = core.data[p]]
    BY <1>5 DEF FillPsd
  <2>2. slot' \in [psd : [Programs -> Dated], signal : [gen : Nat, acq : BOOLEAN]]
    BY <1>2, <2>1 DEF LoopTypes
  <2> QED
    BY <1>5, <2>2 DEF FillPsd, QueueTypes, LoopTypes, queues, input
<1>6. CASE ClearPsd
  <2>1. PICK p \in Programs : /\ core' = [core EXCEPT !.changed = @ \ {p}]
                              /\ missed' = IF slot.psd[p] = core.data[p] THEN missed \ {p} ELSE missed \cup {p}
                              /\ fill' = fill \ {p}
                              /\ pc' = IF fill' = {} THEN "send" ELSE "fill"
    BY <1>6 DEF ClearPsd
  <2>2. core' \in Cores
    BY <1>2, <2>1 DEF Cores
  <2>3. missed' \subseteq Programs /\ fill' \subseteq Programs /\ pc' \in {"send", "fill"}
    BY <2>1 DEF LoopTypes
  <2> QED
    BY <1>6, <2>2, <2>3 DEF ClearPsd, QueueTypes, LoopTypes, queues, input
<1>7. CASE SendPsd
  <2>1. PICK p \in Programs : appQ' = Append(appQ, PsdMessage(p)) /\ got' = got \ {p}
    BY <1>7 DEF SendPsd
  <2>2. appQ' \in Seq(Notices)
    BY <2>1, NoticesOf, AppendProperties DEF QueueTypes
  <2>3. Decreased([psd EXCEPT !.chk = PSD]) \in Looks
    <3>1. [psd EXCEPT !.chk = PSD] \in Looks
      BY <1>1
    <3> QED
      BY <1>1, <3>1, CountedDown
  <2>4. psd' \in Looks /\ quiet' \in 0 .. PSD /\ pc' \in {"send", "sis"}
    <3>1. CASE got' # {}
      <4>1. psd' = psd /\ quiet' = quiet /\ pc' = "send"
        BY <1>7, <3>1 DEF SendPsd
      <4> QED
        BY <1>1, <4>1 DEF LoopTypes
    <3>2. CASE got' = {}
      <4>1. psd' = Decreased([psd EXCEPT !.chk = PSD]) /\ quiet' = 0 /\ pc' = "sis"
        BY <1>7, <3>2 DEF SendPsd
      <4>2. quiet' \in 0 .. PSD
        BY <1>1, <4>1
      <4> QED
        BY <2>3, <4>1, <4>2
    <3> QED
      BY <3>1, <3>2
  <2>5. got' \subseteq Programs
    BY <2>1 DEF LoopTypes
  <2> QED
    BY <1>7, <2>2, <2>4, <2>5 DEF SendPsd, QueueTypes, LoopTypes, input
<1> QED
  BY <1>3, <1>4, <1>5, <1>6, <1>7

LEMMA SisMoves ==
  ASSUME QueueTypes, LoopTypes, SisWait \/ SisLook \/ SisCopy
  PROVE  QueueTypes' /\ LoopTypes'
<1> DEFINE Looks == [on : BOOLEAN, notify : BOOLEAN, chk : 0 .. SIS]
<1>1. SIS \in Nat \ {0} /\ sis \in Looks /\ sis.chk \in 0 .. SIS
  BY Intervals DEF LoopTypes
<1>2. CASE SisWait
  <2>1. Decreased(sis) \in Looks
    BY <1>1, CountedDown
  <2>2. PICK chk \in 0 .. SIS, notify \in BOOLEAN : sis' = [Decreased(sis) EXCEPT !.chk = chk, !.notify = notify]
    <3>1. Decreased(sis).chk \in 0 .. SIS /\ Decreased(sis).notify \in BOOLEAN
      BY <2>1
    <3>2. (IF sis.on THEN Decreased(sis).chk ELSE sis.chk) \in 0 .. SIS
      BY <1>1, <3>1
    <3>3. (IF SisDue THEN FALSE ELSE Decreased(sis).notify) \in BOOLEAN
      BY <3>1
    <3>4. sis' = [Decreased(sis) EXCEPT !.chk = IF sis.on THEN Decreased(sis).chk ELSE sis.chk,
                                        !.notify = IF SisDue THEN FALSE ELSE Decreased(sis).notify]
      BY <1>2 DEF SisWait
    <3> QED
      BY <3>2, <3>3, <3>4
  <2>3. sis' \in Looks
    BY <2>1, <2>2
  <2> QED
    BY <1>2, <2>3 DEF SisWait, QueueTypes, LoopTypes, queues, input
<1>3. CASE SisLook
  <2>1. sis' \in Looks
    BY <1>1, <1>3 DEF SisLook
  <2> QED
    BY <1>3, <2>1 DEF SisLook, QueueTypes, LoopTypes, queues, input
<1>4. CASE SisCopy
  <2>1. appQ' \in Seq(Notices)
    BY <1>4, NoticesOf, AppendProperties DEF SisCopy, QueueTypes
  <2>2. Decreased([sis EXCEPT !.chk = SIS]) \in Looks
    <3>1. [sis EXCEPT !.chk = SIS] \in Looks
      BY <1>1
    <3> QED
      BY <1>1, <3>1, CountedDown
  <2>3. sis' \in Looks
    BY <1>1, <1>4, <2>2 DEF SisCopy
  <2> QED
    BY <1>4, <2>1, <2>3 DEF SisCopy, QueueTypes, LoopTypes, input
<1> QED
  BY <1>2, <1>3, <1>4

(* What stays of a queue that is handed over from its front. *)
LEMMA HandedOverParts ==
  ASSUME QueueTypes
  PROVE  /\ HandedOver \in 0 .. Len(appQ) /\ Len(appQ) \in Nat
         /\ \A i \in 1 .. HandedOver : Burst[i] = appQ[i] /\ Burst[i].gen \in Nat
         /\ SubSeq(appQ, HandedOver + 1, Len(appQ)) \in Seq(Notices)
         /\ Len(SubSeq(appQ, HandedOver + 1, Len(appQ))) = Len(appQ) - HandedOver
         /\ \A i \in 1 .. Len(appQ) - HandedOver :
              SubSeq(appQ, HandedOver + 1, Len(appQ))[i] = appQ[i + HandedOver]
<1>1. /\ Len(appQ) \in Nat /\ BURST \in Nat /\ DOMAIN appQ = 1 .. Len(appQ)
      /\ \A i \in 1 .. Len(appQ) : appQ[i] \in Notices /\ appQ[i].gen \in Nat
  BY AppQTyped, Intervals
<1>2. HandedOver \in 0 .. Len(appQ)
  BY <1>1 DEF HandedOver
<1> DEFINE n == HandedOver
<1>3. n \in 0 .. Len(appQ)
  BY <1>2
<1> HIDE DEF n
<1>4. /\ \A i \in 1 .. n : appQ[i] \in Notices
      /\ \A i \in n + 1 .. Len(appQ) : appQ[i] \in Notices
  BY <1>1, <1>3
<1>5. \A i \in 1 .. n - 1 + 1 : SubSeq(appQ, 1, n)[i] = appQ[1 + i - 1]
  BY <1>3, <1>4, SubSeqProperties
<1>6. \A i \in 1 .. n : SubSeq(appQ, 1, n)[i] = appQ[i]
  BY <1>3, <1>5
<1>7. /\ SubSeq(appQ, n + 1, Len(appQ)) \in Seq(Notices)
      /\ Len(SubSeq(appQ, n + 1, Len(appQ))) = IF n + 1 <= Len(appQ) THEN Len(appQ) - (n + 1) + 1 ELSE 0
      /\ \A i \in 1 .. Len(appQ) - (n + 1) + 1 : SubSeq(appQ, n + 1, Len(appQ))[i] = appQ[(n + 1) + i - 1]
  <2>1. n + 1 \in Int /\ Len(appQ) \in Int
    BY <1>1, <1>3
  <2> QED
    BY <1>4, <2>1, SubSeqProperties
<1>8. Len(SubSeq(appQ, n + 1, Len(appQ))) = Len(appQ) - n
  <2>1. \A all, part \in Nat : part <= all =>
          (IF part + 1 <= all THEN all - (part + 1) + 1 ELSE 0) = all - part
    OBVIOUS
  <2>2. (IF n + 1 <= Len(appQ) THEN Len(appQ) - (n + 1) + 1 ELSE 0) = Len(appQ) - n
    <3>1. n \in Nat /\ Len(appQ) \in Nat /\ n <= Len(appQ)
      BY <1>1, <1>3
    <3> QED
      BY <2>1, <3>1, Zenon
  <2> QED
    BY <1>7, <2>2
<1>9. \A i \in 1 .. Len(appQ) - n : SubSeq(appQ, n + 1, Len(appQ))[i] = appQ[i + n]
  <2>1. \A i \in 1 .. Len(appQ) - n : i \in 1 .. Len(appQ) - (n + 1) + 1 /\ (n + 1) + i - 1 = i + n
    BY <1>1, <1>3
  <2> QED
    BY <1>7, <2>1
<1>10. /\ \A i \in 1 .. n : Burst[i] = appQ[i]
       /\ n = HandedOver
  BY <1>6 DEF n, Burst
<1>11. SubSeq(appQ, n + 1, Len(appQ)) \in Seq(Notices) /\ DOMAIN appQ = 1 .. Len(appQ)
  BY <1>1, <1>7
<1>12. \A i \in 1 .. HandedOver : Burst[i] = appQ[i] /\ Burst[i].gen \in Nat
  <2>1. \A i \in 1 .. HandedOver : i \in 1 .. Len(appQ)
    BY <1>1, <1>2
  <2> QED
    BY <1>1, <1>10, <2>1
<1> QED
  BY <1>1, <1>2, <1>8, <1>9, <1>10, <1>11, <1>12

LEMMA NotifyMoves ==
  ASSUME QueueTypes, LoopTypes, Notify
  PROVE  QueueTypes' /\ LoopTypes'
<1> DEFINE tunes == {Burst[i].gen : i \in {j \in 1 .. HandedOver : ~Kept(Burst[j])}}
<1>1. \A g \in {told} \cup tunes : g \in Nat
  BY HandedOverParts DEF QueueTypes
<1>2. told' \in {told} \cup tunes
  BY DEF Notify
<1>3. appQ' \in Seq(Notices)
  BY HandedOverParts DEF Notify
<1>4. quiet' \in 0 .. PSD
  BY Intervals DEF Notify, LoopTypes
<1>5. told' \in Nat
  BY <1>1, <1>2
<1> HIDE DEF tunes
<1> QED
  BY <1>3, <1>4, <1>5 DEF Notify, QueueTypes, LoopTypes, input

Surroundings == \/ \E mask \in SUBSET Programs : EnablePsdNotification(mask)
                \/ \E en \in BOOLEAN : EnableSisNotification(en)
                \/ \E f \in Freqs : SetTune(f)
                \/ \E p \in Programs : SetProgram(p) \/ ReceivePsd(p)
                \/ Input \/ Reacquired \/ Acquire \/ Lose \/ Deliver

(* What is not a step of the service thread leaves what is its own alone.  *)
LEMMA LoopAlone ==
  ASSUME Surroundings \/ UNCHANGED vars
  PROVE  UNCHANGED <<thread, slot, quiet, missed, appQ, told>>
<1>1. CASE \E mask \in SUBSET Programs : EnablePsdNotification(mask)
  BY <1>1 DEF EnablePsdNotification, Ask
<1>2. CASE \E en \in BOOLEAN : EnableSisNotification(en)
  BY <1>2 DEF EnableSisNotification, Ask
<1>3. CASE \E f \in Freqs : SetTune(f)
  BY <1>3 DEF SetTune
<1>4. CASE \E p \in Programs : SetProgram(p) \/ ReceivePsd(p)
  BY <1>4 DEF SetProgram, ReceivePsd, queues
<1>5. CASE Input
  BY <1>5 DEF Input, SetTuneStore, Reacquire, TuneDone, queues
<1>6. CASE Reacquired \/ Acquire \/ Lose \/ Deliver
  BY <1>6 DEF Reacquired, Acquire, Lose, Deliver, queues
<1>7. CASE UNCHANGED vars
  BY <1>7 DEF vars, queues
<1> QED
  BY <1>1, <1>2, <1>3, <1>4, <1>5, <1>6, <1>7 DEF Surroundings

LEMMA ServiceSteps == [Next]_vars => Pass \/ Surroundings \/ UNCHANGED vars
  BY DEF Next, Surroundings

LEMMA SurroundingTypes ==
  ASSUME QueueTypes, Surroundings
  PROVE  QueueTypes'
<1>1. ASSUME NEW mask \in SUBSET Programs, EnablePsdNotification(mask) PROVE QueueTypes'
  <2>1. <<"PSD", mask>> \in Messages
    BY DEF Messages
  <2> QED
    BY <1>1, <2>1, Asked DEF EnablePsdNotification
<1>2. ASSUME NEW en \in BOOLEAN, EnableSisNotification(en) PROVE QueueTypes'
  <2>1. <<"SIS", en>> \in Messages
    BY DEF Messages
  <2> QED
    BY <1>2, <2>1, Asked DEF EnableSisNotification
<1>3. ASSUME NEW f \in Freqs, SetTune(f) PROVE QueueTypes'
  <2>1. <<"TUNE", f>> \in Messages
    BY DEF Messages
  <2>2. svcQ' \in Seq(Messages)
    BY <1>3, <2>1, AppendProperties DEF SetTune, QueueTypes
  <2> QED
    BY <1>3, <2>2 DEF SetTune, QueueTypes, input
<1>4. CASE Deliver
  BY <1>4 DEF Deliver, QueueTypes, input
<1> QED
  BY <1>1, <1>2, <1>3, <1>4, CoreMoves, InputMoves DEF Surroundings

LEMMA TypesNext == QueueTypes /\ LoopTypes /\ [Next]_vars => QueueTypes' /\ LoopTypes'
<1> SUFFICES ASSUME QueueTypes, LoopTypes, [Next]_vars PROVE QueueTypes' /\ LoopTypes'
  OBVIOUS
<1>1. CASE Pass
  BY <1>1, TakeMoves, StatusMoves, PsdMoves, SisMoves, NotifyMoves DEF Pass
<1>2. CASE Surroundings \/ UNCHANGED vars
  <2>1. LoopTypes'
    BY <1>2, LoopAlone DEF LoopTypes, thread
  <2>2. QueueTypes'
    <3>1. CASE UNCHANGED vars
      BY <3>1 DEF vars, queues, input, QueueTypes
    <3> QED
      BY <1>2, <3>1, SurroundingTypes
  <2> QED
    BY <2>1, <2>2
<1> QED
  BY <1>1, <1>2, ServiceSteps

-----------------------------------------------------------------------------
(* The slots of PSD.  Their counter and the passes since they were sent    *)
(* add up to the interval, one less after the counter has been counted     *)
(* down in this pass.                                                      *)
Countdown ==
  /\ pc \in {"message", "status", "report", "psd", "fill", "clear", "send"} => quiet >= PSD - psd.chk
  /\ pc \in {"sis", "copy", "notify"} => quiet + 1 >= PSD - psd.chk
  /\ pc \in {"fill", "clear", "send"} => psd.chk = 0

LEMMA CountdownInit == Init => Countdown
<1> SUFFICES ASSUME Init PROVE Countdown
  OBVIOUS
<1>1. pc = "message" /\ quiet = 0 /\ psd.chk = PSD
  BY DEF Init
<1> QED
  BY <1>1, Intervals DEF Countdown

LEMMA CountdownNext == LoopTypes /\ LoopTypes' /\ Countdown /\ [Next]_vars => Countdown'
<1> SUFFICES ASSUME LoopTypes, LoopTypes', Countdown, [Next]_vars PROVE Countdown'
  OBVIOUS
<1>1. /\ PSD \in Nat \ {0} /\ psd.chk \in 0 .. PSD /\ quiet \in 0 .. PSD
      /\ psd'.chk \in 0 .. PSD /\ quiet' \in 0 .. PSD
  BY Intervals DEF LoopTypes
<1>2. psd \in [mask : SUBSET Programs, notify : BOOLEAN, chk : 0 .. PSD]
  BY DEF LoopTypes
<1>3. CASE EventSetTune
  <2>1. psd'.chk = PSD /\ quiet' = 0 /\ pc' = "status"
    BY <1>2, <1>3 DEF EventSetTune, Take, Goto
  <2> QED
    BY <1>1, <2>1 DEF Countdown
<1>4. CASE EventEnablePsd
  <2>1. /\ psd'.chk = PSD \/ psd'.chk = psd.chk
        /\ quiet' = quiet /\ pc = "message" /\ pc' = "status"
    BY <1>2, <1>4 DEF EventEnablePsd, PsdOn, Take, Goto
  <2> QED
    BY <1>1, <2>1 DEF Countdown
<1>5. CASE NoMessage \/ NotifyTune \/ EventEnableSis \/ StatusWait \/ StatusRead \/ StatusReport
  <2>1. /\ psd' = psd /\ quiet' = quiet
        /\ pc \in {"message", "status", "report"} /\ pc' \in {"status", "report", "psd"}
    BY <1>5 DEF NoMessage, NotifyTune, EventEnableSis, StatusWait, StatusRead, StatusReport, Take, Goto
  <2> QED
    BY <1>1, <2>1 DEF Countdown
<1>6. CASE PsdWait
  <2>1. /\ psd' = psd \/ psd' = Decreased(psd)
        /\ quiet' = quiet /\ pc = "psd" /\ pc' = "sis"
    BY <1>6 DEF PsdWait
  <2>2. Decreased(psd).chk = IF psd.chk > 0 THEN psd.chk - 1 ELSE 0
    BY <1>2 DEF Decreased
  <2>3. psd'.chk = psd.chk \/ psd'.chk = psd.chk - 1
    BY <1>1, <2>1, <2>2
  <2>4. quiet >= PSD - psd.chk
    BY <2>1 DEF Countdown
  <2>5. quiet' + 1 >= PSD - psd'.chk
    BY <1>1, <2>1, <2>3, <2>4
  <2> QED
    BY <2>1, <2>5 DEF Countdown
<1>7. CASE PsdLook
  <2>1. psd' = [psd EXCEPT !.notify = FALSE] /\ quiet' = quiet /\ pc = "psd" /\ pc' = "fill" /\ psd.chk = 0
    BY <1>7 DEF PsdLook, PsdDue
  <2>2. psd'.chk = psd.chk
    BY <1>2, <2>1
  <2> QED
    BY <2>1, <2>2 DEF Countdown
<1>8. CASE FillPsd \/ ClearPsd
  <2>1. psd' = psd /\ quiet' = quiet /\ pc \in {"fill", "clear"} /\ pc' \in {"fill", "clear", "send"}
    BY <1>8 DEF FillPsd, ClearPsd
  <2> QED
    BY <2>1 DEF Countdown
<1>9. CASE SendPsd
  <2>1. CASE got' # {}
    <3>1. psd' = psd /\ quiet' = quiet /\ pc' = pc
      BY <1>9, <2>1 DEF SendPsd
    <3> QED
      BY <3>1 DEF Countdown
  <2>2. CASE got' = {}
    <3>1. psd' = Decreased([psd EXCEPT !.chk = PSD]) /\ quiet' = 0 /\ pc' = "sis"
      BY <1>9, <2>2 DEF SendPsd
    <3>2. [psd EXCEPT !.chk = PSD].chk = PSD
      BY <1>2
    <3>3. Decreased([psd EXCEPT !.chk = PSD]).chk = IF PSD > 0 THEN PSD - 1 ELSE 0
      BY <1>2, <3>2 DEF Decreased
    <3>4. psd'.chk = PSD - 1
      BY <1>1, <3>1, <3>3
    <3>5. quiet' + 1 >= PSD - psd'.chk
      BY <1>1, <3>1, <3>4
    <3> QED
      BY <3>1, <3>5 DEF Countdown
  <2> QED
    BY <2>1, <2>2
<1>10. CASE SisWait \/ SisLook \/ SisCopy
  <2>1. psd' = psd /\ quiet' = quiet /\ pc \in {"sis", "copy"} /\ pc' \in {"copy", "notify"}
    BY <1>10 DEF SisWait, SisLook, SisCopy
  <2> QED
    BY <2>1 DEF Countdown
<1>11. CASE Notify
  <2>1. psd' = psd /\ pc = "notify" /\ pc' = "message" /\ quiet' = IF quiet < PSD THEN quiet + 1 ELSE PSD
    BY <1>11 DEF Notify
  <2>2. quiet + 1 >= PSD - psd.chk
    BY <2>1 DEF Countdown
  <2>3. quiet' >= PSD - psd'.chk
    BY <1>1, <2>1, <2>2
  <2> QED
    BY <2>1, <2>3 DEF Countdown
<1>12. CASE Surroundings \/ UNCHANGED vars
  BY <1>12, LoopAlone DEF thread, Countdown
<1> QED
  BY <1>3, <1>4, <1>5, <1>6, <1>7, <1>8, <1>9, <1>10, <1>11, <1>12, ServiceSteps DEF Pass

LEMMA SlotsKept ==
  ASSUME LoopTypes, Countdown, [Next]_vars, slot'.psd # slot.psd
  PROVE  quiet >= PSD
<1>1. pc = "fill"
  <2>1. CASE FillPsd
    BY <2>1 DEF FillPsd
  <2>2. CASE StatusRead
    <3>1. slot'.psd = slot.psd
      BY <2>2 DEF StatusRead, LoopTypes
    <3> QED
      BY <3>1
  <2>3. CASE Pass /\ ~FillPsd /\ ~StatusRead
    <3>1. slot' = slot
      BY <2>3 DEF Pass, NoMessage, EventSetTune, NotifyTune, EventEnablePsd, EventEnableSis, StatusWait,
                  StatusReport, PsdWait, PsdLook, ClearPsd, SendPsd, SisWait, SisLook, SisCopy, Notify
    <3> QED
      BY <3>1
  <2>4. CASE Surroundings \/ UNCHANGED vars
    BY <2>4, LoopAlone
  <2> QED
    BY <2>1, <2>2, <2>3, <2>4, ServiceSteps
<1>2. quiet >= PSD - 0 /\ psd.chk = 0
  BY <1>1 DEF Countdown
<1>3. PSD \in Nat /\ quiet \in 0 .. PSD
  BY Intervals DEF LoopTypes
<1> QED
  BY <1>2, <1>3

(* The slots of PSD are left alone for PSD passes after they were sent,    *)
(* and after a tune request, whatever is asked for in between.             *)
THEOREM ServicePsdHeld == Spec => PsdHeld
<1>1. LoopTypes /\ Countdown /\ [Next]_vars => [slot'.psd # slot.psd => quiet >= PSD]_vars
  BY SlotsKept
<1>2. Spec => []QueueTypes /\ []LoopTypes
  BY QueueTypesInit, LoopTypesInit, TypesNext, PTL DEF Spec
<1>3. Spec => []Countdown
  BY <1>2, CountdownInit, CountdownNext, PTL DEF Spec
<1> QED
  BY <1>1, <1>2, <1>3, PTL DEF Spec, PsdHeld

-----------------------------------------------------------------------------
(* The stations.  What was read at reacquisition g may still be told of:   *)
(* the callback has not been told of a later one, and no word of a later   *)
(* one is queued.                                                          *)
StillNew(t, q, g) == t <= g /\ \A i \in DOMAIN q : q[i].kind = "TUNE" => q[i].gen <= g

InTurn(t, q) == \A j \in DOMAIN q : /\ q[j].gen >= t
                                    /\ \A i \in 1 .. j : q[i].kind = "TUNE" => q[j].gen >= q[i].gen

CoreFresh == StillNew(told, appQ, core.gen) /\ \A p \in Programs : core.data[p].gen = core.gen

(* Answers on their way are of stations the core has come to, in turn.     *)
AnswersInTurn ==
  \A i \in DOMAIN svcQ : svcQ[i][1] = "TUNED" =>
    /\ StillNew(told, appQ, svcQ[i][2]) /\ svcQ[i][2] <= core.gen
    /\ \A k \in 1 .. i : svcQ[k][1] = "TUNED" => svcQ[k][2] <= svcQ[i][2]

(* What the service thread has read in a pass it has not told of yet: no   *)
(* answer is taken in between.                                             *)
SignalFresh == pc = "report" => StillNew(told, appQ, slot.signal.gen)

CopiedInPass(p) == p \in got /\ (p \notin fill \/ (pc = "clear" /\ NextOf(fill, p)))

DataFresh == /\ pc = "send" => fill = {}
             /\ pc \in {"fill", "clear", "send"} =>
                  \A p \in Programs : CopiedInPass(p) => StillNew(told, appQ, slot.psd[p].gen)

(* Words may be added that are not of a tuning, and fresh. *)
LEMMA WordQueued ==
  ASSUME NEW t \in Nat, NEW q \in Seq(Notices), InTurn(t, q),
         NEW m \in Notices, m.kind # "TUNE", StillNew(t, q, m.gen)
  PROVE  /\ Append(q, m) \in Seq(Notices) /\ InTurn(t, Append(q, m))
         /\ \A g \in Nat : StillNew(t, q, g) => StillNew(t, Append(q, m), g)
<1> DEFINE a == Append(q, m)
           n == Len(q) + 1
<1>1. /\ Len(q) \in Nat /\ DOMAIN q = 1 .. Len(q)
      /\ a \in Seq(Notices) /\ DOMAIN a = 1 .. n /\ a[n] = m
      /\ \A i \in 1 .. Len(q) : a[i] = q[i]
  BY LenProperties, AppendProperties
<1>2. n \in Nat /\ \A i \in 1 .. n : i \in 1 .. Len(q) \/ i = n
  BY <1>1
<1>3. \A i \in DOMAIN q : q[i].gen \in Nat
  BY <1>1, ElementOfSeq, NoticeGen
<1>4. m.gen \in Nat /\ m.gen >= m.gen
  BY NoticeGen
<1> HIDE DEF a, n
<1>5. ASSUME NEW j \in DOMAIN a
      PROVE  /\ a[j].gen >= t
             /\ \A i \in 1 .. j : a[i].kind = "TUNE" => a[j].gen >= a[i].gen
  <2>1. CASE j \in 1 .. Len(q)
    <3>1. \A i \in 1 .. j : i \in 1 .. Len(q)
      BY <1>1, <2>1
    <3> QED
      BY <1>1, <2>1, <3>1 DEF InTurn
  <2>2. CASE j = n
    <3>1. a[j].gen >= t
      BY <1>1, <1>4, <2>2 DEF StillNew
    <3>2. ASSUME NEW i \in 1 .. j, a[i].kind = "TUNE" PROVE a[j].gen >= a[i].gen
      <4>1. i \in 1 .. Len(q)
        BY <1>1, <1>2, <2>2, <3>2
      <4> QED
        BY <1>1, <1>3, <1>4, <2>2, <3>2, <4>1 DEF StillNew
    <3> QED
      BY <3>1, <3>2
  <2> QED
    BY <1>1, <1>2, <2>1, <2>2
<1>6. ASSUME NEW g \in Nat, StillNew(t, q, g) PROVE StillNew(t, a, g)
  BY <1>1, <1>2, <1>6 DEF StillNew
<1> QED
  BY <1>1, <1>5, <1>6 DEF InTurn, a

(* The word of a tuning comes after everything older. *)
LEMMA TuneQueued ==
  ASSUME NEW t \in Nat, NEW q \in Seq(Notices), InTurn(t, q),
         NEW m \in Notices, StillNew(t, q, m.gen)
  PROVE  /\ InTurn(t, Append(q, m))
         /\ \A g \in Nat : StillNew(t, q, g) /\ m.gen <= g => StillNew(t, Append(q, m), g)
<1> DEFINE a == Append(q, m)
           n == Len(q) + 1
<1>1. /\ Len(q) \in Nat /\ DOMAIN q = 1 .. Len(q)
      /\ a \in Seq(Notices) /\ DOMAIN a = 1 .. n /\ a[n] = m
      /\ \A i \in 1 .. Len(q) : a[i] = q[i]
  BY LenProperties, AppendProperties
<1>2. n \in Nat /\ \A i \in 1 .. n : i \in 1 .. Len(q) \/ i = n
  BY <1>1
<1>3. \A i \in DOMAIN q : q[i].gen \in Nat
  BY <1>1, ElementOfSeq, NoticeGen
<1>4. m.gen \in Nat /\ m.gen >= m.gen
  BY NoticeGen
<1> HIDE DEF a, n
<1>5. ASSUME NEW j \in DOMAIN a
      PROVE  /\ a[j].gen >= t
             /\ \A i \in 1 .. j : a[i].kind = "TUNE" => a[j].gen >= a[i].gen
  <2>1. CASE j \in 1 .. Len(q)
    <3>1. \A i \in 1 .. j : i \in 1 .. Len(q)
      BY <1>1, <2>1
    <3> QED
      BY <1>1, <2>1, <3>1 DEF InTurn
  <2>2. CASE j = n
    <3>1. a[j].gen >= t
      BY <1>1, <1>4, <2>2 DEF StillNew
    <3>2. ASSUME NEW i \in 1 .. j, a[i].kind = "TUNE" PROVE a[j].gen >= a[i].gen
      <4>1. CASE i \in 1 .. Len(q)
        BY <1>1, <1>3, <1>4, <2>2, <3>2, <4>1 DEF StillNew
      <4>2. CASE i = n
        BY <1>1, <1>4, <2>2, <4>2
      <4> QED
        BY <1>2, <2>2, <4>1, <4>2
    <3> QED
      BY <3>1, <3>2
  <2> QED
    BY <1>1, <1>2, <2>1, <2>2
<1>6. ASSUME NEW g \in Nat, StillNew(t, q, g), m.gen <= g PROVE StillNew(t, a, g)
  BY <1>1, <1>2, <1>6 DEF StillNew
<1> QED
  BY <1>5, <1>6 DEF InTurn, a

(* Notifications handed over. *)
LEMMA HandedOn ==
  ASSUME QueueTypes, LoopTypes, InTurn(told, appQ), Notify
  PROVE  /\ InTurn(told', appQ')
         /\ \A g \in Nat : StillNew(told, appQ, g) => StillNew(told', appQ', g)
<1> DEFINE n == HandedOver
           tunes == {Burst[i].gen : i \in {j \in 1 .. HandedOver : ~Kept(Burst[j])}}
<1>1. /\ n \in 0 .. Len(appQ) /\ Len(appQ) \in Nat
      /\ \A i \in 1 .. n : Burst[i] = appQ[i]
      /\ appQ' \in Seq(Notices) /\ Len(appQ') = Len(appQ) - n
      /\ \A i \in 1 .. Len(appQ) - n : appQ'[i] = appQ[i + n]
  BY HandedOverParts DEF Notify
<1>2. /\ DOMAIN appQ = 1 .. Len(appQ) /\ DOMAIN appQ' = 1 .. Len(appQ) - n
      /\ \A i \in 1 .. Len(appQ) : appQ[i].gen \in Nat
  BY <1>1, LenProperties, AppQTyped
<1>3. \A h \in tunes : \E i \in 1 .. n : appQ[i].kind = "TUNE" /\ h = appQ[i].gen
  <2> SUFFICES ASSUME NEW i \in 1 .. HandedOver, ~Kept(Burst[i])
               PROVE  appQ[i].kind = "TUNE" /\ Burst[i].gen = appQ[i].gen
    BY DEF n
  <2>1. Burst[i] = appQ[i]
    BY <1>1
  <2> QED
    BY <2>1 DEF Kept
<1>4. told' \in {told} \cup tunes
  BY DEF Notify
<1> HIDE DEF n, tunes
<1>5. told' = told \/ \E i \in 1 .. n : appQ[i].kind = "TUNE" /\ told' = appQ[i].gen
  BY <1>3, <1>4
<1>6. told \in Nat /\ told' \in Nat
  BY NotifyMoves DEF QueueTypes
<1>7. \A j \in 1 .. Len(appQ) - n : /\ j + n \in 1 .. Len(appQ)
                                    /\ \A i \in 1 .. n : i \in 1 .. j + n
                                    /\ \A i \in 1 .. j : i + n \in 1 .. j + n /\ i \in 1 .. Len(appQ) - n
  BY <1>1
<1>8. \A i \in 1 .. n : i \in 1 .. Len(appQ)
  BY <1>1
<1>9. InTurn(told', appQ')
  <2> SUFFICES ASSUME NEW j \in 1 .. Len(appQ) - n
               PROVE  /\ appQ'[j].gen >= told'
                      /\ \A i \in 1 .. j : appQ'[i].kind = "TUNE" => appQ'[j].gen >= appQ'[i].gen
    BY <1>2 DEF InTurn
  <2>1. appQ'[j] = appQ[j + n] /\ j + n \in DOMAIN appQ
    BY <1>1, <1>2, <1>7
  <2>2. /\ appQ[j + n].gen >= told
        /\ \A i \in 1 .. j + n : appQ[i].kind = "TUNE" => appQ[j + n].gen >= appQ[i].gen
    BY <2>1 DEF InTurn
  <2>3. appQ'[j].gen >= told'
    BY <1>5, <1>7, <2>1, <2>2
  <2>4. ASSUME NEW i \in 1 .. j, appQ'[i].kind = "TUNE" PROVE appQ'[j].gen >= appQ'[i].gen
    <3>1. appQ'[i] = appQ[i + n] /\ i + n \in 1 .. j + n
      BY <1>1, <1>7
    <3> QED
      BY <2>1, <2>2, <2>4, <3>1
  <2> QED
    BY <2>3, <2>4
<1>10. ASSUME NEW g \in Nat, StillNew(told, appQ, g) PROVE StillNew(told', appQ', g)
  <2>1. told' <= g
    BY <1>2, <1>5, <1>8, <1>10 DEF StillNew
  <2>2. ASSUME NEW i \in DOMAIN appQ', appQ'[i].kind = "TUNE" PROVE appQ'[i].gen <= g
    <3>1. i \in 1 .. Len(appQ) - n /\ appQ'[i] = appQ[i + n] /\ i + n \in DOMAIN appQ
      BY <1>1, <1>2, <1>7
    <3> QED
      BY <1>10, <2>2, <3>1 DEF StillNew
  <2> QED
    BY <2>1, <2>2 DEF StillNew
<1> QED
  BY <1>9, <1>10

(* What is told of the signal, one after the other. *)
LEMMA Reported ==
  ASSUME QueueTypes, LoopTypes, InTurn(told, appQ), CoreFresh, SignalFresh, StatusReport
  PROVE  /\ InTurn(told', appQ')
         /\ \A g \in Nat : StillNew(told, appQ, g) => StillNew(told', appQ', g)
<1> DEFINE m == [kind |-> "PTY", gen |-> core.gen, prog |-> progNum, value |-> PtyNow]
           reported == IF SignalNews THEN Append(appQ, Signal) ELSE appQ
<1>1. /\ Signal \in Notices /\ m \in Notices /\ m.kind = "PTY" /\ m.gen = core.gen
      /\ Signal.gen = slot.signal.gen /\ Signal.kind = "SIGNAL" /\ core.gen \in Nat
      /\ appQ \in Seq(Notices) /\ told \in Nat
  BY NoticesOf, CoreParts DEF QueueTypes
<1>2. appQ' = IF PtyNews THEN Append(reported, m) ELSE reported
  BY DEF StatusReport
<1>3. StillNew(told, appQ, slot.signal.gen) /\ StillNew(told, appQ, core.gen)
  BY DEF SignalFresh, StatusReport, CoreFresh
<1> HIDE DEF m
<1>4. /\ reported \in Seq(Notices) /\ InTurn(told, reported)
      /\ \A g \in Nat : StillNew(told, appQ, g) => StillNew(told, reported, g)
  BY <1>1, <1>3, WordQueued
<1> HIDE DEF reported
<1>5. StillNew(told, reported, core.gen)
  BY <1>1, <1>3, <1>4
<1>6. /\ InTurn(told, appQ')
      /\ \A g \in Nat : StillNew(told, reported, g) => StillNew(told, appQ', g)
  <2>1. CASE PtyNews
    <3>1. appQ' = Append(reported, m) /\ m.kind # "TUNE" /\ StillNew(told, reported, m.gen)
      BY <1>1, <1>2, <1>5, <2>1
    <3> QED
      BY <1>1, <1>4, <3>1, WordQueued
  <2>2. CASE ~PtyNews
    BY <1>2, <1>4, <2>2
  <2> QED
    BY <2>1, <2>2
<1>7. told' = told
  BY DEF StatusReport
<1> QED
  BY <1>4, <1>6, <1>7

LEMMA FreshStays ==
  ASSUME QueueTypes, LoopTypes, InTurn(told, appQ), CoreFresh, SignalFresh, DataFresh,
         [Next]_vars, ~NotifyTune
  PROVE  /\ InTurn(told', appQ')
         /\ \A g \in Nat : StillNew(told, appQ, g) => StillNew(told', appQ', g)
<1>1. CASE StatusReport
  BY <1>1, Reported
<1>2. CASE Notify
  BY <1>2, HandedOn
<1>3. CASE SendPsd
  <2>1. PICK p \in Programs : NextOf(got, p) /\ appQ' = Append(appQ, PsdMessage(p))
    BY <1>3 DEF SendPsd
  <2>2. CopiedInPass(p) /\ pc = "send"
    BY <1>3, <2>1 DEF CopiedInPass, NextOf, DataFresh, SendPsd
  <2>3. StillNew(told, appQ, slot.psd[p].gen)
    BY <2>2 DEF DataFresh
  <2>4. /\ PsdMessage(p) \in Notices /\ PsdMessage(p).gen = slot.psd[p].gen /\ PsdMessage(p).kind # "TUNE"
        /\ told \in Nat /\ appQ \in Seq(Notices)
    BY NoticesOf DEF PsdMessage, QueueTypes
  <2>5. told' = told
    BY <1>3 DEF SendPsd
  <2> QED
    BY <2>1, <2>3, <2>4, <2>5, WordQueued
<1>4. CASE SisCopy
  <2> DEFINE m == [kind |-> "SIS", gen |-> core.gen]
  <2>1. m \in Notices /\ m.gen = core.gen /\ m.kind # "TUNE" /\ told \in Nat /\ appQ \in Seq(Notices)
    BY NoticesOf DEF QueueTypes
  <2>2. StillNew(told, appQ, m.gen)
    BY <2>1 DEF CoreFresh
  <2>3. told' = told /\ (appQ' = appQ \/ appQ' = Append(appQ, m))
    BY <1>4 DEF SisCopy
  <2> HIDE DEF m
  <2> QED
    BY <2>1, <2>2, <2>3, WordQueued
<1>5. CASE Pass /\ ~StatusReport /\ ~Notify /\ ~SendPsd /\ ~SisCopy
  <2>1. told' = told /\ appQ' = appQ
    BY <1>5 DEF Pass, NoMessage, EventSetTune, EventEnablePsd, EventEnableSis, StatusWait,
                StatusRead, PsdWait, PsdLook, FillPsd, ClearPsd, SisWait, SisLook, queues
  <2> QED
    BY <2>1
<1>6. CASE Surroundings \/ UNCHANGED vars
  BY <1>6, LoopAlone
<1> QED
  BY <1>1, <1>2, <1>3, <1>4, <1>5, <1>6, ServiceSteps

LEMMA AnswerTaken ==
  ASSUME QueueTypes, LoopTypes, InTurn(told, appQ), AnswersInTurn, NotifyTune
  PROVE  /\ InTurn(told', appQ') /\ told' = told
         /\ Head(svcQ)[2] \in Nat /\ Head(svcQ) = svcQ[1] /\ svcQ # <<>> /\ svcQ[1][1] = "TUNED"
         /\ \A g \in Nat : StillNew(told, appQ, g) /\ svcQ[1][2] <= g => StillNew(told', appQ', g)
<1> DEFINE g0 == Head(svcQ)[2]
           m == [kind |-> "TUNE", gen |-> g0]
<1>1. svcQ # <<>> /\ Head(svcQ)[1] = "TUNED" /\ told' = told /\ appQ' = Append(appQ, m)
  BY DEF NotifyTune, Take
<1>2. g0 \in Nat
  BY <1>1, MessageHead DEF QueueTypes
<1>3. m \in Notices /\ m.gen = g0 /\ told \in Nat /\ appQ \in Seq(Notices)
  BY <1>2, NoticesOf DEF QueueTypes
<1>4. 1 \in DOMAIN svcQ /\ Head(svcQ) = svcQ[1]
  <2>1. svcQ \in Seq(Messages)
    BY DEF QueueTypes
  <2>2. Len(svcQ) \in Nat /\ DOMAIN svcQ = 1 .. Len(svcQ) /\ Len(svcQ) # 0
    BY <1>1, <2>1, LenProperties, EmptySeq
  <2> QED
    BY <2>1, <2>2
<1>5. StillNew(told, appQ, m.gen)
  BY <1>1, <1>3, <1>4 DEF AnswersInTurn
<1> HIDE DEF m
<1>6. /\ InTurn(told, Append(appQ, m))
      /\ \A g \in Nat : StillNew(told, appQ, g) /\ m.gen <= g => StillNew(told, Append(appQ, m), g)
  BY <1>3, <1>5, TuneQueued
<1> QED
  BY <1>1, <1>2, <1>3, <1>4, <1>6

LEMMA Fresher ==
  ASSUME QueueTypes, NEW g \in Nat, NEW h \in Nat, g <= h, StillNew(told, appQ, g)
  PROVE  StillNew(told, appQ, h)
<1>1. told \in Nat /\ told <= g /\ \A i \in DOMAIN appQ : appQ[i].gen \in Nat
  BY AppQTyped DEF StillNew, QueueTypes
<1>2. told <= h
  BY <1>1
<1>3. ASSUME NEW i \in DOMAIN appQ, appQ[i].kind = "TUNE" PROVE appQ[i].gen <= h
  <2>1. appQ[i].gen <= g /\ appQ[i].gen \in Nat
    BY <1>1, <1>3 DEF StillNew
  <2> QED
    BY <2>1
<1> QED
  BY <1>2, <1>3 DEF StillNew

(* Data are of the station the core has come to. *)
LEMMA CoreDated ==
  ASSUME QueueTypes, \A p \in Programs : core.data[p].gen = core.gen, [Next]_vars
  PROVE  /\ core'.gen = core.gen \/ (core'.gen = core.gen + 1 /\ Surroundings)
         /\ \A p \in Programs : core'.data[p].gen = core'.gen
<1>1. core \in Cores /\ core.gen \in Nat /\ core.data \in [Programs -> Dated]
  BY CoreParts
<1>2. CASE Reacquire
  <2>1. core'.gen = core.gen + 1 /\ core'.data = [p \in Programs |-> [gen |-> core.gen + 1, n |-> 0]]
    BY <1>1, <1>2 DEF Reacquire, Forgotten, Cores
  <2> QED
    BY <1>2, <2>1 DEF Surroundings, Input
<1>3. ASSUME NEW p \in Programs, ReceivePsd(p) PROVE core'.gen = core.gen /\ \A q \in Programs : core'.data[q].gen = core.data[q].gen
  <2>1. core'.gen = core.gen /\ core'.data = [core.data EXCEPT ![p].n = @ + 1]
    BY <1>1, <1>3 DEF ReceivePsd, Cores
  <2>2. \A q \in Programs : core'.data[q].gen = core.data[q].gen
    BY <1>1, <2>1 DEF Dated
  <2> QED
    BY <2>1, <2>2
<1>4. ASSUME NEW p \in Programs, SetProgram(p) PROVE core'.gen = core.gen /\ core'.data = core.data
  BY <1>1, <1>4 DEF SetProgram, Cores
<1>5. CASE TuneDone
  <2>1. core' = core \/ core' = [core EXCEPT !.playing = bb[2][1]]
    BY <1>5 DEF TuneDone
  <2> DEFINE kept == bb[2][1]
  <2>2. core' = core \/ core' = [core EXCEPT !.playing = kept]
    BY <2>1
  <2> HIDE DEF kept
  <2>3. core'.gen = core.gen /\ core'.data = core.data
    BY <1>1, <2>2 DEF Cores
  <2> QED
    BY <2>3
<1>6. CASE Reacquired \/ Acquire \/ Lose
  <2>1. core'.gen = core.gen /\ core'.data = core.data
    BY <1>1, <1>6 DEF Reacquired, Acquire, Lose, Cores
  <2> QED
    BY <2>1
<1>7. CASE PsdLook
  <2>1. core'.gen = core.gen /\ core'.data = core.data
    BY <1>1, <1>7 DEF PsdLook, Cores
  <2> QED
    BY <2>1
<1>8. CASE ClearPsd
  <2>1. core'.gen = core.gen /\ core'.data = core.data
    BY <1>1, <1>8 DEF ClearPsd, Cores
  <2> QED
    BY <2>1
<1>9. CASE Pass /\ ~PsdLook /\ ~ClearPsd
  <2>1. core' = core
    BY <1>9 DEF Pass, NoMessage, EventSetTune, NotifyTune, EventEnablePsd, EventEnableSis, StatusWait, StatusRead,
                StatusReport, PsdWait, FillPsd, SendPsd, SisWait, SisLook, SisCopy, Notify
  <2> QED
    BY <2>1
<1>10. CASE (\E mask \in SUBSET Programs : EnablePsdNotification(mask)) \/ (\E en \in BOOLEAN : EnableSisNotification(en))
            \/ (\E f \in Freqs : SetTune(f)) \/ SetTuneStore \/ Deliver \/ UNCHANGED vars
  <2>1. core' = core
    BY <1>10 DEF EnablePsdNotification, EnableSisNotification, Ask, SetTune, SetTuneStore, Deliver, vars
  <2> QED
    BY <2>1
<1> QED
  BY <1>2, <1>3, <1>4, <1>5, <1>6, <1>7, <1>8, <1>9, <1>10 DEF Next, Input

LEMMA CoreFreshNext ==
  ASSUME QueueTypes, QueueTypes', LoopTypes, InTurn(told, appQ), CoreFresh, AnswersInTurn, SignalFresh, DataFresh,
         [Next]_vars
  PROVE  CoreFresh' /\ InTurn(told, appQ)'
<1>1. /\ core'.gen = core.gen \/ (core'.gen = core.gen + 1 /\ Surroundings)
      /\ \A p \in Programs : core'.data[p].gen = core'.gen
  BY CoreDated DEF CoreFresh
<1>2. core.gen \in Nat /\ core'.gen \in Nat
  BY CoreParts DEF QueueTypes, Cores
<1>3. CASE NotifyTune
  <2>1. /\ InTurn(told', appQ') /\ svcQ # <<>> /\ svcQ[1][1] = "TUNED"
        /\ \A g \in Nat : StillNew(told, appQ, g) /\ svcQ[1][2] <= g => StillNew(told', appQ', g)
    BY <1>3, AnswerTaken
  <2>2. 1 \in DOMAIN svcQ
    BY <2>1, LenProperties, EmptySeq DEF QueueTypes
  <2>3. svcQ[1][2] <= core.gen /\ core' = core
    BY <1>3, <2>1, <2>2 DEF AnswersInTurn, NotifyTune
  <2>4. StillNew(told', appQ', core'.gen)
    BY <1>2, <2>1, <2>3 DEF CoreFresh
  <2> QED
    BY <1>1, <2>1, <2>4 DEF CoreFresh
<1>4. CASE ~NotifyTune
  <2>1. InTurn(told', appQ') /\ \A g \in Nat : StillNew(told, appQ, g) => StillNew(told', appQ', g)
    BY <1>4, FreshStays
  <2>2. core.gen <= core'.gen
    BY <1>1, <1>2
  <2>3. StillNew(told, appQ, core'.gen)
    BY <1>2, <2>2, Fresher DEF CoreFresh
  <2> QED
    BY <1>1, <1>2, <2>1, <2>3 DEF CoreFresh
<1> QED
  BY <1>3, <1>4

LEMMA SignalFreshNext ==
  ASSUME QueueTypes, LoopTypes, InTurn(told, appQ), CoreFresh, SignalFresh, DataFresh, [Next]_vars
  PROVE  SignalFresh'
<1>1. CASE NotifyTune
  BY <1>1 DEF NotifyTune, Take, Goto, SignalFresh
<1>2. CASE StatusRead
  <2>1. slot'.signal.gen = core.gen /\ told' = told /\ appQ' = appQ
    BY <1>2 DEF StatusRead, LoopTypes, queues
  <2> QED
    BY <2>1 DEF SignalFresh, CoreFresh
<1>3. CASE Pass /\ ~NotifyTune /\ ~StatusRead
  BY <1>3 DEF Pass, NoMessage, EventSetTune, EventEnablePsd, EventEnableSis, StatusWait, StatusReport, PsdWait,
              PsdLook, FillPsd, ClearPsd, SendPsd, SisWait, SisLook, SisCopy, Notify, Take, Goto, SignalFresh
<1>4. CASE Surroundings \/ UNCHANGED vars
  BY <1>4, LoopAlone DEF SignalFresh, thread
<1> QED
  BY <1>1, <1>2, <1>3, <1>4, ServiceSteps

LEMMA NextOfOne ==
  ASSUME NEW programs, NEW p \in Programs, NEW q \in Programs, NextOf(programs, p), NextOf(programs, q)
  PROVE  p = q
<1>1. p <= q /\ q <= p /\ p \in Nat /\ q \in Nat
  BY HomeIsFreq DEF NextOf
<1> QED
  BY <1>1

LEMMA DataFreshNext ==
  ASSUME QueueTypes, LoopTypes, InTurn(told, appQ), CoreFresh, SignalFresh, DataFresh, [Next]_vars
  PROVE  DataFresh'
<1>1. CASE NotifyTune
  BY <1>1 DEF NotifyTune, Take, Goto, DataFresh
<1>2. CASE PsdLook
  <2>1. pc' = "fill" /\ fill' = Wanted /\ got' = Wanted
    BY <1>2 DEF PsdLook
  <2> QED
    BY <2>1 DEF DataFresh, CopiedInPass
<1>3. CASE FillPsd
  <2>1. PICK p \in Programs : NextOf(fill, p) /\ slot' = [slot EXCEPT !.psd[p] = core.data[p]]
    BY <1>3 DEF FillPsd
  <2>2. /\ pc = "fill" /\ pc' = "clear" /\ fill' = fill /\ got' = got /\ told' = told /\ appQ' = appQ
    BY <1>3 DEF FillPsd, queues
  <2>3. slot'.psd[p] = core.data[p] /\ \A q \in Programs \ {p} : slot'.psd[q] = slot.psd[q]
    BY <2>1 DEF LoopTypes
  <2>4. ASSUME NEW q \in Programs, CopiedInPass(q)' PROVE StillNew(told, appQ, slot'.psd[q].gen)
    <3>1. CASE q = p
      BY <2>3, <3>1 DEF CoreFresh
    <3>2. CASE q # p
      <4>1. ~NextOf(fill, q)
        BY <2>1, <3>2, NextOfOne
      <4>2. CopiedInPass(q)
        BY <2>2, <2>4, <4>1 DEF CopiedInPass
      <4> QED
        BY <2>2, <2>3, <3>2, <4>2 DEF DataFresh
    <3> QED
      BY <3>1, <3>2
  <2> QED
    BY <2>2, <2>4 DEF DataFresh
<1>4. CASE ClearPsd
  <2>1. PICK p \in Programs : NextOf(fill, p) /\ fill' = fill \ {p} /\ pc' = IF fill' = {} THEN "send" ELSE "fill"
    BY <1>4 DEF ClearPsd
  <2>2. pc = "clear" /\ got' = got /\ told' = told /\ appQ' = appQ /\ slot' = slot
    BY <1>4 DEF ClearPsd, queues
  <2>3. ASSUME NEW q \in Programs, CopiedInPass(q)' PROVE CopiedInPass(q)
    BY <2>1, <2>2, <2>3 DEF CopiedInPass
  <2> QED
    BY <2>1, <2>2, <2>3 DEF DataFresh
<1>5. CASE SendPsd
  <2>1. PICK p \in Programs : got' = got \ {p}
    BY <1>5 DEF SendPsd
  <2>2. pc = "send" /\ fill' = fill /\ fill = {} /\ slot' = slot
    BY <1>5 DEF SendPsd, DataFresh
  <2>3. \A g \in Nat : StillNew(told, appQ, g) => StillNew(told', appQ', g)
    <3>1. ~NotifyTune
      BY <2>2 DEF NotifyTune, Take, Goto
    <3> QED
      BY <3>1, FreshStays
  <2>4. ASSUME NEW q \in Programs, CopiedInPass(q)' PROVE StillNew(told', appQ', slot'.psd[q].gen)
    <3>1. CopiedInPass(q)
      BY <2>1, <2>2, <2>4 DEF CopiedInPass
    <3> QED
      BY <2>2, <2>3, <3>1, SlotParts DEF DataFresh
  <2> QED
    BY <2>2, <2>4 DEF DataFresh
<1>6. CASE Pass /\ ~NotifyTune /\ ~PsdLook /\ ~FillPsd /\ ~ClearPsd /\ ~SendPsd
  <2>1. pc' \notin {"fill", "clear", "send"}
    BY <1>6 DEF Pass, NoMessage, EventSetTune, EventEnablePsd, EventEnableSis, StatusWait, StatusRead, StatusReport,
                PsdWait, SisWait, SisLook, SisCopy, Notify, Take, Goto
  <2> QED
    BY <2>1 DEF DataFresh
<1>7. CASE Surroundings \/ UNCHANGED vars
  BY <1>7, LoopAlone DEF DataFresh, CopiedInPass, thread
<1> QED
  BY <1>1, <1>2, <1>3, <1>4, <1>5, <1>6, <1>7, ServiceSteps

LEMMA AnswersTyped ==
  ASSUME QueueTypes
  PROVE  /\ Len(svcQ) \in Nat /\ DOMAIN svcQ = 1 .. Len(svcQ)
         /\ \A i \in DOMAIN svcQ : svcQ[i] \in Messages /\ (svcQ[i][1] = "TUNED" => svcQ[i][2] \in Nat)
<1>1. Len(svcQ) \in Nat /\ DOMAIN svcQ = 1 .. Len(svcQ)
  BY LenProperties DEF QueueTypes
<1>2. \A i \in DOMAIN svcQ : svcQ[i] \in Messages
  BY <1>1, ElementOfSeq DEF QueueTypes
<1>3. \A m \in Messages : m[1] = "TUNED" => m[2] \in Nat
  BY DEF Messages
<1> QED
  BY <1>1, <1>2, <1>3

(* A request is queued, the base band thread answers, or a message is taken. *)
Queued(m) == svcQ' = Append(svcQ, m)

Older == \/ svcQ' = svcQ
         \/ \E m \in Messages : m[1] # "TUNED" /\ Queued(m)
         \/ Queued(<<"TUNED", core.gen>>) /\ core'.gen = core.gen
         \/ svcQ # <<>> /\ svcQ' = Tail(svcQ)

LEMMA ServiceQueue ==
  ASSUME QueueTypes, [Next]_vars
  PROVE  Older
<1>1. ASSUME NEW mask \in SUBSET Programs, EnablePsdNotification(mask) PROVE Older
  <2> DEFINE m == <<"PSD", mask>>
  <2>1. m \in Messages /\ m[1] # "TUNED"
    BY DEF Messages
  <2>2. Queued(m)
    BY <1>1 DEF EnablePsdNotification, Ask, Queued
  <2> HIDE DEF m
  <2> QED
    BY <2>1, <2>2 DEF Older
<1>2. ASSUME NEW en \in BOOLEAN, EnableSisNotification(en) PROVE Older
  <2> DEFINE m == <<"SIS", en>>
  <2>1. m \in Messages /\ m[1] # "TUNED"
    BY DEF Messages
  <2>2. Queued(m)
    BY <1>2 DEF EnableSisNotification, Ask, Queued
  <2> HIDE DEF m
  <2> QED
    BY <2>1, <2>2 DEF Older
<1>3. ASSUME NEW f \in Freqs, SetTune(f) PROVE Older
  <2> DEFINE m == <<"TUNE", f>>
  <2>1. m \in Messages /\ m[1] # "TUNED"
    BY DEF Messages
  <2>2. Queued(m)
    BY <1>3 DEF SetTune, Queued
  <2> HIDE DEF m
  <2> QED
    BY <2>1, <2>2 DEF Older
<1>4. CASE TuneDone
  <2>1. core \in Cores
    BY CoreParts
  <2>2. core' = core \/ core' = [core EXCEPT !.playing = bb[2][1]]
    BY <1>4 DEF TuneDone
  <2> DEFINE kept == bb[2][1]
  <2>3. core' = core \/ core' = [core EXCEPT !.playing = kept]
    BY <2>2
  <2> HIDE DEF kept
  <2>4. core'.gen = core.gen
    BY <2>1, <2>3 DEF Cores
  <2> QED
    BY <1>4, <2>4 DEF TuneDone, Older, Queued
<1>5. CASE EventSetTune \/ NotifyTune \/ EventEnablePsd \/ EventEnableSis
  BY <1>5 DEF EventSetTune, NotifyTune, EventEnablePsd, EventEnableSis, Take, Older
<1>6. CASE Pass /\ ~EventSetTune /\ ~NotifyTune /\ ~EventEnablePsd /\ ~EventEnableSis
  <2>1. svcQ' = svcQ
    BY <1>6 DEF Pass, NoMessage, StatusWait, StatusRead, StatusReport, PsdWait, PsdLook, FillPsd, ClearPsd, SendPsd,
                SisWait, SisLook, SisCopy, Notify, queues
  <2> QED
    BY <2>1 DEF Older
<1>7. ASSUME NEW p \in Programs, SetProgram(p) \/ ReceivePsd(p) PROVE Older
  BY <1>7 DEF SetProgram, ReceivePsd, queues, Older
<1>8. CASE SetTuneStore \/ Reacquire \/ Reacquired \/ Acquire \/ Lose \/ Deliver \/ UNCHANGED vars
  BY <1>8 DEF SetTuneStore, Reacquire, Reacquired, Acquire, Lose, Deliver, vars, queues, Older
<1> QED
  BY <1>1, <1>2, <1>3, <1>4, <1>5, <1>6, <1>7, <1>8 DEF Next, Input

LEMMA AnswersInTurnNext ==
  ASSUME QueueTypes, QueueTypes', LoopTypes, InTurn(told, appQ), CoreFresh, AnswersInTurn, SignalFresh, DataFresh,
         [Next]_vars
  PROVE  AnswersInTurn'
<1>1. /\ Len(svcQ) \in Nat /\ DOMAIN svcQ = 1 .. Len(svcQ)
      /\ \A i \in DOMAIN svcQ : svcQ[i] \in Messages /\ (svcQ[i][1] = "TUNED" => svcQ[i][2] \in Nat)
  BY AnswersTyped
<1>2. core.gen \in Nat /\ core'.gen \in Nat /\ core.gen <= core'.gen
  <2>1. core.gen \in Nat /\ (core'.gen = core.gen \/ core'.gen = core.gen + 1)
    BY CoreParts, CoreDated DEF CoreFresh
  <2> QED
    BY <2>1
<1>3. \A i \in DOMAIN svcQ : svcQ[i][1] = "TUNED" => svcQ[i][2] <= core'.gen
  <2> SUFFICES ASSUME NEW i \in DOMAIN svcQ, svcQ[i][1] = "TUNED" PROVE svcQ[i][2] <= core'.gen
    OBVIOUS
  <2>1. svcQ[i][2] <= core.gen /\ svcQ[i][2] \in Nat
    BY <1>1 DEF AnswersInTurn
  <2> QED
    BY <1>2, <2>1
<1>4. CASE svcQ # <<>> /\ svcQ' = Tail(svcQ)
  <2>1. /\ DOMAIN svcQ' = 1 .. Len(svcQ) - 1 /\ Len(svcQ) # 0
        /\ \A i \in 1 .. Len(svcQ) - 1 : svcQ'[i] = svcQ[i + 1]
    BY <1>1, <1>4, HeadTailProperties, LenProperties, EmptySeq DEF QueueTypes
  <2>2. /\ 1 \in DOMAIN svcQ
        /\ \A i \in 1 .. Len(svcQ) - 1 : /\ i + 1 \in DOMAIN svcQ /\ 1 \in 1 .. i + 1
                                         /\ \A k \in 1 .. i : k \in 1 .. Len(svcQ) - 1 /\ k + 1 \in 1 .. i + 1
    BY <1>1, <2>1
  <2>3. ASSUME NEW i \in 1 .. Len(svcQ) - 1, svcQ[i + 1][1] = "TUNED"
        PROVE  StillNew(told', appQ', svcQ[i + 1][2])
    <3>1. svcQ[i + 1][2] \in Nat /\ StillNew(told, appQ, svcQ[i + 1][2])
      BY <1>1, <2>2, <2>3 DEF AnswersInTurn
    <3>2. CASE NotifyTune
      <4>1. /\ svcQ[1][1] = "TUNED"
            /\ \A g \in Nat : StillNew(told, appQ, g) /\ svcQ[1][2] <= g => StillNew(told', appQ', g)
        BY <3>2, AnswerTaken
      <4>2. svcQ[1][2] <= svcQ[i + 1][2]
        BY <2>2, <2>3, <4>1 DEF AnswersInTurn
      <4> QED
        BY <3>1, <4>1, <4>2
    <3>3. CASE ~NotifyTune
      BY <3>1, <3>3, FreshStays
    <3> QED
      BY <3>2, <3>3
  <2>4. ASSUME NEW i \in DOMAIN svcQ', svcQ'[i][1] = "TUNED"
        PROVE  /\ StillNew(told', appQ', svcQ'[i][2]) /\ svcQ'[i][2] <= core'.gen
               /\ \A k \in 1 .. i : svcQ'[k][1] = "TUNED" => svcQ'[k][2] <= svcQ'[i][2]
    <3>1. svcQ'[i] = svcQ[i + 1] /\ i + 1 \in DOMAIN svcQ /\ i \in 1 .. Len(svcQ) - 1
      BY <2>1, <2>2
    <3>2. \A k \in 1 .. i : svcQ'[k] = svcQ[k + 1] /\ k + 1 \in 1 .. i + 1
      BY <2>1, <2>2, <3>1
    <3> QED
      BY <1>3, <2>3, <2>4, <3>1, <3>2 DEF AnswersInTurn
  <2> QED
    BY <2>4 DEF AnswersInTurn
<1>5. CASE ~(svcQ # <<>> /\ svcQ' = Tail(svcQ))
  <2>1. ~NotifyTune
    BY <1>5 DEF NotifyTune, Take
  <2>2. \A g \in Nat : StillNew(told, appQ, g) => StillNew(told', appQ', g)
    BY <2>1, FreshStays
  <2>3. \A i \in DOMAIN svcQ : svcQ[i][1] = "TUNED" =>
          /\ StillNew(told', appQ', svcQ[i][2]) /\ svcQ[i][2] <= core'.gen
          /\ \A k \in 1 .. i : svcQ[k][1] = "TUNED" => svcQ[k][2] <= svcQ[i][2]
    BY <1>1, <1>3, <2>2 DEF AnswersInTurn
  <2>4. CASE svcQ' = svcQ
    BY <2>3, <2>4 DEF AnswersInTurn
  <2>5. ASSUME NEW m \in Messages, Queued(m),
               m[1] = "TUNED" => m[2] = core.gen /\ core'.gen = core.gen
        PROVE  AnswersInTurn'
    <3> DEFINE n == Len(svcQ) + 1
    <3>1. /\ DOMAIN svcQ' = 1 .. n /\ n \in Nat /\ svcQ'[n] = m
          /\ \A i \in 1 .. Len(svcQ) : svcQ'[i] = svcQ[i]
      BY <1>1, <2>5, AppendProperties, LenProperties DEF QueueTypes, Queued
    <3>2. \A i \in 1 .. n : (i \in DOMAIN svcQ \/ i = n) /\ (\A k \in 1 .. i : k \in DOMAIN svcQ \/ (k = n /\ i = n))
      BY <1>1, <3>1
    <3> HIDE DEF n
    <3>3. ASSUME NEW i \in DOMAIN svcQ', svcQ'[i][1] = "TUNED"
          PROVE  /\ StillNew(told', appQ', svcQ'[i][2]) /\ svcQ'[i][2] <= core'.gen
                 /\ \A k \in 1 .. i : svcQ'[k][1] = "TUNED" => svcQ'[k][2] <= svcQ'[i][2]
      <4>1. CASE i \in DOMAIN svcQ
        <5>1. \A k \in 1 .. i : k \in DOMAIN svcQ
          BY <1>1, <4>1
        <5> QED
          BY <1>1, <2>3, <3>1, <3>3, <4>1, <5>1
      <4>2. CASE i = n
        <5>1. m[2] = core.gen /\ core'.gen = core.gen /\ svcQ'[i] = m
          BY <2>5, <3>1, <3>3, <4>2
        <5>2. StillNew(told', appQ', core.gen)
          BY <1>2, <2>2 DEF CoreFresh
        <5>3. ASSUME NEW k \in 1 .. i, svcQ'[k][1] = "TUNED" PROVE svcQ'[k][2] <= core.gen
          <6>1. CASE k \in DOMAIN svcQ
            BY <1>1, <3>1, <5>3, <6>1 DEF AnswersInTurn
          <6>2. CASE k = n
            BY <1>2, <3>1, <5>1, <6>2
          <6> QED
            BY <3>1, <3>2, <4>2, <6>1, <6>2
        <5> QED
          BY <1>2, <5>1, <5>2, <5>3
      <4> QED
        BY <3>1, <3>2, <4>1, <4>2
    <3> QED
      BY <3>3 DEF AnswersInTurn
  <2>6. CASE Queued(<<"TUNED", core.gen>>) /\ core'.gen = core.gen
    <3> DEFINE m == <<"TUNED", core.gen>>
    <3>1. m \in Messages /\ m[2] = core.gen
      BY <1>2 DEF Messages
    <3>2. Queued(m)
      BY <2>6
    <3> HIDE DEF m
    <3> QED
      BY <2>5, <2>6, <3>1, <3>2
  <2> QED
    BY <1>5, <2>4, <2>5, <2>6, ServiceQueue DEF Older
<1> QED
  BY <1>4, <1>5

StationInv == InTurn(told, appQ) /\ CoreFresh /\ AnswersInTurn /\ SignalFresh /\ DataFresh

LEMMA StationInvInit == Init => StationInv
<1> SUFFICES ASSUME Init PROVE StationInv
  OBVIOUS
<1>1. appQ = <<>> /\ told = 0 /\ core.gen = 0 /\ pc = "message" /\ \A p \in Programs : core.data[p].gen = 0
  BY DEF Init, Nothing
<1>2. InTurn(told, appQ) /\ CoreFresh
  BY <1>1 DEF InTurn, CoreFresh, StillNew
<1>3. SignalFresh /\ DataFresh
  BY <1>1 DEF SignalFresh, DataFresh
<1>4. AnswersInTurn
  <2> DEFINE asked == {"PSD"} \X (SUBSET Programs) \cup {"SIS"} \X BOOLEAN
  <2>1. svcQ \in Seq(asked)
    BY ServiceAssumption DEF Init
  <2>2. \A i \in DOMAIN svcQ : svcQ[i] \in asked
    BY <2>1, LenProperties, ElementOfSeq
  <2>3. \A m \in asked : m[1] # "TUNED"
    OBVIOUS
  <2> QED
    BY <2>2, <2>3 DEF AnswersInTurn
<1> QED
  BY <1>2, <1>3, <1>4 DEF StationInv

LEMMA StationInvNext == QueueTypes /\ LoopTypes /\ QueueTypes' /\ StationInv /\ [Next]_vars => StationInv'
  BY CoreFreshNext, AnswersInTurnNext, SignalFreshNext, DataFreshNext DEF StationInv

(* Nothing of an earlier station follows the word of a tuning.             *)
THEOREM ServiceNothingOldAfterTune == Spec => []NothingOldAfterTune
<1>1. Spec => []QueueTypes /\ []LoopTypes
  BY QueueTypesInit, LoopTypesInit, TypesNext, PTL DEF Spec
<1>2. Spec => []StationInv
  BY <1>1, StationInvInit, StationInvNext, PTL DEF Spec
<1>3. StationInv => NothingOldAfterTune
  BY DEF StationInv, InTurn, NothingOldAfterTune
<1> QED
  BY <1>2, <1>3, PTL

(* Every field keeps its type, and the callback knows of no tuning the     *)
(* core has not come to.                                                   *)
THEOREM ServiceTyped == Spec => []TypeOK
<1>1. Spec => []QueueTypes /\ []LoopTypes
  BY QueueTypesInit, LoopTypesInit, TypesNext, PTL DEF Spec
<1>2. Spec => []StationInv
  BY <1>1, StationInvInit, StationInvNext, PTL DEF Spec
<1>3. QueueTypes /\ LoopTypes /\ StationInv => TypeOK
  <2> SUFFICES ASSUME QueueTypes, LoopTypes, StationInv PROVE TypeOK
    OBVIOUS
  <2>1. core.gen \in Nat /\ core.playing \in Programs /\ core.changed \subseteq Programs
    BY CoreParts
  <2>2. told \in 0 .. core.gen
    BY <2>1 DEF StationInv, CoreFresh, StillNew, QueueTypes
  <2> QED
    BY <2>1, <2>2 DEF TypeOK, QueueTypes, LoopTypes
<1> QED
  BY <1>1, <1>2, <1>3, PTL


-----------------------------------------------------------------------------
LEMMA FunctionIsSeq ==
  ASSUME NEW S, NEW n \in Nat, NEW f \in [1 .. n -> S]
  PROVE  f \in Seq(S) /\ Len(f) = n
<1>1. f \in Seq(S)
  BY SeqDef
<1>2. Len(f) \in Nat /\ DOMAIN f = 1 .. Len(f)
  BY <1>1, LenProperties
<1>3. 1 .. Len(f) = 1 .. n
  BY <1>2
<1>4. QED
  BY <1>1, <1>2, <1>3

(* The k-th unread cell of a buffer, from 0.                               *)
Unread(b, k) == b.data[Cell(b.rp, k)]

LEMMA SameCell ==
  ASSUME NEW wp \in Indices, NEW rp \in Indices, NEW count \in 0 .. SIZE, NEW k \in Int,
         wp - rp - count = 0 \/ wp - rp - count = -SIZE
  PROVE  /\ k \in 0 .. count - 1 => Cell(rp, k) = Cell(wp, SIZE - count + k)
         /\ k \in 0 .. SIZE - count - 1 => Cell(rp, count + k) = Cell(wp, k)
  BY CircBuffAssumption DEF Cell, Indices

(* A write leaves the unread cells alone and comes after them. *)
LEMMA PutCells ==
  ASSUME NEW b, Good(b), NEW n \in 0 .. SIZE,
         NEW vals \in [1 .. n -> Elements], b.elemCount + n <= SIZE
  PROVE  /\ \A k \in 0 .. b.elemCount - 1 : Unread(Put(b, vals), k) = Unread(b, k)
         /\ \A k \in 0 .. n - 1 : Unread(Put(b, vals), b.elemCount + k) = vals[k + 1]
<1> DEFINE count == b.elemCount
           new   == Copied(b.data, b.wp, vals)
<1>1. /\ b.wp \in Indices /\ b.rp \in Indices /\ count \in 0 .. SIZE
      /\ Put(b, vals).rp = b.rp /\ Put(b, vals).data = new /\ Len(vals) = n
  BY FieldsOf, PutStep, FieldsOfBuff DEF Good
<1>2. b.wp - b.rp - count = 0 \/ b.wp - b.rp - count = -SIZE
  BY DEF Good, Consistent
<1> HIDE DEF new
<1>3. ASSUME NEW k \in 0 .. count - 1 PROVE new[Cell(b.rp, k)] = b.data[Cell(b.rp, k)]
  <2>1. SIZE - count + k \in Cells /\ ~(SIZE - count + k < n)
    BY <1>1, CircBuffAssumption DEF Cells
  <2>2. Cell(b.rp, k) = Cell(b.wp, SIZE - count + k)
    BY <1>1, <1>2, SameCell
  <2>3. Cell(b.rp, k) \in Cells /\ Distance(b.wp, Cell(b.rp, k)) = SIZE - count + k
    BY <1>1, <2>1, <2>2, CellInside
  <2> QED
    BY <1>1, <2>1, <2>3 DEF Copied, new
<1>4. ASSUME NEW k \in 0 .. n - 1 PROVE new[Cell(b.rp, count + k)] = vals[k + 1]
  <2>1. k \in Cells /\ k < n
    BY <1>1, CircBuffAssumption DEF Cells
  <2>2. Cell(b.rp, count + k) = Cell(b.wp, k)
    <3>1. k \in 0 .. SIZE - count - 1
      <4>1. count \in Nat /\ SIZE \in Nat /\ count + n <= SIZE /\ n \in Nat
        BY <1>1, CircBuffAssumption
      <4> HIDE DEF count
      <4> QED
        BY <4>1
    <3> QED
      BY <1>1, <1>2, <3>1, SameCell
  <2>3. Cell(b.wp, k) \in Cells /\ Distance(b.wp, Cell(b.wp, k)) = k
    BY <1>1, <2>1, CellInside
  <2> QED
    BY <1>1, <2>1, <2>2, <2>3 DEF Copied, new
<1> QED
  BY <1>1, <1>3, <1>4 DEF Unread

LEMMA TakenCells ==
  ASSUME NEW b, Good(b), NEW n \in 0 .. SIZE, n <= b.elemCount
  PROVE  /\ \A k \in 0 .. b.elemCount - n - 1 : Unread(Taken(b, n), k) = Unread(b, n + k)
         /\ Taken(b, n).elemCount = b.elemCount - n
<1>1. /\ b.rp \in Indices /\ b.elemCount \in 0 .. SIZE
      /\ Taken(b, n).rp = Moved(b.rp, n) /\ Taken(b, n).data = b.data
      /\ Taken(b, n).elemCount = b.elemCount - n
  BY FieldsOf, TakenStep, FieldsOfBuff DEF Good
<1>2. ASSUME NEW k \in 0 .. b.elemCount - n - 1 PROVE Cell(Moved(b.rp, n), k) = Cell(b.rp, n + k)
  <2>1. k \in Cells /\ k + n < SIZE /\ k + n = n + k
    BY <1>1, CircBuffAssumption DEF Cells
  <2> QED
    BY <1>1, <2>1, CellAfterMove
<1> QED
  BY <1>1, <1>2 DEF Unread

-----------------------------------------------------------------------------
(* Blocks lie one after the other from the first: where they begin.        *)
BlockAt(b, s, n) == \A k \in 0 .. PART - 1 : /\ Unread(b, s + k) = <<"I", n>>
                                             /\ Unread(b, s + PART + k) = <<"Q", n>>

Begins(b, first, starts) ==
  /\ starts \subseteq Int /\ first \in starts /\ b.elemCount \in starts
  /\ \A s \in starts : /\ first <= s /\ s <= b.elemCount
                       /\ s < b.elemCount => /\ s + 2 * PART \in starts
                                             /\ \E n \in Blocks : BlockAt(b, s, n)

InBlocks(b, first) == \E starts \in SUBSET Int : Begins(b, first, starts)

LEMMA PartSize == PART \in Nat \ {0} /\ 2 * PART < SIZE /\ SIZE \in Nat /\ LOOP \in Nat \ {0} /\ AHEAD \in Nat /\ AHEAD >= 2 * PART
  BY PairsAssumption, CircBuffAssumption

LEMMA BlockSeq ==
  ASSUME NEW n \in Blocks
  PROVE  /\ BlockOf(n) \in [1 .. 2 * PART -> Elements] /\ BlockOf(n) \in Seq(Elements)
         /\ \A k \in 0 .. PART - 1 : BlockOf(n)[k + 1] = <<"I", n>> /\ BlockOf(n)[PART + k + 1] = <<"Q", n>>
<1> DEFINE i == Filled(<<"I", n>>, PART)
           q == Filled(<<"Q", n>>, PART)
<1>1. <<"I", n>> \in Elements /\ <<"Q", n>> \in Elements
  BY PairsAssumption DEF IqCells
<1>2. i \in [1 .. PART -> Elements] /\ q \in [1 .. PART -> Elements]
  BY <1>1 DEF Filled
<1>3. i \in Seq(Elements) /\ q \in Seq(Elements) /\ Len(i) = PART /\ Len(q) = PART
  BY <1>2, PartSize, FunctionIsSeq
<1>4. /\ \A k \in 1 .. PART : i[k] = <<"I", n>> /\ q[k] = <<"Q", n>>
  BY DEF Filled
<1>5. BlockOf(n) = i \o q
  BY DEF BlockOf
<1> HIDE DEF i, q
<1>6. /\ i \o q \in Seq(Elements) /\ Len(i \o q) = PART + PART
      /\ \A k \in 1 .. PART + PART : (i \o q)[k] = IF k <= PART THEN i[k] ELSE q[k - PART]
  <2>1. /\ i \o q \in Seq(Elements) /\ Len(i \o q) = Len(i) + Len(q)
        /\ \A k \in 1 .. Len(i) + Len(q) : (i \o q)[k] = IF k <= Len(i) THEN i[k] ELSE q[k - Len(i)]
    BY <1>3, ConcatProperties
  <2> QED
    BY <1>3, <2>1
<1>7. i \o q \in [1 .. 2 * PART -> Elements]
  <2>1. PART + PART = 2 * PART
    BY PartSize
  <2> QED
    BY <1>6, <2>1, LenProperties
<1>8. ASSUME NEW k \in 0 .. PART - 1
      PROVE  (i \o q)[k + 1] = <<"I", n>> /\ (i \o q)[PART + k + 1] = <<"Q", n>>
  <2>1. /\ k + 1 \in 1 .. PART + PART /\ k + 1 <= PART /\ k + 1 \in 1 .. PART
        /\ PART + k + 1 \in 1 .. PART + PART /\ ~(PART + k + 1 <= PART) /\ (PART + k + 1) - PART = k + 1
    BY PartSize
  <2>2. (i \o q)[k + 1] = i[k + 1] /\ (i \o q)[PART + k + 1] = q[(PART + k + 1) - PART]
    BY <1>6, <2>1
  <2> QED
    BY <1>4, <2>1, <2>2
<1> QED
  BY <1>5, <1>6, <1>7, <1>8

(* A block is written whole, after the others. *)
LEMMA BlockPut ==
  ASSUME NEW b, Good(b), b.elemCount + 2 * PART <= SIZE, NEW n \in Blocks,
         NEW first \in 0 .. SIZE, InBlocks(b, first)
  PROVE  /\ InBlocks(Put(b, BlockOf(n)), first) /\ Good(Put(b, BlockOf(n)))
         /\ Put(b, BlockOf(n)).elemCount = b.elemCount + 2 * PART
         /\ \A k \in 0 .. b.elemCount - 1 : Unread(Put(b, BlockOf(n)), k) = Unread(b, k)
<1> DEFINE c == Put(b, BlockOf(n))
           count == b.elemCount
           both == 2 * PART
<1>1. count \in 0 .. SIZE /\ PART \in Nat \ {0} /\ both \in 0 .. SIZE /\ both = 2 * PART
  BY FieldsOf, PartSize DEF Good
<1>2. BlockOf(n) \in [1 .. both -> Elements]
  BY BlockSeq
<1> HIDE DEF both
<1>3. /\ \A k \in 0 .. count - 1 : Unread(c, k) = Unread(b, k)
      /\ \A k \in 0 .. both - 1 : Unread(c, count + k) = BlockOf(n)[k + 1]
  BY <1>1, <1>2, PutCells
<1>4. Good(c) /\ c.elemCount = count + both
  BY <1>1, <1>2, PutStep, FieldsOfBuff
<1>5. PICK starts \in SUBSET Int : Begins(b, first, starts)
  BY DEF InBlocks
<1> HIDE DEF c
<1> DEFINE more == starts \cup {count + both}
<1>6. ASSUME NEW s \in starts, s < count
      PROVE  s + both \in more /\ \E m \in Blocks : BlockAt(c, s, m)
  <2>1. PICK m \in Blocks : BlockAt(b, s, m)
    BY <1>5, <1>6 DEF Begins
  <2>2. s \in Int /\ 0 <= s /\ s + both \in starts /\ s + both <= count
    BY <1>1, <1>5, <1>6 DEF Begins
  <2>3. \A k \in 0 .. PART - 1 : s + k \in 0 .. count - 1 /\ s + PART + k \in 0 .. count - 1
    BY <1>1, <2>2
  <2>4. BlockAt(c, s, m)
    BY <1>3, <2>1, <2>3 DEF BlockAt
  <2> QED
    BY <2>2, <2>4
<1>7. BlockAt(c, count, n)
  <2>1. \A k \in 0 .. PART - 1 : /\ k \in 0 .. both - 1 /\ PART + k \in 0 .. both - 1
                                 /\ count + PART + k = count + (PART + k)
    BY <1>1
  <2> QED
    BY <1>3, <2>1, BlockSeq DEF BlockAt
<1>8. Begins(c, first, more)
  <2>1. more \subseteq Int /\ first \in more /\ c.elemCount \in more
    <3>1. starts \subseteq Int /\ first \in starts /\ count + both \in Int
      BY <1>1, <1>5 DEF Begins
    <3> QED
      BY <1>4, <3>1
  <2>2. ASSUME NEW s \in more
        PROVE  /\ first <= s /\ s <= count + both
               /\ s < count + both => /\ s + both \in more
                                      /\ \E m \in Blocks : BlockAt(c, s, m)
    <3>1. first <= count /\ count \in starts
      BY <1>5 DEF Begins
    <3>2. CASE s \in starts
      <4>1. first <= s /\ s <= count /\ s \in Int
        BY <1>5, <3>2 DEF Begins
      <4>2. CASE s < count
        <5>1. s <= count + both
          BY <1>1, <4>1
        <5> QED
          BY <1>6, <3>2, <4>1, <4>2, <5>1
      <4>3. CASE s = count
        <5>1. s <= count + both /\ s + both \in more
          BY <1>1, <4>3
        <5> QED
          BY <1>7, <4>1, <4>3, <5>1
      <4> QED
        BY <1>1, <4>1, <4>2, <4>3
    <3>3. CASE s = count + both
      BY <1>1, <3>1, <3>3
    <3> QED
      BY <3>2, <3>3
  <2> QED
    BY <1>1, <1>4, <2>1, <2>2 DEF Begins
<1>9. more \in SUBSET Int
  BY <1>8 DEF Begins
<1> QED
  BY <1>1, <1>3, <1>4, <1>8, <1>9 DEF InBlocks, c

(* The first block; what follows it begins after it. *)
LEMMA FirstBlock ==
  ASSUME NEW b, Good(b), InBlocks(b, 0), b.elemCount > 0
  PROVE  /\ InBlocks(b, 2 * PART) /\ 2 * PART <= b.elemCount
         /\ \E n \in Blocks : BlockAt(b, 0, n)
<1> DEFINE both == 2 * PART
           count == b.elemCount
<1>1. PART \in Nat \ {0} /\ both = 2 * PART /\ both \in Nat \ {0} /\ count \in 0 .. SIZE
  BY PartSize, FieldsOf DEF Good
<1>2. PICK starts \in SUBSET Int : Begins(b, 0, starts)
  BY DEF InBlocks
<1> HIDE DEF both
<1>3. both \in starts /\ both <= count /\ \E n \in Blocks : BlockAt(b, 0, n)
  BY <1>1, <1>2 DEF Begins
<1> DEFINE later == {s \in starts : both <= s}
<1>4. later \in SUBSET Int /\ both \in later /\ count \in later
  <2>1. starts \in SUBSET Int /\ count \in starts
    BY <1>2 DEF Begins
  <2>2. both <= both
    BY <1>1
  <2> QED
    BY <1>3, <2>1, <2>2
<1>5. ASSUME NEW s \in later
      PROVE  /\ both <= s /\ s <= count
             /\ s < count => s + both \in later /\ \E n \in Blocks : BlockAt(b, s, n)
  <2>1. /\ s \in Int /\ both <= s /\ s <= count
        /\ s < count => s + both \in starts /\ \E n \in Blocks : BlockAt(b, s, n)
    BY <1>1, <1>2, <1>5 DEF Begins
  <2>2. both <= s + both
    BY <1>1, <2>1
  <2> QED
    BY <2>1, <2>2
<1>6. Begins(b, both, later)
  BY <1>1, <1>4, <1>5 DEF Begins
<1> QED
  BY <1>1, <1>3, <1>4, <1>6 DEF InBlocks

(* Half a block is taken. *)
LEMMA HalfTaken ==
  ASSUME NEW b, Good(b), PART <= b.elemCount, NEW first \in 0 .. SIZE, PART <= first, InBlocks(b, first)
  PROVE  /\ InBlocks(Taken(b, PART), first - PART) /\ Good(Taken(b, PART))
         /\ Taken(b, PART).elemCount = b.elemCount - PART
         /\ \A k \in 0 .. b.elemCount - PART - 1 : Unread(Taken(b, PART), k) = Unread(b, PART + k)
<1> DEFINE c == Taken(b, PART)
           count == b.elemCount
           both == 2 * PART
<1>1. /\ PART \in Nat \ {0} /\ PART \in 0 .. SIZE /\ both = 2 * PART /\ both \in Nat /\ count \in 0 .. SIZE
  BY PartSize, FieldsOf DEF Good
<1>2. /\ \A k \in 0 .. count - PART - 1 : Unread(c, k) = Unread(b, PART + k)
      /\ c.elemCount = count - PART /\ Good(c)
  BY <1>1, TakenCells, TakenStep
<1>3. PICK starts \in SUBSET Int : Begins(b, first, starts)
  BY DEF InBlocks
<1> HIDE DEF c, both
<1> DEFINE moved == {s \in Int : s + PART \in starts}
<1>4. moved \in SUBSET Int /\ first - PART \in moved /\ c.elemCount \in moved
  <2>1. (first - PART) + PART = first /\ first - PART \in Int /\ (count - PART) + PART = count /\ count - PART \in Int
    BY <1>1
  <2> QED
    BY <1>2, <1>3, <2>1 DEF Begins
<1>5. ASSUME NEW s \in moved
      PROVE  /\ first - PART <= s /\ s <= count - PART
             /\ s < count - PART => s + both \in moved /\ \E n \in Blocks : BlockAt(c, s, n)
  <2>1. s \in Int /\ first <= s + PART /\ s + PART <= count
    BY <1>3, <1>5 DEF Begins
  <2>2. first - PART <= s /\ s <= count - PART /\ 0 <= s
    BY <1>1, <2>1
  <2>3. ASSUME s < count - PART PROVE s + both \in moved /\ \E n \in Blocks : BlockAt(c, s, n)
    <3>1. s + PART < count
      BY <1>1, <2>1, <2>3
    <3>2. PICK n \in Blocks : BlockAt(b, s + PART, n)
      BY <1>3, <1>5, <3>1 DEF Begins
    <3>3. (s + PART) + both \in starts /\ (s + PART) + both <= count
      BY <1>1, <1>3, <1>5, <3>1 DEF Begins
    <3>4. (s + both) + PART = (s + PART) + both /\ s + both \in Int
      BY <1>1, <2>1
    <3>5. \A k \in 0 .. PART - 1 : /\ s + k \in 0 .. count - PART - 1 /\ PART + (s + k) = s + PART + k
                                   /\ s + PART + k \in 0 .. count - PART - 1
                                   /\ PART + (s + PART + k) = s + PART + PART + k
      BY <1>1, <2>1, <2>2, <3>3
    <3>6. BlockAt(c, s, n)
      BY <1>2, <3>2, <3>5 DEF BlockAt
    <3> QED
      BY <3>3, <3>4, <3>6
  <2> QED
    BY <2>2, <2>3
<1>6. Begins(c, first - PART, moved)
  BY <1>1, <1>2, <1>4, <1>5 DEF Begins
<1> QED
  BY <1>2, <1>4, <1>6 DEF InBlocks, c

LEMMA NothingInBlocks ==
  ASSUME NEW b, b.data \in [Cells -> Elements]
  PROVE  Good(Emptied(b)) /\ Emptied(b).elemCount = 0 /\ InBlocks(Emptied(b), 0)
<1>1. Good(Emptied(b)) /\ Emptied(b).elemCount = 0
  BY FreshGood, FieldsOfBuff DEF Emptied
<1>2. Begins(Emptied(b), 0, {0})
  BY <1>1 DEF Begins
<1>3. {0} \in SUBSET Int
  OBVIOUS
<1> QED
  BY <1>1, <1>2, <1>3 DEF InBlocks

-----------------------------------------------------------------------------
(* A buffer whose count may have wrapped keeps the types of its fields.    *)
WildBuffers == [wp : Indices, rp : Indices, elemCount : Words, data : [Cells -> Elements]]

PairsTypes == /\ iqReadBuffer \in WildBuffers /\ strayed \in BOOLEAN
              /\ readIQ01 \in Blocks /\ channel \in 0 .. PART
              /\ iqin = "put" => channel # 0

(* Between the two reads the I is of the block whose Q comes next.         *)
HalfRead(b, i) == \E n \in Blocks : /\ i = Filled(<<"I", n>>, PART)
                                    /\ PART <= b.elemCount
                                    /\ \A k \in 0 .. PART - 1 : Unread(b, k) = <<"Q", n>>

Course(b, at, i, q) ==
  /\ Good(b)
  /\ at \in {"checkQ", "takeQ"} => HalfRead(b, i) /\ InBlocks(b, PART)
  /\ at \notin {"checkQ", "takeQ"} => InBlocks(b, 0)
  /\ at \in {"checkI", "takeI"} => b.elemCount > 0
  /\ at = "hand" => \E n \in Blocks : i \o q = BlockOf(n)

OnCourse == Course(iqReadBuffer, bbin, iPart, qPart)

PairsInv == PairsTypes /\ (strayed \/ OnCourse)

LEMMA WildParts ==
  ASSUME NEW b \in WildBuffers
  PROVE  /\ b.wp \in Indices /\ b.rp \in Indices /\ b.elemCount \in Words
         /\ b.data \in [Cells -> Elements]
  BY DEF WildBuffers

LEMMA GoodIsWild ==
  ASSUME NEW b, Good(b)
  PROVE  b \in WildBuffers /\ b.elemCount \in 0 .. SIZE
  BY CircBuffAssumption DEF Good, Buffer, WildBuffers, Words

LEMMA WordOf ==
  ASSUME NEW count \in Words, NEW n \in 0 .. SIZE
  PROVE  Word(count + n) \in Words /\ Word(count - n) \in Words
  BY CircBuffAssumption DEF Words, Word

LEMMA WildPut ==
  ASSUME NEW b \in WildBuffers, NEW n \in 0 .. SIZE, NEW vals \in [1 .. n -> Elements]
  PROVE  Put(b, vals) \in WildBuffers
<1>1. /\ b.wp \in Indices /\ b.rp \in Indices /\ b.elemCount \in Words
      /\ b.data \in [Cells -> Elements]
  BY WildParts
<1>2. Len(vals) = n
  OBVIOUS
<1>3. Moved(b.wp, n) \in Indices /\ Word(b.elemCount + n) \in Words
  BY <1>1, MovedIndex, WordOf
<1>4. Copied(b.data, b.wp, vals) \in [Cells -> Elements]
  BY <1>1, CopiedType
<1> QED
  BY <1>1, <1>2, <1>3, <1>4 DEF Put, Buff, WildBuffers

LEMMA WildTaken ==
  ASSUME NEW b \in WildBuffers, NEW n \in 0 .. SIZE
  PROVE  Taken(b, n) \in WildBuffers
<1>1. /\ b.wp \in Indices /\ b.rp \in Indices /\ b.elemCount \in Words
      /\ b.data \in [Cells -> Elements]
  BY WildParts
<1>2. Moved(b.rp, n) \in Indices /\ Word(b.elemCount - n) \in Words
  BY <1>1, MovedIndex, WordOf
<1> QED
  BY <1>1, <1>2 DEF Taken, Buff, WildBuffers

(* What the IQ input thread puts. *)
LEMMA SamplesPut ==
  ASSUME PairsTypes, iqin = "put"
  PROVE  /\ AllOrNothing \in {0, 2 * channel} /\ 2 * channel \in 1 .. SIZE
         /\ SubSeq(BlockOf(readIQ01), 1, 2 * channel) \in [1 .. 2 * channel -> Elements]
         /\ SubSeq(BlockOf(readIQ01), 1, 2 * PART) = BlockOf(readIQ01)
<1>1. channel \in 1 .. PART /\ readIQ01 \in Blocks
  BY PartSize DEF PairsTypes
<1>2. AllOrNothing \in {0, 2 * channel}
  BY DEF AllOrNothing
<1>3. 2 * channel \in 1 .. SIZE /\ 2 * channel <= 2 * PART /\ 2 * PART \in Nat /\ 2 * channel \in Nat
  BY <1>1, PartSize
<1> DEFINE n == 2 * channel
           both == 2 * PART
           block == BlockOf(readIQ01)
<1>4. block \in Seq(Elements) /\ block \in [1 .. both -> Elements] /\ n \in Nat /\ n <= both /\ both \in Nat
  BY <1>1, <1>3, BlockSeq
<1> HIDE DEF n, both, block
<1>5. /\ \A i \in 1 .. n : block[i] \in Elements
      /\ \A i \in 1 .. both : block[i] \in Elements
  BY <1>4
<1>6. SubSeq(block, 1, n) \in Seq(Elements) /\ Len(SubSeq(block, 1, n)) = n
  <2>1. /\ SubSeq(block, 1, n) \in Seq(Elements)
        /\ Len(SubSeq(block, 1, n)) = IF 1 <= n THEN n - 1 + 1 ELSE 0
    BY <1>4, <1>5, SubSeqProperties
  <2> QED
    BY <1>4, <2>1
<1>7. SubSeq(block, 1, n) \in [1 .. n -> Elements]
  BY <1>6, LenProperties
<1>8. SubSeq(block, 1, both) = block
  <2>1. Len(block) = both
    BY <1>4, FunctionIsSeq
  <2> QED
    BY <1>4, <2>1, SubSeqFull
<1> QED
  BY <1>2, <1>3, <1>7, <1>8 DEF n, both, block

LEMMA PairsInvInit == PairsInit => PairsInv
<1> SUFFICES ASSUME PairsInit PROVE PairsInv
  OBVIOUS
<1> DEFINE data == [c \in Cells |-> Zero]
           b == Buff(0, 0, 0, data)
<1>1. iqReadBuffer = b /\ data \in [Cells -> Elements] /\ b.data = data
  BY CircBuffAssumption, FieldsOfBuff DEF PairsInit, Fresh
<1>2. Emptied(b) = b
  BY <1>1 DEF Emptied
<1>3. Good(b) /\ InBlocks(b, 0)
  BY <1>1, <1>2, NothingInBlocks
<1>4. b \in WildBuffers
  BY <1>3, GoodIsWild
<1> HIDE DEF b
<1>5. PairsTypes
  <2>1. strayed = FALSE /\ readIQ01 = 0 /\ channel = 0 /\ iqin = "idle"
    BY DEF PairsInit
  <2>2. 0 \in Blocks /\ 0 \in 0 .. PART
    BY PartSize DEF Blocks
  <2> QED
    BY <1>1, <1>4, <2>1, <2>2 DEF PairsTypes
<1>6. OnCourse
  BY <1>1, <1>3 DEF PairsInit, OnCourse, Course
<1> QED
  BY <1>5, <1>6 DEF PairsInv

(* The steps by what they do to the buffer and to the pair that is read.   *)
Reads == BbLook \/ BbCheckI \/ BbTakeI \/ BbCheckQ \/ BbTakeQ \/ BbHand \/ BbEndLoop

LEMMA PairsSteps ==
  [PairsNext]_pairsVars =>
    \/ BbClose \/ BbOpen \/ BbRecover \/ IqPut \/ Reads
    \/ UNCHANGED <<iqReadBuffer, strayed, bbin, pairing>>
    \/ (BbStartIq \/ BbAnswer \/ BbNothing)
<1> SUFFICES ASSUME [PairsNext]_pairsVars
             PROVE  \/ BbClose \/ BbOpen \/ BbRecover \/ IqPut \/ Reads
                    \/ UNCHANGED <<iqReadBuffer, strayed, bbin, pairing>>
                    \/ (BbStartIq \/ BbAnswer \/ BbNothing)
  OBVIOUS
<1>1. CASE AskOpen \/ CloseSession \/ IqClose
  BY <1>1 DEF AskOpen, CloseSession, IqClose
<1>2. CASE IqBeginRead \/ IqRead \/ IqReadShort \/ IqOverrun \/ IqReadFails \/ IqMark
  BY <1>2 DEF IqBeginRead, IqRead, IqReadShort, IqOverrun, IqReadFails, IqMark, IqRest
<1>3. CASE UNCHANGED pairsVars
  BY <1>3 DEF pairsVars
<1> QED
  BY <1>1, <1>2, <1>3 DEF PairsNext, IqThread, BbThread, Reads

LEMMA PairsTypesNext == PairsTypes /\ [PairsNext]_pairsVars => PairsTypes'
<1> SUFFICES ASSUME PairsTypes, [PairsNext]_pairsVars PROVE PairsTypes'
  OBVIOUS
<1>0. /\ iqReadBuffer \in WildBuffers /\ strayed \in BOOLEAN
      /\ readIQ01 \in Blocks /\ channel \in 0 .. PART /\ (iqin = "put" => channel # 0)
      /\ PART \in Nat \ {0} /\ PART \in 0 .. SIZE
  BY PartSize DEF PairsTypes
<1>1. Emptied(iqReadBuffer) \in WildBuffers
  <2>1. iqReadBuffer.data \in [Cells -> Elements]
    BY <1>0, WildParts
  <2> QED
    BY <2>1, NothingInBlocks, GoodIsWild
<1>2. CASE BbClose \/ BbOpen \/ BbRecover
  <2>1. iqReadBuffer' = Emptied(iqReadBuffer) /\ iqin' = iqin /\ readIQ01' = readIQ01 /\ channel' = channel
    BY <1>2 DEF BbClose, BbOpen, BbRecover, Empty, BbRest, iqReading
  <2>2. strayed' \in BOOLEAN
    BY <1>2 DEF BbClose, BbOpen, BbRecover, Empty
  <2> QED
    BY <1>0, <1>1, <2>1, <2>2 DEF PairsTypes
<1>3. CASE IqPut
  <2>1. /\ 2 * channel \in 0 .. SIZE
        /\ SubSeq(BlockOf(readIQ01), 1, 2 * channel) \in [1 .. 2 * channel -> Elements]
        /\ AllOrNothing \in {0, 2 * channel}
    BY <1>3, SamplesPut DEF IqPut
  <2>2. Put(iqReadBuffer, SubSeq(BlockOf(readIQ01), 1, 2 * channel)) \in WildBuffers
    BY <1>0, <2>1, WildPut
  <2>3. iqReadBuffer' \in WildBuffers
    BY <1>0, <1>3, <2>1, <2>2 DEF IqPut
  <2>4. strayed' \in BOOLEAN
    BY <1>3 DEF IqPut
  <2>5. readIQ01' = readIQ01 /\ channel' = 0 /\ iqin' = "mark"
    BY <1>3 DEF IqPut
  <2> QED
    BY <1>0, <2>3, <2>4, <2>5 DEF PairsTypes
<1>4. CASE BbTakeI \/ BbTakeQ
  <2>1. /\ iqReadBuffer' = Taken(iqReadBuffer, PART) /\ strayed' = strayed
        /\ iqin' = iqin /\ readIQ01' = readIQ01 /\ channel' = channel
    BY <1>4 DEF BbTakeI, BbTakeQ, BbKeeps, iqReading
  <2> QED
    BY <1>0, <2>1, WildTaken DEF PairsTypes
<1>5. CASE BbLook \/ BbCheckI \/ BbCheckQ \/ BbHand \/ BbEndLoop \/ BbStartIq \/ BbAnswer \/ BbNothing
           \/ AskOpen \/ CloseSession \/ IqClose \/ UNCHANGED pairsVars
  <2>1. UNCHANGED <<iqReadBuffer, strayed, iqin, readIQ01, channel>>
    BY <1>5 DEF BbLook, BbCheckI, BbCheckQ, BbHand, BbEndLoop, BbStartIq, BbAnswer, BbNothing, BbKeeps, BbRest,
                AskOpen, CloseSession, IqClose, pairsVars, iqReading
  <2> QED
    BY <1>0, <2>1 DEF PairsTypes
<1>6. CASE IqBeginRead \/ IqOverrun \/ IqReadFails \/ IqMark
  <2>1. UNCHANGED <<iqReadBuffer, strayed, readIQ01, channel>> /\ iqin' # "put"
    BY <1>6 DEF IqBeginRead, IqOverrun, IqReadFails, IqMark
  <2> QED
    BY <1>0, <2>1 DEF PairsTypes
<1>7. CASE IqRead
  <2>1. UNCHANGED <<iqReadBuffer, strayed>> /\ readIQ01' = 1 - readIQ01 /\ channel' = PART
    BY <1>7 DEF IqRead
  <2>2. readIQ01' \in Blocks
    <3>1. readIQ01 \in 0 .. 1
      BY <1>0 DEF Blocks
    <3>2. 1 - readIQ01 \in 0 .. 1
      BY <3>1
    <3> QED
      BY <2>1, <3>2 DEF Blocks
  <2>3. channel' \in 0 .. PART /\ channel' # 0
    <3>1. PART \in 0 .. PART /\ PART # 0
      BY <1>0
    <3> QED
      BY <2>1, <3>1, Zenon
  <2> QED
    BY <1>0, <2>1, <2>2, <2>3 DEF PairsTypes
<1>8. CASE IqReadShort
  <2>1. UNCHANGED <<iqReadBuffer, strayed, readIQ01>> /\ channel' \in 1 .. PART - 1
    BY <1>8 DEF IqReadShort
  <2>2. channel' \in 0 .. PART /\ channel' # 0
    BY <1>0, <2>1
  <2> QED
    BY <1>0, <2>1, <2>2 DEF PairsTypes
<1> QED
  BY <1>2, <1>3, <1>4, <1>5, <1>6, <1>7, <1>8 DEF PairsNext, IqThread, BbThread

LEMMA OnCoursePut ==
  ASSUME PairsTypes, OnCourse, IqPut, ~strayed'
  PROVE  OnCourse'
<1> DEFINE b == iqReadBuffer
           c == iqReadBuffer'
<1>1. /\ Good(b) /\ b.elemCount \in 0 .. SIZE /\ iqin = "put"
      /\ PART \in Nat \ {0} /\ readIQ01 \in Blocks /\ channel \in 1 .. PART
      /\ bbin' = bbin /\ iPart' = iPart /\ qPart' = qPart
  BY GoodIsWild, PartSize DEF OnCourse, Course, IqPut, PairsTypes, IqRest, pairing
<1>2. Room = SIZE - b.elemCount
  BY <1>1, CircBuffAssumption DEF Room, AvailSpace, Word
<1>3. CASE ~(Room >= 2 * channel)
  <2>1. c = b
    BY <1>3 DEF IqPut, AllOrNothing
  <2> QED
    BY <1>1, <2>1 DEF OnCourse
<1>4. CASE Room >= 2 * channel
  <2>1. channel = PART
    <3>1. ~(channel < PART)
      BY <1>4 DEF IqPut
    <3> QED
      BY <1>1, <3>1
  <2>2. AllOrNothing = 2 * PART /\ 2 * PART > 0 /\ b.elemCount + 2 * PART <= SIZE
    BY <1>1, <1>2, <1>4, <2>1, PartSize DEF AllOrNothing
  <2>3. c = Put(b, BlockOf(readIQ01))
    BY <1>1, <2>2, SamplesPut DEF IqPut
  <2>4. ASSUME NEW first \in {0, PART}, InBlocks(b, first)
        PROVE  /\ InBlocks(c, first) /\ Good(c) /\ c.elemCount = b.elemCount + 2 * PART
               /\ \A k \in 0 .. b.elemCount - 1 : Unread(c, k) = Unread(b, k)
    <3>1. first \in 0 .. SIZE
      BY PartSize
    <3> QED
      BY <1>1, <2>2, <2>3, <2>4, <3>1, BlockPut
  <2>5. Course(b, bbin, iPart, qPart)
    BY DEF OnCourse
  <2> HIDE DEF b, c
  <2>6. CASE bbin \in {"checkQ", "takeQ"}
    <3>1. HalfRead(b, iPart) /\ InBlocks(b, PART)
      BY <2>5, <2>6 DEF Course
    <3>2. /\ InBlocks(c, PART) /\ Good(c) /\ c.elemCount = b.elemCount + 2 * PART
          /\ \A k \in 0 .. b.elemCount - 1 : Unread(c, k) = Unread(b, k)
      BY <2>4, <3>1
    <3>3. PICK n \in Blocks : /\ iPart = Filled(<<"I", n>>, PART)
                              /\ PART <= b.elemCount
                              /\ \A k \in 0 .. PART - 1 : Unread(b, k) = <<"Q", n>>
      BY <3>1 DEF HalfRead
    <3>4. PART <= c.elemCount /\ \A k \in 0 .. PART - 1 : k \in 0 .. b.elemCount - 1
      BY <1>1, <3>2, <3>3
    <3>5. HalfRead(c, iPart)
      BY <3>2, <3>3, <3>4 DEF HalfRead
    <3> QED
      BY <1>1, <2>6, <3>2, <3>5 DEF OnCourse, Course, c
  <2>7. CASE bbin \notin {"checkQ", "takeQ"}
    <3>1. InBlocks(b, 0)
      BY <2>5, <2>7 DEF Course
    <3>2. InBlocks(c, 0) /\ Good(c) /\ c.elemCount = b.elemCount + 2 * PART
      BY <2>4, <3>1
    <3>3. bbin \in {"checkI", "takeI"} => c.elemCount > 0
      BY <1>1, <2>5, <3>2 DEF Course
    <3>4. bbin = "hand" => \E n \in Blocks : iPart \o qPart = BlockOf(n)
      BY <2>5 DEF Course
    <3> QED
      BY <1>1, <2>7, <3>2, <3>3, <3>4 DEF OnCourse, Course, c
  <2> QED
    BY <2>6, <2>7
<1> QED
  BY <1>3, <1>4

LEMMA OnCourseEmptied ==
  ASSUME PairsTypes, strayed \/ OnCourse, BbClose \/ BbOpen \/ BbRecover, ~strayed'
  PROVE  OnCourse'
<1> DEFINE b == iqReadBuffer
           c == iqReadBuffer'
<1>1. /\ c = Emptied(b) /\ iPart' = iPart /\ qPart' = qPart
      /\ bbin \notin {"checkI", "takeI", "checkQ", "takeQ"} /\ ~(strayed /\ bbin = "hand")
      /\ bbin' = bbin \/ bbin' \in {"start", Recovered}
  BY DEF BbClose, BbOpen, BbRecover, Empty, BbRest, pairing
<1>2. Good(c) /\ InBlocks(c, 0)
  <2>1. b.data \in [Cells -> Elements]
    BY WildParts DEF PairsTypes
  <2> QED
    BY <1>1, <2>1, NothingInBlocks
<1>3. bbin' = "hand" => \E n \in Blocks : iPart \o qPart = BlockOf(n)
  <2>1. bbin' = "hand" => bbin = "hand" /\ ~strayed
    BY <1>1 DEF Recovered
  <2> QED
    BY <2>1 DEF OnCourse, Course
<1> HIDE DEF c
<1> QED
  BY <1>1, <1>2, <1>3 DEF OnCourse, Course, c, Recovered

LEMMA OnCourseReads ==
  ASSUME PairsTypes, OnCourse, ~strayed, Reads
  PROVE  OnCourse'
<1> DEFINE b == iqReadBuffer
           c == iqReadBuffer'
<1>1. /\ Good(b) /\ b.elemCount \in 0 .. SIZE /\ PART \in Nat \ {0} /\ PART \in 0 .. SIZE /\ 2 * PART < SIZE
      /\ AHEAD \in Nat
  BY GoodIsWild, PartSize DEF OnCourse, Course
<1>2. Course(b, bbin, iPart, qPart)
  BY DEF OnCourse
<1>3. CASE BbLook
  <2>1. c = b /\ bbin = "loop" /\ bbin' = "checkI" /\ iPart' = iPart /\ qPart' = qPart /\ EnoughThere
    BY <1>3 DEF BbLook, pairing
  <2>2. b.elemCount > 0
    <3>1. ~(b.elemCount > SIZE)
      BY <1>1, CircBuffAssumption
    <3>2. AvailData = b.elemCount
      BY <3>1, Zenon DEF AvailData
    <3> QED
      BY <1>1, <2>1, <3>2 DEF EnoughThere
  <2> HIDE DEF b, c
  <2> QED
    BY <1>2, <2>1, <2>2 DEF OnCourse, Course, b, c
<1>4. CASE BbCheckI
  <2>1. c = b /\ bbin = "checkI" /\ iPart' = iPart /\ qPart' = qPart /\ b.elemCount > 0 /\ InBlocks(b, 0)
    BY <1>2, <1>4 DEF BbCheckI, pairing, Course
  <2>2. 2 * PART <= b.elemCount
    BY <1>1, <2>1, FirstBlock
  <2>3. ~TooFew
    BY <1>1, <2>2 DEF TooFew
  <2>4. bbin' \in {"loop", "takeI"}
    BY <1>4, <2>3 DEF BbCheckI
  <2> HIDE DEF b, c
  <2> QED
    BY <1>2, <2>1, <2>4 DEF OnCourse, Course, b, c
<1>5. CASE BbTakeI
  <2>1. /\ c = Taken(b, PART) /\ iPart' = Read(b, PART) /\ bbin = "takeI" /\ bbin' = "checkQ"
        /\ b.elemCount > 0 /\ InBlocks(b, 0)
    BY <1>2, <1>5 DEF BbTakeI, Course
  <2> HIDE DEF b, c
  <2>2. /\ InBlocks(b, 2 * PART) /\ 2 * PART <= b.elemCount
        /\ \E n \in Blocks : BlockAt(b, 0, n)
    BY <1>1, <2>1, FirstBlock
  <2> DEFINE count == b.elemCount
  <2>a. count \in 0 .. SIZE /\ 2 * PART <= count /\ SIZE \in Nat
    BY <1>1, <2>2, CircBuffAssumption
  <2>p. PART \in Nat
    BY <1>1
  <2>s. 2 * PART < SIZE
    BY <1>1
  <2>3. /\ 2 * PART \in 0 .. SIZE /\ PART <= 2 * PART /\ PART <= count /\ 2 * PART - PART = PART
        /\ PART <= count - PART /\ \A k \in 0 .. PART - 1 : k \in 0 .. count - PART - 1
    <3> HIDE DEF count
    <3> QED
      BY <2>a, <2>p, <2>s
  <2>4. /\ InBlocks(c, PART) /\ Good(c) /\ c.elemCount = b.elemCount - PART
        /\ \A k \in 0 .. b.elemCount - PART - 1 : Unread(c, k) = Unread(b, PART + k)
    <3>1. InBlocks(Taken(b, PART), 2 * PART - PART)
      BY <1>1, <2>2, <2>3, HalfTaken
    <3> QED
      BY <1>1, <2>1, <2>2, <2>3, <3>1, HalfTaken
  <2>5. PICK n \in Blocks : BlockAt(b, 0, n)
    BY <2>2
  <2>6. \A k \in 0 .. PART - 1 : Unread(b, k) = <<"I", n>> /\ Unread(b, PART + k) = <<"Q", n>>
    <3>1. \A k \in 0 .. PART - 1 : 0 + k = k /\ 0 + PART + k = PART + k
      BY <1>1
    <3> QED
      BY <2>5, <3>1 DEF BlockAt
  <2>7. iPart' = Filled(<<"I", n>>, PART)
    <3>1. \A k \in 1 .. PART : k - 1 \in 0 .. PART - 1
      BY <1>1
    <3> QED
      BY <2>1, <2>6, <3>1 DEF Read, Filled, Unread
  <2>8. \A k \in 0 .. PART - 1 : Unread(c, k) = <<"Q", n>>
    BY <2>3, <2>4, <2>6
  <2>9. HalfRead(c, iPart')
    BY <2>3, <2>4, <2>7, <2>8 DEF HalfRead
  <2> QED
    BY <2>1, <2>4, <2>9 DEF OnCourse, Course, c
<1>6. CASE BbCheckQ
  <2>1. c = b /\ bbin = "checkQ" /\ HalfRead(b, iPart)
    BY <1>2, <1>6 DEF BbCheckQ, Course
  <2>2. ~TooFew
    BY <1>1, <2>1 DEF TooFew, HalfRead
  <2>3. bbin' = "takeQ" /\ iPart' = iPart /\ qPart' = qPart
    BY <1>6, <2>2 DEF BbCheckQ
  <2> HIDE DEF b, c
  <2> QED
    BY <1>2, <2>1, <2>3 DEF OnCourse, Course, b, c
<1>7. CASE BbTakeQ
  <2>1. c = Taken(b, PART) /\ bbin = "takeQ" /\ HalfRead(b, iPart) /\ InBlocks(b, PART)
    BY <1>2, <1>7 DEF BbTakeQ, Course
  <2>2. PICK n \in Blocks : /\ iPart = Filled(<<"I", n>>, PART)
                            /\ PART <= b.elemCount
                            /\ \A k \in 0 .. PART - 1 : Unread(b, k) = <<"Q", n>>
    BY <2>1 DEF HalfRead
  <2>3. iPart # <<>>
    <3>1. iPart \in [1 .. PART -> {<<"I", n>>}]
      BY <2>2 DEF Filled
    <3>2. Len(iPart) = PART
      BY <1>1, <3>1, FunctionIsSeq
    <3> QED
      BY <1>1, <3>2, EmptySeq
  <2>4. bbin' = "hand" /\ qPart' = Read(b, PART) /\ iPart' = iPart
    BY <1>7, <2>3 DEF BbTakeQ
  <2> HIDE DEF b, c
  <2>5. InBlocks(c, 0) /\ Good(c)
    <3>1. PART <= PART /\ PART - PART = 0
      BY <1>1
    <3>2. InBlocks(Taken(b, PART), PART - PART) /\ Good(Taken(b, PART))
      BY <1>1, <2>1, <2>2, <3>1, HalfTaken
    <3> QED
      BY <2>1, <3>1, <3>2
  <2>6. qPart' = Filled(<<"Q", n>>, PART)
    <3>1. \A k \in 1 .. PART : k - 1 \in 0 .. PART - 1
      BY <1>1
    <3> QED
      BY <2>2, <2>4, <3>1 DEF Read, Filled, Unread
  <2>7. iPart' \o qPart' = BlockOf(n)
    BY <2>2, <2>4, <2>6 DEF BlockOf
  <2> QED
    BY <2>4, <2>5, <2>7 DEF OnCourse, Course, c
<1>8. CASE BbHand \/ BbEndLoop
  <2>1. c = b /\ bbin \in {"hand", "loop"} /\ bbin' \in {"loop", "events"}
    BY <1>8 DEF BbHand, BbEndLoop
  <2> HIDE DEF b, c
  <2> QED
    BY <1>2, <2>1 DEF OnCourse, Course, b, c
<1> QED
  BY <1>3, <1>4, <1>5, <1>6, <1>7, <1>8 DEF Reads

LEMMA PairsInvNext == PairsInv /\ [PairsNext]_pairsVars => PairsInv'
<1> SUFFICES ASSUME PairsInv, [PairsNext]_pairsVars PROVE PairsInv'
  OBVIOUS
<1>1. PairsTypes /\ (strayed \/ OnCourse)
  BY DEF PairsInv
<1>2. PairsTypes'
  BY <1>1, PairsTypesNext
<1>3. ASSUME ~strayed' PROVE OnCourse'
  <2>1. CASE BbClose \/ BbOpen \/ BbRecover
    BY <1>1, <1>3, <2>1, OnCourseEmptied
  <2>2. CASE IqPut
    <3>1. ~strayed
      BY <1>3, <2>2 DEF IqPut
    <3> QED
      BY <1>1, <1>3, <2>2, <3>1, OnCoursePut
  <2>3. CASE Reads
    <3>1. strayed' = strayed
      BY <2>3 DEF Reads, BbLook, BbCheckI, BbTakeI, BbCheckQ, BbTakeQ, BbHand, BbEndLoop
    <3> QED
      BY <1>1, <1>3, <2>3, <3>1, OnCourseReads
  <2>4. CASE UNCHANGED <<iqReadBuffer, strayed, bbin, pairing>>
    BY <1>1, <1>3, <2>4 DEF OnCourse, pairing
  <2>5. CASE BbStartIq \/ BbAnswer \/ BbNothing
    <3>1. /\ UNCHANGED <<iqReadBuffer, strayed, iPart, qPart>>
          /\ bbin \in {"start", "restart", "answer", "events"} /\ bbin' \in {"answer", "loop"}
      BY <2>5 DEF BbStartIq, BbAnswer, BbNothing, BbRest, pairing
    <3> QED
      BY <1>1, <1>3, <3>1 DEF OnCourse, Course
  <2> QED
    BY <2>1, <2>2, <2>3, <2>4, <2>5, PairsSteps
<1> QED
  BY <1>2, <1>3 DEF PairsInv

(* I and Q of a pair are of one block. *)
THEOREM PairsAreHeld == PairsSpec => []PairsHeld
<1>1. PairsInv => PairsHeld
  BY DEF PairsInv, OnCourse, Course, PairsHeld
<1> QED
  BY <1>1, PairsInvInit, PairsInvNext, PTL DEF PairsSpec


-----------------------------------------------------------------------------
(* The samples on their way to the core (HdVectors).                       *)

(* What the post for the pass under way will be for. *)
Written == IF size = "none" \/ (size = "AM" /\ band = "FM") THEN 0 ELSE done * Units(size)

(* s samples are there for n posts of vectors of v samples, and f more. *)
Backed(n, s, v, f) == n >= 1 => s >= n * v + f

(* A read of more than a vector is of the samples of two posts. *)
Extra(w, v) == IF w > v THEN 1 ELSE 0

Late(s, p, o, v, f) == o > 0 /\ Backed(p + 1 - o, s, v, f)

OnTime(s, p, o, v, f) == s >= want /\ Backed(p + 1 - Extra(want, v) - o, s - want + v, v, f)

Served(s, p, o, v, f) ==
  /\ s <= SAMPLES
  /\ demod = "wait"  => Backed(p - o, s, v, f)
  /\ demod = "look"  => Backed(p + 1 - o, s, v, f)
  /\ demod = "check" => OnTime(s, p, o, v, f) \/ Late(s, p, o, v, f)
  /\ demod = "take"  => OnTime(s, p, o, v, f)
  /\ demod = "feed" /\ want = 0 => Late(s, p, o, v, f)
  /\ demod = "feed" /\ want # 0 => Backed(p - Extra(want, v) - o, s, v, f)
  /\ demod \in {"check", "take", "feed"} /\ ~whole => o > 0

VTypes ==
  /\ samples \in Nat /\ posts \in Nat /\ orphans \in Nat /\ done \in Nat
  /\ wrapped \in BOOLEAN /\ whole \in BOOLEAN
  /\ size \in VBands \cup {"none"} /\ band \in VBands /\ tunedBand \in VBands
  /\ demod \in {"wait", "look", "check", "take", "feed"}
  /\ want \in {0, LOOP_V, 2 * LOOP_V}
  /\ demod \in {"check", "take"} => want # 0
  /\ demod = "feed" /\ want = 0 => ~whole
  /\ pass \in {"events", "fwk"} => done = 0

(* The sizes of the base band input thread follow the band, but for an     *)
(* opening and a close under way.                                          *)
Sized == /\ size = "FM" /\ pass # "fwk" => band = "FM"
         /\ pass = "fwk" => size \in {tunedBand, "none"}

VectorsInv == VTypes /\ Sized /\ (~wrapped => Served(samples, posts, orphans, Vector(band), Written))

LEMMA VectorSizes ==
  /\ LOOP_V \in Nat /\ LOOP_V >= 1 /\ Vector("AM") = LOOP_V /\ Vector("FM") = 2 * LOOP_V
  /\ Units("AM") = 1 /\ Units("FM") = 2
  /\ SAMPLES \in Nat /\ WORD_V \in Nat /\ SAMPLES >= 2 * LOOP_V /\ WORD_V > SAMPLES
<1>1. Units("AM") = 1 /\ Units("FM") = 2
  BY DEF Units
<1> QED
  BY <1>1, VectorsAssumption DEF Vector

LEMMA VectorOf == \A b \in VBands : /\ Vector(b) \in Nat /\ Vector(b) >= 1
                                    /\ Vector(b) \in {LOOP_V, 2 * LOOP_V}
                                    /\ b = "AM" => Vector(b) = LOOP_V
                                    /\ b = "FM" => Vector(b) = 2 * LOOP_V
  BY VectorSizes DEF VBands

LEMMA Products ==
  /\ \A n \in Int, v \in Nat : n >= 1 => n * v >= v
  /\ \A n \in Int, v \in Nat : (n + 1) * v = n * v + v
  /\ \A n, m \in Int, v \in Nat : m <= n => m * v <= n * v
  /\ \A n \in Int, v \in Nat : n >= 1 => n * v <= n * (2 * v)
  /\ \A n \in Int, v \in Nat : n * v \in Int
<1>1. \A n \in Int, v \in Nat : n >= 1 => n * v >= v
  OBVIOUS
<1>2. \A n \in Int, v \in Nat : (n + 1) * v = n * v + v
  OBVIOUS
<1>3. \A n, m \in Int, v \in Nat : m <= n => m * v <= n * v
  OBVIOUS
<1>4. \A n \in Int, v \in Nat : n >= 1 => n * v <= n * (2 * v)
  OBVIOUS
<1>5. \A n \in Int, v \in Nat : n * v \in Int
  OBVIOUS
<1> QED
  BY <1>1, <1>2, <1>3, <1>4, <1>5

LEMMA BackedFacts ==
  ASSUME NEW n \in Int, NEW s \in Int, NEW v \in Nat, NEW f \in Nat, Backed(n, s, v, f)
  PROVE  /\ \A t \in Int, g \in Nat, d \in Nat : t >= s + d /\ g <= f + d => Backed(n, t, v, g)
         /\ \A m \in Int : m <= n => Backed(m, s, v, f)
         /\ \A w \in Int : w <= v => Backed(n - 1, s - w, v, f)
         /\ f >= v /\ s >= v => Backed(n + 1, s, v, 0)
         /\ n >= 1 => s >= v + f
<1>1. n * v \in Int
  BY Products
<1>2. \A t \in Int, g \in Nat, d \in Nat : t >= s + d /\ g <= f + d => Backed(n, t, v, g)
  BY <1>1 DEF Backed
<1>3. ASSUME NEW m \in Int, m <= n PROVE Backed(m, s, v, f)
  <2>1. m * v <= n * v /\ m * v \in Int
    BY <1>3, Products
  <2> QED
    BY <1>1, <1>3, <2>1 DEF Backed
<1>4. ASSUME NEW w \in Int, w <= v PROVE Backed(n - 1, s - w, v, f)
  <2>1. n - 1 \in Int /\ (n - 1) + 1 = n
    OBVIOUS
  <2>2. n * v = (n - 1) * v + v /\ (n - 1) * v \in Int
    BY <2>1, Products
  <2> QED
    BY <1>1, <1>4, <2>2 DEF Backed
<1>5. f >= v /\ s >= v => Backed(n + 1, s, v, 0)
  <2>1. (n + 1) * v = n * v + v
    BY Products
  <2>2. n < 1 => (n + 1) * v <= v
    <3>1. n < 1 => n + 1 <= 1 /\ n + 1 \in Int
      OBVIOUS
    <3>2. 1 * v = v
      OBVIOUS
    <3> QED
      BY <3>1, <3>2, Products
  <2> QED
    BY <1>1, <2>1, <2>2 DEF Backed
<1>6. n >= 1 => s >= v + f
  <2>1. n >= 1 => n * v >= v
    BY Products
  <2> QED
    BY <1>1, <2>1 DEF Backed
<1> QED
  BY <1>2, <1>3, <1>4, <1>5, <1>6

LEMMA OneTaken ==
  \A n \in Int, s \in Int, v \in Nat, f \in Nat : Backed(n, s, v, f) => Backed(n - 1, s - v, v, f)
<1> TAKE n \in Int, s \in Int, v \in Nat, f \in Nat
<1> HAVE Backed(n, s, v, f)
<1>1. \A w \in Int : w <= v => Backed(n - 1, s - w, v, f)
  BY BackedFacts
<1> QED
  BY <1>1

LEMMA MoreThere ==
  \A n \in Int, s \in Int, t \in Int, v \in Nat, f \in Nat : Backed(n, s, v, f) /\ t >= s + 0 => Backed(n, t, v, f)
  BY Products DEF Backed

LEMMA NothingOwed == \A n \in Int, s \in Int, v \in Nat, f \in Nat : n <= 0 => Backed(n, s, v, f)
  BY DEF Backed

(* The vectors of AM are smaller. *)
LEMMA BackedSmaller ==
  ASSUME NEW n \in Int, NEW s \in Int, NEW f \in Nat, Backed(n, s, 2 * LOOP_V, f)
  PROVE  Backed(n, s - LOOP_V, LOOP_V, f) /\ Backed(n, s, LOOP_V, f)
<1> DEFINE x == n * LOOP_V
           y == n * (2 * LOOP_V)
<1>1. x \in Int /\ y \in Int /\ LOOP_V \in Nat /\ y = x + x
  BY Products, VectorSizes
<1>2. n >= 1 => x >= LOOP_V
  BY Products, VectorSizes
<1>3. n >= 1 => s >= y + f
  BY DEF Backed
<1> HIDE DEF x, y
<1>4. n >= 1 => s - LOOP_V >= x + f /\ s >= x + f
  BY <1>1, <1>2, <1>3
<1> QED
  BY <1>4 DEF Backed, x

LEMMA WrittenNat == VTypes => Written \in Nat
<1>1. VTypes /\ size = "FM" => done * Units(size) \in Nat
  BY VectorSizes DEF VTypes
<1>2. VTypes /\ size = "AM" => done * Units(size) \in Nat
  BY VectorSizes DEF VTypes
<1> QED
  BY <1>1, <1>2 DEF VTypes, Written, VBands

-----------------------------------------------------------------------------
(* The samples are thrown away: the posts under way have none. *)
LEMMA Emptying ==
  ASSUME VTypes, EmptySamples, NEW v \in {LOOP_V, 2 * LOOP_V}, NEW f \in Nat, posts' = posts, ~wrapped'
  PROVE  Served(samples', posts', orphans', v, f)
<1>0. ~(demod = "take" /\ want > 0)
  <2>1. wrapped' = (demod = "take" /\ want > 0)
    BY DEF EmptySamples
  <2> QED
    BY <2>1, Zenon
<1>1. /\ samples' = 0 /\ orphans' = UnderWay(Reading)
      /\ posts' = posts /\ posts \in Nat /\ v \in Nat /\ v >= 1
      /\ want \in {0, LOOP_V, 2 * LOOP_V} /\ LOOP_V \in Nat /\ LOOP_V >= 1
  BY VectorSizes DEF EmptySamples, VTypes
<1>2. demod # "take"
  <2>1. want # 0 => want > 0
    BY <1>1
  <2>2. demod = "take" => want # 0
    BY DEF VTypes
  <2> QED
    BY <1>0, <2>1, <2>2
<1>3. demod \in {"look", "check"} \/ (demod = "feed" /\ ~whole) => orphans' = posts + 1
  BY <1>1 DEF Reading, UnderWay
<1>4. demod = "wait" \/ (demod = "feed" /\ whole) => orphans' = posts
  BY <1>1 DEF Reading, UnderWay
<1>5. Extra(want, v) \in {0, 1}
  BY DEF Extra
<1>6. samples' <= SAMPLES /\ samples' \in Int
  BY <1>1, VectorSizes
<1>7. CASE demod \in {"look", "check"} \/ (demod = "feed" /\ ~whole)
  <2>1. /\ orphans' > 0 /\ posts + 1 - orphans' = 0 /\ posts + 1 - orphans' \in Int
        /\ posts - Extra(want, v) - orphans' <= 0 /\ posts - Extra(want, v) - orphans' \in Int
    BY <1>1, <1>3, <1>5, <1>7
  <2>2. Backed(posts + 1 - orphans', samples', v, f) /\ Backed(posts - Extra(want, v) - orphans', samples', v, f)
    BY <1>1, <1>6, <2>1, NothingOwed
  <2> QED
    BY <1>1, <1>2, <1>6, <1>7, <2>1, <2>2 DEF Served, Late
<1>8. CASE demod = "wait" \/ (demod = "feed" /\ whole)
  <2>1. /\ posts - orphans' = 0 /\ posts - orphans' \in Int
        /\ posts - Extra(want, v) - orphans' <= 0 /\ posts - Extra(want, v) - orphans' \in Int
    BY <1>1, <1>4, <1>5, <1>8
  <2>2. Backed(posts - orphans', samples', v, f) /\ Backed(posts - Extra(want, v) - orphans', samples', v, f)
    BY <1>1, <1>6, <2>1, NothingOwed
  <2>3. demod = "feed" => want # 0
    BY <1>8 DEF VTypes
  <2> QED
    BY <1>1, <1>2, <1>6, <1>8, <2>2, <2>3 DEF Served
<1> QED
  BY <1>2, <1>7, <1>8 DEF VTypes

(* d more samples, as many of them for the pass. *)
LEMMA MoreSamples ==
  ASSUME VTypes, NEW s \in Nat, NEW p \in Nat, NEW o \in Nat, NEW v \in Nat, NEW f \in Nat,
         Served(s, p, o, v, f), NEW t \in Nat, NEW g \in Nat, NEW d \in Nat,
         t >= s + d, g <= f + d, t <= SAMPLES
  PROVE  Served(t, p, o, v, g)
<1>1. want \in Nat
  BY VectorSizes DEF VTypes
<1>2. ASSUME NEW n \in Int, Backed(n, s, v, f) PROVE Backed(n, t, v, g)
  <2>1. \A r \in Int, h \in Nat, e \in Nat : r >= s + e /\ h <= f + e => Backed(n, r, v, h)
    <3>1. s \in Int
      OBVIOUS
    <3> QED
      BY <1>2, <3>1, BackedFacts
  <2> QED
    BY <2>1
<1>3. ASSUME NEW n \in Int, Backed(n, s - want + v, v, f) PROVE Backed(n, t - want + v, v, g)
  <2>1. s - want + v \in Int /\ t - want + v \in Int /\ t - want + v >= (s - want + v) + d
    BY <1>1
  <2>2. \A r \in Int, h \in Nat, e \in Nat : r >= (s - want + v) + e /\ h <= f + e => Backed(n, r, v, h)
    BY <1>3, <2>1, BackedFacts
  <2> QED
    BY <2>1, <2>2
<1>4. /\ p - o \in Int /\ p + 1 - o \in Int
      /\ p - Extra(want, v) - o \in Int /\ p + 1 - Extra(want, v) - o \in Int
  BY DEF Extra
<1>5. s >= want => t >= want
  BY <1>1
<1> QED
  BY <1>2, <1>3, <1>4, <1>5 DEF Served, OnTime, Late

(* A post for a vector that is there. *)
LEMMA OnePosted ==
  ASSUME VTypes, NEW s \in Nat, NEW p \in Nat, NEW o \in Nat, NEW v \in Nat, NEW f \in Nat,
         Served(s, p, o, v, f), f >= v, s >= v
  PROVE  Served(s, p + 1, o, v, 0)
<1>1. want \in Nat
  BY VectorSizes DEF VTypes
<1>2. ASSUME NEW n \in Int, Backed(n, s, v, f) PROVE Backed(n + 1, s, v, 0)
  BY <1>2, BackedFacts
<1>3. ASSUME NEW n \in Int, s >= want, Backed(n, s - want + v, v, f) PROVE Backed(n + 1, s - want + v, v, 0)
  <2>1. s - want + v \in Int /\ s - want + v >= v
    BY <1>1, <1>3
  <2> QED
    BY <1>3, <2>1, BackedFacts
<1>4. /\ p - o \in Int /\ p + 1 - o \in Int
      /\ p - Extra(want, v) - o \in Int /\ p + 1 - Extra(want, v) - o \in Int
      /\ (p + 1) - o = (p - o) + 1 /\ (p + 1) + 1 - o = (p + 1 - o) + 1
      /\ (p + 1) - Extra(want, v) - o = (p - Extra(want, v) - o) + 1
      /\ (p + 1) + 1 - Extra(want, v) - o = (p + 1 - Extra(want, v) - o) + 1
  BY DEF Extra
<1> QED
  BY <1>2, <1>3, <1>4 DEF Served, OnTime, Late

(* A post too many. *)
LEMMA PostedForNothing ==
  ASSUME VTypes, NEW s \in Nat, NEW p \in Nat, NEW o \in Nat, NEW v \in Nat, NEW f \in Nat,
         Served(s, p, o, v, f)
  PROVE  Served(s, p + 1, o + 1, v, f)
<1>1. /\ p - o = (p + 1) - (o + 1) /\ p + 1 - o = (p + 1) + 1 - (o + 1)
      /\ p - Extra(want, v) - o = (p + 1) - Extra(want, v) - (o + 1)
      /\ p + 1 - Extra(want, v) - o = (p + 1) + 1 - Extra(want, v) - (o + 1)
      /\ o + 1 > 0
  BY DEF Extra
<1> QED
  BY <1>1 DEF Served, OnTime, Late

(* A smaller vector needs less. *)
LEMMA ToSmaller ==
  ASSUME VTypes, NEW s \in Nat, NEW p \in Nat, NEW o \in Nat, NEW f \in Nat,
         Served(s, p, o, 2 * LOOP_V, f)
  PROVE  Served(s, p, o, LOOP_V, f)
<1> DEFINE v == 2 * LOOP_V
           e == Extra(want, LOOP_V)
<1>1. want \in {0, LOOP_V, v} /\ want \in Nat /\ LOOP_V \in Nat /\ LOOP_V >= 1 /\ v \in Nat /\ v >= LOOP_V
  BY VectorSizes DEF VTypes
<1>2. Extra(want, v) = 0
  BY <1>1 DEF Extra
<1>3. e \in {0, 1} /\ (want = v => e = 1)
  BY <1>1 DEF Extra
<1>4. \A n \in Int : Backed(n, s, v, f) => Backed(n, s, LOOP_V, f)
  BY BackedSmaller
<1>5. Backed(p - Extra(want, v) - o, s, v, f) => Backed(p - e - o, s, LOOP_V, f)
  <2>1. p - Extra(want, v) - o \in Int /\ p - e - o \in Int /\ p - e - o <= p - Extra(want, v) - o
    BY <1>2, <1>3
  <2>2. Backed(p - Extra(want, v) - o, s, v, f) => Backed(p - Extra(want, v) - o, s, LOOP_V, f)
    BY <1>4, <2>1
  <2> QED
    BY <1>1, <2>1, <2>2, BackedFacts
<1>6. OnTime(s, p, o, v, f) => OnTime(s, p, o, LOOP_V, f)
  <2> SUFFICES ASSUME OnTime(s, p, o, v, f) PROVE OnTime(s, p, o, LOOP_V, f)
    OBVIOUS
  <2>1. s >= want /\ Backed(p + 1 - o, s - want + v, v, f)
    <3>1. p + 1 - 0 - o = p + 1 - o
      OBVIOUS
    <3> QED
      BY <1>2, <3>1 DEF OnTime
  <2>2. p + 1 - o \in Int /\ s - want + v \in Int /\ (p + 1 - o) - 1 = p - o /\ p - o \in Int
    BY <1>1
  <2>3. Backed(p + 1 - o, s - want + LOOP_V, LOOP_V, f)
    <3>1. (s - want + v) - LOOP_V = s - want + LOOP_V
      BY <1>1
    <3> QED
      BY <2>1, <2>2, <3>1, BackedSmaller
  <2>4. /\ p + 1 - e - o \in Int /\ p + 1 - e - o <= p + 1 - o /\ p + 1 - o \in Int
        /\ s - want + LOOP_V \in Int
    BY <1>1, <1>3
  <2>5. Backed(p + 1 - e - o, s - want + LOOP_V, LOOP_V, f)
    BY <1>1, <2>3, <2>4, BackedFacts
  <2> QED
    BY <2>1, <2>5 DEF OnTime
<1> QED
  BY <1>4, <1>5, <1>6 DEF Served, Late

(* From AM to FM: what is there was posted for AM. *)
LEMMA ToLarger ==
  ASSUME VTypes, NEW s \in Nat, NEW p \in Nat, NEW o \in Nat, NEW q \in Nat, NEW f \in Nat,
         Served(s, p, o, LOOP_V, f),
         q = Least(o + (IF demod = "look" THEN p + 1 ELSE p), IF Reading THEN p + 1 ELSE p)
  PROVE  Served(s, p, q, 2 * LOOP_V, 0)
<1> DEFINE v == 2 * LOOP_V
<1>1. want \in {0, LOOP_V, v} /\ want \in Nat /\ LOOP_V \in Nat /\ LOOP_V >= 1 /\ v \in Nat /\ v >= LOOP_V
  BY VectorSizes DEF VTypes
<1>2. Extra(want, v) = 0 /\ Extra(want, LOOP_V) \in {0, 1}
  BY <1>1 DEF Extra
<1>3. s <= SAMPLES
  BY DEF Served
<1>4. CASE demod = "wait" \/ (demod = "feed" /\ whole)
  <2>1. q = p
    BY <1>4 DEF Least, Reading
  <2>2. p - q \in Int /\ p - q <= 0 /\ p - Extra(want, v) - q \in Int /\ p - Extra(want, v) - q <= 0
    BY <1>2, <2>1
  <2>3. Backed(p - q, s, v, 0) /\ Backed(p - Extra(want, v) - q, s, v, 0)
    BY <1>1, <2>2, NothingOwed
  <2>4. demod = "feed" => want # 0
    BY <1>4 DEF VTypes
  <2> QED
    BY <1>3, <1>4, <2>3, <2>4 DEF Served
<1>5. CASE demod = "look"
  <2>1. q = p + 1
    BY <1>5 DEF Least, Reading
  <2>2. p + 1 - q \in Int /\ p + 1 - q <= 0
    BY <2>1
  <2>3. Backed(p + 1 - q, s, v, 0)
    BY <1>1, <2>2, NothingOwed
  <2> QED
    BY <1>3, <1>5, <2>3 DEF Served
<1>6. CASE demod = "feed" /\ ~whole
  <2>1. o > 0
    BY <1>6 DEF Served
  <2>2. q = p + 1
    BY <1>6, <2>1 DEF Least, Reading
  <2>3. /\ p + 1 - q \in Int /\ p + 1 - q <= 0 /\ p - Extra(want, v) - q \in Int /\ p - Extra(want, v) - q <= 0
        /\ q > 0
    BY <1>2, <2>2
  <2>4. Backed(p + 1 - q, s, v, 0) /\ Backed(p - Extra(want, v) - q, s, v, 0)
    BY <1>1, <2>3, NothingOwed
  <2> QED
    BY <1>3, <1>6, <2>3, <2>4 DEF Served, Late
<1>7. CASE demod \in {"check", "take"} /\ o > 0
  <2>1. q = p + 1
    BY <1>7 DEF Least, Reading
  <2>2. CASE demod = "check"
    <3>1. p + 1 - q \in Int /\ p + 1 - q <= 0 /\ q > 0
      BY <2>1
    <3>2. Backed(p + 1 - q, s, v, 0)
      BY <1>1, <3>1, NothingOwed
    <3> QED
      BY <1>3, <2>2, <3>1, <3>2 DEF Served, Late
  <2>3. CASE demod = "take"
    <3>1. p + 1 - Extra(want, v) - q \in Int /\ p + 1 - Extra(want, v) - q <= 0 /\ q > 0
      BY <1>2, <2>1
    <3>2. s - want + v \in Int
      BY <1>1
    <3>3. Backed(p + 1 - Extra(want, v) - q, s - want + v, v, 0)
      BY <1>1, <3>1, <3>2, NothingOwed
    <3>4. s >= want
      BY <2>3 DEF Served, OnTime
    <3> QED
      BY <1>3, <2>3, <3>1, <3>3, <3>4 DEF Served, OnTime
  <2> QED
    BY <1>7, <2>2, <2>3
<1>8. CASE demod \in {"check", "take"} /\ o = 0
  <2>1. q = p /\ s >= want /\ whole
    <3>1. q = p
      BY <1>8 DEF Least, Reading
    <3>2. whole
      BY <1>8 DEF Served
    <3>3. s >= want
      BY <1>8 DEF Served, OnTime, Late
    <3> QED
      BY <3>1, <3>2, <3>3
  <2>2. p + 1 - Extra(want, v) - q = 1 /\ s - want + v \in Int /\ s - want + v >= 1 * v + 0
    BY <1>1, <1>2, <2>1
  <2>3. OnTime(s, p, q, v, 0)
    BY <2>1, <2>2 DEF OnTime, Backed
  <2> QED
    BY <1>3, <1>8, <2>1, <2>3 DEF Served
<1> QED
  BY <1>4, <1>5, <1>6, <1>7, <1>8 DEF VTypes

LEMMA SmallCount ==
  ASSUME NEW n \in Nat, NEW x \in Nat, x < n
  PROVE  x % n = x
<1> DEFINE q == x \div n
           r == x % n
<1>1. q \in Int /\ r \in 0 .. n - 1 /\ x = n * q + r
  OBVIOUS
<1>2. ASSUME q >= 1 PROVE FALSE
  <2>1. n * q >= n
    BY <1>1, <1>2
  <2> QED
    BY <1>1, <2>1
<1>3. ASSUME q <= -1 PROVE FALSE
  <2>1. n * q <= -n
    BY <1>1, <1>3
  <2> QED
    BY <1>1, <2>1
<1>4. q = 0
  BY <1>1, <1>2, <1>3
<1>5. n * q = 0
  BY <1>4
<1> QED
  BY <1>1, <1>5

LEMMA CountNat == \A n \in Nat, x \in Int : n > 0 => x % n \in Nat
  OBVIOUS

LEMMA BlockUnitsOf == VTypes => BlockUnits \in {1, 2} /\ (size # "none" => BlockUnits = Units(size))
<1>1. \A b \in VBands : Units(b) \in {1, 2}
  BY DEF Units
<1> QED
  BY <1>1 DEF VTypes, BlockUnits, VBands

LEMMA EmptyingTypes ==
  VTypes /\ EmptySamples => samples' \in Nat /\ orphans' \in Nat /\ wrapped' \in BOOLEAN
<1> SUFFICES ASSUME VTypes, EmptySamples
             PROVE  samples' \in Nat /\ orphans' \in Nat /\ wrapped' \in BOOLEAN
  OBVIOUS
<1>1. samples' \in Nat /\ orphans' \in Nat
  BY DEF EmptySamples, UnderWay, VTypes
<1>2. wrapped' \in BOOLEAN
  BY Zenon DEF EmptySamples
<1> QED
  BY <1>1, <1>2

LEMMA SetBandTypes ==
  ASSUME VTypes, NEW b \in VBands, SetBand(b)
  PROVE  band' = b /\ orphans' \in Nat
<1>1. UnderWay(Reading) \in Nat /\ UnderWay(demod = "look") \in Nat
  BY DEF UnderWay, VTypes
<1> QED
  BY <1>1 DEF SetBand, Least, VTypes

LEMMA VectorsTypesNext == VTypes /\ [VectorsNext]_vectorsVars => VTypes'
<1> SUFFICES ASSUME VTypes, [VectorsNext]_vectorsVars PROVE VTypes'
  OBVIOUS
<1> USE DEF VTypes
<1>0. /\ LOOP_V \in Nat /\ LOOP_V >= 1 /\ Vector("AM") = LOOP_V /\ Vector("FM") = 2 * LOOP_V
      /\ WORD_V \in Nat /\ WORD_V > 0 /\ "FM" \in VBands
  BY VectorSizes DEF VBands
<1>1. CASE UNCHANGED vectorsVars
  BY <1>1 DEF vectorsVars, vBuffer, fwSession, vTuning, vCore
<1>2. CASE AppOpen \/ AppTune \/ AppClose \/ BlockCame \/ BbvAnswer \/ BbvNothing \/ BbvBlock \/ BbvRead
  <2>1. UNCHANGED <<samples, posts, orphans, done, wrapped, whole, size, band, tunedBand, demod, want>>
    BY <1>2 DEF AppOpen, AppTune, AppClose, BlockCame, BbvAnswer, BbvNothing, BbvBlock, BbvRead, BbvKeeps,
                vBuffer, fwSession, vTuning, vCore
  <2>2. pass' = pass \/ pass' \in {"loop", "read", "write", "again"}
    BY <1>2 DEF AppOpen, AppTune, AppClose, BlockCame, BbvAnswer, BbvNothing, BbvBlock, BbvRead
  <2> QED
    BY <2>1, <2>2
<1>3. CASE CloseFwk \/ BbvFwkOpen
  <2>1. \E b \in VBands : SetBand(b)
    BY <1>0, <1>3 DEF CloseFwk, BbvFwkOpen
  <2>2. band' \in VBands /\ orphans' \in Nat
    BY <2>1, SetBandTypes
  <2>3. /\ UNCHANGED <<samples, posts, done, wrapped, whole, size, tunedBand, demod, want>>
        /\ pass' = pass \/ pass' = "answer"
    BY <1>3 DEF CloseFwk, BbvFwkOpen, vTuning, vCore
  <2> QED
    BY <2>2, <2>3
<1>4. CASE CloseBb \/ BbvOpen \/ BbvRecover \/ BbvOverrun
  <2>1. EmptySamples
    BY <1>4 DEF CloseBb, BbvOpen, BbvRecover, BbvOverrun
  <2>2. samples' \in Nat /\ orphans' \in Nat /\ wrapped' \in BOOLEAN
    BY <2>1, EmptyingTypes
  <2>3. /\ UNCHANGED <<posts, done, whole, band, tunedBand, demod, want>>
        /\ size' \in {size, "none", tunedBand}
        /\ pass' = pass \/ pass' = "loop" \/ (pass = "events" /\ pass' = "fwk")
    BY <1>4 DEF CloseBb, BbvOpen, BbvRecover, BbvOverrun, BbvKeeps, fwSession, vTuning, vCore
  <2> QED
    BY <2>2, <2>3
<1>5. CASE BbvTune
  <2>1. /\ UNCHANGED <<samples, posts, done, wrapped, whole, demod, want>> /\ pass' = "loop"
        /\ \E b \in VBands : tunedBand' = b /\ size' = b /\ SetBand(b)
    BY <1>5 DEF BbvTune, vCore
  <2>2. band' \in VBands /\ orphans' \in Nat
    BY <2>1, SetBandTypes
  <2> QED
    BY <2>1, <2>2
<1>6. CASE BbvWrite
  <2>1. UNCHANGED <<posts, orphans, wrapped, whole, size, band, tunedBand, demod, want>> /\ pass' \in {"loop", "overrun"}
    BY <1>6 DEF BbvWrite, BbvKeeps, vTuning, vCore
  <2>2. samples + BlockUnits \in Int
    BY BlockUnitsOf
  <2>3. samples' \in Nat
    BY <1>0, <1>6, <2>2, CountNat DEF BbvWrite
  <2>4. done' \in Nat
    BY <1>6 DEF BbvWrite
  <2> QED
    BY <2>1, <2>3, <2>4
<1>7. CASE BbvPost
  <2>1. /\ UNCHANGED <<samples, wrapped, whole, size, band, tunedBand, demod, want>> /\ pass' = "events" /\ done' = 0
        /\ posts' \in {posts, posts + 1} /\ orphans' \in {orphans, orphans + 1}
    BY <1>7 DEF BbvPost, vTuning, vCore
  <2> QED
    BY <2>1
<1>8. CASE DemodWake
  BY <1>8 DEF DemodWake, DemodRest, vTuning, vBuffer
<1>9. CASE DemodLook
  <2>1. UNCHANGED <<samples, posts, done, wrapped, size, band, tunedBand, pass>>
    BY <1>9 DEF DemodLook, DemodRest, vTuning
  <2>2. CASE samples = 0
    <3>1. demod' = "wait" /\ UNCHANGED <<want, whole>> /\ orphans' = Least(Fewer(orphans), posts)
      BY <1>9, <2>2 DEF DemodLook
    <3>2. orphans' \in Nat
      BY <3>1 DEF Least, Fewer
    <3> QED
      BY <2>1, <3>1, <3>2
  <2>3. CASE samples # 0
    <3>1. demod' = "check" /\ want' = ToRead /\ orphans' = orphans
      BY <1>9, <2>3 DEF DemodLook
    <3>2. whole' \in BOOLEAN
      <4> DEFINE enough == ToRead >= Vector(band)
      <4>1. whole' = enough
        BY <1>9, <2>3 DEF DemodLook
      <4>2. enough \in BOOLEAN
        OBVIOUS
      <4> HIDE DEF enough
      <4> QED
        BY <4>1, <4>2, Zenon
    <3>3. ToRead \in {LOOP_V, 2 * LOOP_V} /\ ToRead # 0
      BY <1>0 DEF ToRead
    <3> QED
      BY <2>1, <3>1, <3>2, <3>3
  <2> QED
    BY <2>2, <2>3
<1>10. CASE DemodCheck
  <2>1. /\ UNCHANGED <<samples, posts, orphans, done, wrapped, size, band, tunedBand, pass>>
        /\ demod = "check" /\ want # 0
        /\ (demod' = "feed" /\ want' = 0 /\ whole' = FALSE) \/ (demod' = "take" /\ want' = want /\ whole' = whole)
    BY <1>10 DEF DemodCheck, DemodRest, vTuning, vBuffer
  <2> QED
    BY <2>1
<1>11. CASE DemodTake
  <2>1. /\ UNCHANGED <<posts, orphans, done, wrapped, size, band, tunedBand, pass, want>>
        /\ demod = "take" /\ want # 0 /\ demod' = "feed" /\ samples' = (samples - want) % WORD_V
    BY <1>11 DEF DemodTake, DemodRest, vTuning
  <2>2. samples' \in Nat
    <3>1. samples - want \in Int
      BY <1>0
    <3> QED
      BY <1>0, <2>1, <3>1, CountNat
  <2>3. whole' \in BOOLEAN
    <3>1. whole' = (whole /\ samples >= want)
      BY <1>11 DEF DemodTake
    <3> QED
      BY <3>1, Zenon
  <2> QED
    BY <2>1, <2>2, <2>3
<1>12. CASE DemodFeed
  <2>1. /\ UNCHANGED <<samples, posts, done, wrapped, size, band, tunedBand, pass>>
        /\ demod' = "wait" /\ want' = 0 /\ whole' = FALSE /\ orphans' = Least(Spent, posts)
    BY <1>12 DEF DemodFeed, DemodRest, vTuning
  <2>2. Spent \in Nat
    BY DEF Spent, Fewer
  <2>3. orphans' \in Nat
    BY <2>1, <2>2 DEF Least
  <2> QED
    BY <2>1, <2>3
<1> QED
  BY <1>1, <1>2, <1>3, <1>4, <1>5, <1>6, <1>7, <1>8, <1>9, <1>10, <1>11, <1>12
     DEF VectorsNext, Closing, BbvThread, PrimaryThread

(* For a step that leaves the primary thread where it is. *)
LEMMA ServedLater ==
  UNCHANGED vCore /\ Served(samples', posts', orphans', Vector(band'), Written')
    => Served(samples, posts, orphans, Vector(band), Written)'
<1> SUFFICES ASSUME UNCHANGED vCore, Served(samples', posts', orphans', Vector(band'), Written')
             PROVE  Served(samples, posts, orphans, Vector(band), Written)'
  OBVIOUS
<1>1. demod' = demod /\ want' = want /\ whole' = whole
  BY DEF vCore
<1> QED
  BY <1>1 DEF Served, OnTime, Late

LEMMA NothingWritten == VTypes /\ done = 0 => Written = 0
<1>1. VTypes /\ size # "none" => Units(size) \in {1, 2}
  BY DEF Units
<1>2. \A n \in {1, 2} : 0 * n = 0
  OBVIOUS
<1> QED
  BY <1>1, <1>2 DEF Written

LEMMA SizedNext == VTypes /\ Sized /\ [VectorsNext]_vectorsVars => Sized'
<1> SUFFICES ASSUME VTypes, Sized, [VectorsNext]_vectorsVars PROVE Sized'
  OBVIOUS
<1> USE DEF Sized
<1>1. CASE BbvOpen \/ BbvFwkOpen \/ BbvTune
  BY <1>1 DEF BbvOpen, BbvFwkOpen, BbvTune, SetBand, fwSession, vTuning
<1>2. CASE CloseFwk \/ CloseBb
  BY <1>2 DEF CloseFwk, CloseBb, SetBand, vTuning
<1>3. CASE BbvAnswer \/ BbvNothing \/ BbvBlock \/ BbvRead \/ BbvWrite \/ BbvPost \/ BbvRecover \/ BbvOverrun
  <2>1. UNCHANGED <<size, band, tunedBand>> /\ pass # "fwk" /\ pass' # "fwk"
    BY <1>3 DEF BbvAnswer, BbvNothing, BbvBlock, BbvRead, BbvWrite, BbvPost, BbvRecover, BbvOverrun,
                BbvKeeps, fwSession, vTuning
  <2> QED
    BY <2>1
<1>4. CASE AppOpen \/ AppTune \/ AppClose \/ BlockCame \/ PrimaryThread \/ UNCHANGED vectorsVars
  <2>1. UNCHANGED <<size, band, tunedBand, pass>>
    BY <1>4 DEF AppOpen, AppTune, AppClose, BlockCame, PrimaryThread, DemodWake, DemodLook, DemodCheck, DemodTake,
                DemodFeed, DemodRest, vTuning, vectorsVars
  <2> QED
    BY <2>1
<1> QED
  BY <1>1, <1>2, <1>3, <1>4 DEF VectorsNext, Closing, BbvThread

LEMMA ServedSetBand ==
  ASSUME VTypes, NEW b \in VBands, SetBand(b), NEW f \in Nat,
         Served(samples, posts, orphans, Vector(band), f)
  PROVE  Served(samples, posts, orphans', Vector(b), IF b = "FM" /\ band = "AM" THEN 0 ELSE f)
<1>1. samples \in Nat /\ posts \in Nat /\ orphans \in Nat /\ band \in VBands /\ posts + 0 = posts
  BY DEF VTypes
<1>2. /\ Vector("AM") = LOOP_V /\ Vector("FM") = 2 * LOOP_V
      /\ b \in {"AM", "FM"} /\ band \in {"AM", "FM"}
  BY <1>1, VectorSizes DEF VBands
<1>3. CASE b = "FM" /\ band = "AM"
  <2>1. orphans' = Least(orphans + (IF demod = "look" THEN posts + 1 ELSE posts), IF Reading THEN posts + 1 ELSE posts)
    BY <1>1, <1>3 DEF SetBand, UnderWay
  <2>2. orphans' \in Nat
    BY <1>1, <2>1 DEF Least
  <2> QED
    BY <1>1, <1>2, <1>3, <2>1, <2>2, ToLarger
<1>4. CASE b = "AM" /\ band = "FM"
  <2>1. orphans' = orphans
    BY <1>4 DEF SetBand
  <2> QED
    BY <1>1, <1>2, <1>4, <2>1, ToSmaller
<1>5. CASE b = band
  <2>1. orphans' = orphans
    BY <1>5 DEF SetBand
  <2> QED
    BY <1>2, <1>5, <2>1
<1> QED
  BY <1>2, <1>3, <1>4, <1>5

LEMMA BaseBandServes ==
  ASSUME VectorsInv, VTypes', ~wrapped',
         \/ Closing \/ BbvThread \/ AppOpen \/ AppTune \/ AppClose \/ BlockCame \/ UNCHANGED vectorsVars
  PROVE  Served(samples, posts, orphans, Vector(band), Written)'
<1> DEFINE v == Vector(band)
<1>0. /\ VTypes /\ (~wrapped => Served(samples, posts, orphans, v, Written))
      /\ samples \in Nat /\ posts \in Nat /\ orphans \in Nat /\ v \in Nat /\ v \in {LOOP_V, 2 * LOOP_V}
      /\ Written \in Nat /\ Written' \in Nat /\ samples' \in Nat
  <2>1. VTypes /\ band \in VBands /\ Written \in Nat
    BY WrittenNat DEF VectorsInv, VTypes
  <2>2. (VTypes => Written \in Nat)'
    BY WrittenNat, PTL
  <2> QED
    BY <2>1, <2>2, VectorOf DEF VectorsInv, VTypes
<1>1. UNCHANGED vCore
  BY DEF Closing, CloseFwk, CloseBb, BbvThread, BbvOpen, BbvFwkOpen, BbvAnswer, BbvTune, BbvRecover, BbvNothing,
         BbvBlock, BbvRead, BbvWrite, BbvOverrun, BbvPost, AppOpen, AppTune, AppClose, BlockCame,
         vectorsVars, BbvKeeps
<1>2. CASE AppOpen \/ AppTune \/ AppClose \/ BlockCame \/ BbvAnswer \/ BbvNothing \/ BbvBlock \/ BbvRead
             \/ UNCHANGED vectorsVars
  <2>1. UNCHANGED <<samples, posts, orphans, done, wrapped, size, band>>
    BY <1>2 DEF AppOpen, AppTune, AppClose, BlockCame, BbvAnswer, BbvNothing, BbvBlock, BbvRead, BbvKeeps,
                vBuffer, fwSession, vTuning, vCore, vectorsVars
  <2>2. Written' = Written
    BY <2>1 DEF Written
  <2>3. Served(samples', posts', orphans', Vector(band'), Written')
    BY <1>0, <2>1, <2>2
  <2> QED
    BY <1>1, <2>3, ServedLater
<1>3. CASE CloseBb \/ BbvOpen \/ BbvRecover \/ BbvOverrun
  <2>1. EmptySamples /\ posts' = posts /\ band' = band
    BY <1>3 DEF CloseBb, BbvOpen, BbvRecover, BbvOverrun, BbvKeeps
  <2>2. Served(samples', posts', orphans', v, Written')
    BY <1>0, <2>1, Emptying
  <2> QED
    BY <1>1, <2>1, <2>2, ServedLater
<1>4. CASE CloseFwk \/ BbvFwkOpen \/ BbvTune
  <2>1. PICK b \in VBands : /\ SetBand(b)
                            /\ b = "FM" \/ done = 0
                            /\ size' = size \/ done = 0
    <3>1. "FM" \in VBands
      BY DEF VBands
    <3>2. pass \in {"events", "fwk"} => done = 0
      BY <1>0 DEF VTypes
    <3>3. CASE CloseFwk
      BY <3>1, <3>3 DEF CloseFwk
    <3>4. CASE BbvFwkOpen
      <4>1. tunedBand \in VBands
        BY <1>0 DEF VTypes
      <4> QED
        BY <3>2, <3>4, <4>1 DEF BbvFwkOpen
    <3>5. CASE BbvTune
      <4>1. \E b \in VBands : SetBand(b)
        BY <3>5 DEF BbvTune
      <4>2. done = 0
        BY <3>2, <3>5 DEF BbvTune
      <4> QED
        BY <4>1, <4>2
    <3> QED
      BY <1>4, <3>3, <3>4, <3>5
  <2>2. samples' = samples /\ posts' = posts /\ done' = done /\ wrapped' = wrapped /\ band' = b
    BY <1>4, <2>1 DEF CloseFwk, BbvFwkOpen, BbvTune, SetBand
  <2>3. Served(samples, posts, orphans', Vector(b), IF b = "FM" /\ band = "AM" THEN 0 ELSE Written)
    BY <1>0, <2>1, <2>2, ServedSetBand
  <2>4. Written' = IF b = "FM" /\ band = "AM" THEN 0 ELSE Written
    <3>1. CASE done = 0
      <4>1. (VTypes /\ done = 0 => Written = 0)'
        BY NothingWritten, PTL
      <4>2. Written = 0 /\ Written' = 0
        BY <1>0, <2>2, <3>1, <4>1, NothingWritten
      <4> QED
        BY <4>2
    <3>2. CASE done # 0
      <4>1. b = "FM" /\ band' = "FM" /\ size' = size /\ size \in {"AM", "FM", "none"} /\ band \in {"AM", "FM"}
        BY <1>0, <2>1, <2>2, <3>2 DEF VTypes, VBands
      <4>2. CASE band = "FM"
        BY <2>2, <4>1, <4>2 DEF Written
      <4>3. CASE band = "AM"
        <5>1. size # "FM"
          BY <1>0, <3>2, <4>3 DEF VectorsInv, Sized, VTypes
        <5> QED
          BY <4>1, <4>3, <5>1 DEF Written
      <4> QED
        BY <4>1, <4>2, <4>3
    <3> QED
      BY <3>1, <3>2
  <2>5. Served(samples', posts', orphans', Vector(band'), Written')
    BY <2>2, <2>3, <2>4
  <2> QED
    BY <1>1, <2>5, ServedLater
<1>5. CASE BbvWrite
  <2>1. UNCHANGED <<posts, orphans, wrapped, size, band>>
    BY <1>5 DEF BbvWrite, BbvKeeps
  <2>2. Served(samples, posts, orphans, v, Written) /\ samples <= SAMPLES
    BY <1>0, <2>1 DEF Served
  <2>3. BlockUnits \in {1, 2} /\ (size # "none" => BlockUnits = Units(size))
    BY <1>0, BlockUnitsOf
  <2>4. /\ SAMPLES \in Nat /\ WORD_V \in Nat /\ WORD_V > SAMPLES
        /\ SAMPLES - samples \in Nat /\ SAMPLES - samples < WORD_V
    BY <1>0, <2>2, VectorSizes
  <2>5. (SAMPLES - samples) % WORD_V = SAMPLES - samples
    BY <2>4, SmallCount
  <2>6. CASE SAMPLES - samples >= BlockUnits
    <3>1. samples + BlockUnits \in Nat /\ samples + BlockUnits <= SAMPLES /\ samples + BlockUnits < WORD_V
      BY <1>0, <2>3, <2>4, <2>6
    <3>2. samples' = samples + BlockUnits
      <4>1. (samples + BlockUnits) % WORD_V = samples + BlockUnits
        BY <2>4, <3>1, SmallCount
      <4>2. samples' = (samples + BlockUnits) % WORD_V
        BY <1>5, <2>5, <2>6 DEF BbvWrite
      <4> QED
        BY <4>1, <4>2
    <3>3. done' \in {done, done + 1}
      BY <1>5 DEF BbvWrite
    <3>4. Written' <= Written + BlockUnits
      <4>1. CASE size = "none" \/ (size = "AM" /\ band = "FM")
        <5>1. Written' = 0
          BY <2>1, <4>1 DEF Written
        <5> QED
          BY <1>0, <2>3, <5>1
      <4>2. CASE ~(size = "none" \/ (size = "AM" /\ band = "FM"))
        <5>1. Written = done * Units(size) /\ Written' = done' * Units(size)
          BY <2>1, <4>2 DEF Written
        <5>2. \A n \in {1, 2}, k \in Nat : (k + 1) * n <= k * n + n /\ k * n <= k * n + n
          OBVIOUS
        <5>3. done \in Nat
          BY <1>0 DEF VTypes
        <5> QED
          BY <2>3, <3>3, <4>2, <5>1, <5>2, <5>3
      <4> QED
        BY <4>1, <4>2
    <3>5. BlockUnits \in Nat /\ samples' >= samples + BlockUnits /\ samples' <= SAMPLES
      BY <1>0, <2>3, <3>1, <3>2
    <3>6. Served(samples', posts, orphans, v, Written')
      BY <1>0, <2>2, <3>4, <3>5, MoreSamples
    <3>7. Served(samples', posts', orphans', Vector(band'), Written')
      BY <2>1, <3>6
    <3> QED
      BY <1>1, <3>7, ServedLater
  <2>7. CASE ~(SAMPLES - samples >= BlockUnits)
    <3>1. samples' = samples /\ done' = done
      BY <1>5, <2>5, <2>7 DEF BbvWrite
    <3>2. Written' = Written
      BY <2>1, <3>1 DEF Written
    <3>3. Served(samples', posts', orphans', Vector(band'), Written')
      BY <2>1, <2>2, <3>1, <3>2
    <3> QED
      BY <1>1, <3>3, ServedLater
  <2> QED
    BY <2>6, <2>7
<1>6. CASE BbvPost
  <2>1. UNCHANGED <<samples, wrapped, size, band>> /\ done' = 0
    BY <1>6 DEF BbvPost
  <2>2. Served(samples, posts, orphans, v, Written) /\ samples <= SAMPLES
    BY <1>0, <2>1 DEF Served
  <2>3. Written' = 0
    <3>1. (VTypes /\ done = 0 => Written = 0)'
      BY NothingWritten, PTL
    <3> QED
      BY <2>1, <3>1
  <2>4. Served(samples, posts, orphans, v, 0)
    <3>1. samples >= samples + 0 /\ 0 <= Written + 0 /\ 0 \in Nat
      BY <1>0
    <3> QED
      BY <1>0, <2>2, <3>1, MoreSamples
  <2>5. CASE ~VectorThere
    <3>1. posts' = posts /\ orphans' = orphans
      BY <1>6, <2>5 DEF BbvPost
    <3>2. Served(samples', posts', orphans', Vector(band'), Written')
      BY <2>1, <2>3, <2>4, <3>1
    <3> QED
      BY <1>1, <3>2, ServedLater
  <2>6. CASE VectorThere /\ size = "AM" /\ band = "FM"
    <3>1. posts' = posts + 1 /\ orphans' = orphans + 1
      BY <1>6, <2>6 DEF BbvPost
    <3>2. Served(samples, posts + 1, orphans + 1, v, 0)
      BY <1>0, <2>4, PostedForNothing
    <3>3. Served(samples', posts', orphans', Vector(band'), Written')
      BY <2>1, <2>3, <3>1, <3>2
    <3> QED
      BY <1>1, <3>3, ServedLater
  <2>7. CASE VectorThere /\ ~(size = "AM" /\ band = "FM")
    <3>1. posts' = posts + 1 /\ orphans' = orphans
      BY <1>6, <2>7 DEF BbvPost
    <3>2. size \in {"AM", "FM"} /\ band \in {"AM", "FM"} /\ samples >= Vector(size) /\ done >= LOOP_V
      BY <1>0, <1>6, <2>7 DEF BbvPost, VectorThere, VTypes, VBands
    <3>3. Written = done * Units(size)
      BY <2>7, <3>2 DEF Written
    <3>4. Vector(size) >= v
      BY <2>7, <3>2, VectorSizes
    <3>5. Written >= Vector(size)
      <4>1. done \in Nat /\ LOOP_V \in Nat
        BY <1>0, VectorSizes DEF VTypes
      <4>2. CASE size = "AM"
        BY <3>2, <3>3, <4>1, <4>2, VectorSizes
      <4>3. CASE size = "FM"
        BY <3>2, <3>3, <4>1, <4>3, VectorSizes
      <4> QED
        BY <3>2, <4>2, <4>3
    <3>6. Written >= v /\ samples >= v
      <4>1. Vector(size) \in Nat
        BY <3>2, VectorSizes
      <4> QED
        BY <1>0, <3>2, <3>4, <3>5, <4>1
    <3>7. Served(samples, posts + 1, orphans, v, 0)
      BY <1>0, <2>2, <3>6, OnePosted
    <3>8. Served(samples', posts', orphans', Vector(band'), Written')
      BY <2>1, <2>3, <3>1, <3>7
    <3> QED
      BY <1>1, <3>8, ServedLater
  <2> QED
    BY <2>5, <2>6, <2>7
<1> QED
  BY <1>2, <1>3, <1>4, <1>5, <1>6 DEF Closing, BbvThread

LEMMA PrimaryServes ==
  ASSUME VectorsInv, ~wrapped', PrimaryThread
  PROVE  Served(samples, posts, orphans, Vector(band), Written)'
<1> DEFINE v == Vector(band)
           f == Written
<1>1. UNCHANGED <<wrapped, band, size, done>>
  BY DEF PrimaryThread, DemodWake, DemodLook, DemodCheck, DemodTake, DemodFeed, DemodRest, vBuffer
<1>2. v' = v /\ f' = f
  BY <1>1 DEF Written
<1>3. /\ VTypes /\ Served(samples, posts, orphans, v, f)
      /\ samples \in Nat /\ posts \in Nat /\ orphans \in Nat /\ f \in Nat
      /\ v \in Nat /\ v >= 1 /\ v \in {LOOP_V, 2 * LOOP_V} /\ samples <= SAMPLES
  <2>1. VTypes /\ band \in VBands /\ f \in Nat /\ Served(samples, posts, orphans, v, f)
    BY <1>1, WrittenNat DEF VectorsInv, VTypes
  <2> QED
    BY <2>1, VectorOf DEF VTypes, Served
<1>4. /\ LOOP_V \in Nat /\ LOOP_V >= 1 /\ Vector("AM") = LOOP_V /\ Vector("FM") = 2 * LOOP_V
      /\ SAMPLES \in Nat /\ WORD_V \in Nat /\ WORD_V > SAMPLES
      /\ want \in {0, LOOP_V, 2 * LOOP_V} /\ want \in Nat
  BY <1>3, VectorSizes DEF VTypes
<1> HIDE DEF v, f
<1>5. CASE DemodWake
  <2>1. /\ samples' = samples /\ orphans' = orphans /\ posts' = posts - 1
        /\ demod = "wait" /\ demod' = "look"
    BY <1>5 DEF DemodWake, vBuffer
  <2>2. Backed(posts - orphans, samples, v, f)
    BY <1>3, <2>1 DEF Served
  <2>3. posts' + 1 - orphans' = posts - orphans
    BY <1>3, <2>1
  <2>4. Backed(posts' + 1 - orphans', samples', v', f')
    BY <1>2, <2>1, <2>2, <2>3
  <2> QED
    BY <1>3, <2>1, <2>4 DEF Served, v, f
<1>6. CASE DemodLook /\ samples = 0
  <2>1. /\ samples' = samples /\ posts' = posts /\ orphans' = Least(Fewer(orphans), posts)
        /\ demod = "look" /\ demod' = "wait"
    BY <1>6 DEF DemodLook
  <2>2. Backed(posts + 1 - orphans, samples, v, f)
    BY <1>3, <2>1 DEF Served
  <2>3. posts + 1 - orphans <= 0
    <3>1. posts + 1 - orphans \in Int
      BY <1>3
    <3>2. posts + 1 - orphans >= 1 => samples >= v + f
      BY <1>3, <2>2, <3>1, BackedFacts
    <3> QED
      BY <1>3, <1>6, <3>1, <3>2
  <2>4. orphans' = posts
    BY <1>3, <2>1, <2>3 DEF Least, Fewer
  <2>5. Backed(posts' - orphans', samples', v', f')
    <3>1. posts' - orphans' \in Int /\ posts' - orphans' <= 0
      BY <1>3, <2>1, <2>4
    <3> QED
      BY <1>2, <1>3, <2>1, <3>1, NothingOwed
  <2> QED
    BY <1>3, <2>1, <2>5 DEF Served, v, f
<1>7. CASE DemodLook /\ samples # 0
  <2>1. /\ samples' = samples /\ posts' = posts /\ orphans' = orphans /\ want' = ToRead
        /\ demod = "look" /\ demod' = "check"
    BY <1>7 DEF DemodLook
  <2>2. whole' <=> ToRead >= v
    BY <1>7 DEF DemodLook, v
  <2>3. Backed(posts + 1 - orphans, samples, v, f) /\ posts + 1 - orphans \in Int
    BY <1>3, <2>1 DEF Served
  <2>4. posts + 1 - orphans >= 1 => samples >= v + f
    BY <1>3, <2>3, BackedFacts
  <2>5. orphans = 0 => samples >= v + f
    BY <1>3, <2>4
  <2>6. ToRead \in {LOOP_V, 2 * LOOP_V} /\ ToRead \in Nat
    BY <1>4 DEF ToRead
  <2>7. ~whole' => orphans' > 0
    <3>1. SUFFICES ASSUME ~whole', orphans = 0 PROVE FALSE
      BY <1>3, <2>1
    <3>2. ToRead < v
      BY <1>3, <2>2, <2>6, <3>1
    <3>3. ToRead = LOOP_V /\ v = 2 * LOOP_V
      BY <1>3, <1>4, <2>6, <3>2
    <3>4. samples < 2 * LOOP_V
      BY <1>3, <1>4, <3>3 DEF ToRead
    <3> QED
      BY <1>3, <2>5, <3>1, <3>3, <3>4
  <2>8. CASE orphans > 0
    <3>1. Backed(posts' + 1 - orphans', samples', v', f') /\ orphans' > 0
      BY <1>2, <2>1, <2>3, <2>8
    <3> QED
      BY <1>3, <2>1, <2>7, <3>1 DEF Served, Late, v, f
  <2>9. CASE orphans = 0
    <3>1. /\ samples >= ToRead /\ ToRead >= v
      <4>1. ToRead >= v
        BY <1>3, <2>1, <2>2, <2>6, <2>7, <2>9
      <4>2. CASE ToRead = 2 * LOOP_V
        <5>1. samples >= 2 * LOOP_V
          BY <1>3, <1>4, <4>2 DEF ToRead
        <5> QED
          BY <4>1, <4>2, <5>1
      <4>3. CASE ToRead = LOOP_V
        <5>1. v = LOOP_V
          BY <1>3, <1>4, <4>1, <4>3
        <5> QED
          BY <1>3, <2>5, <2>9, <4>1, <4>3, <5>1
      <4> QED
        BY <2>6, <4>2, <4>3
    <3>2. Backed(posts + 1 - Extra(ToRead, v) - orphans, samples - ToRead + v, v, f)
      <4>1. CASE ToRead = v
        <5>1. Extra(ToRead, v) = 0 /\ samples - ToRead + v = samples /\ posts + 1 - 0 - orphans = posts + 1 - orphans
          BY <1>3, <4>1 DEF Extra
        <5> QED
          BY <2>3, <5>1
      <4>2. CASE ToRead # v
        <5>1. ToRead = 2 * LOOP_V /\ v = LOOP_V /\ Extra(ToRead, v) = 1
          BY <1>3, <1>4, <2>6, <3>1, <4>2 DEF Extra
        <5>2. Backed((posts + 1 - orphans) - 1, samples - v, v, f)
          BY <1>3, <2>3, OneTaken
        <5>3. (posts + 1 - orphans) - 1 = posts + 1 - 1 - orphans /\ samples - ToRead + v = samples - v
          BY <1>3, <1>4, <5>1
        <5> QED
          BY <5>1, <5>2, <5>3
      <4> QED
        BY <4>1, <4>2
    <3>3. OnTime(samples, posts, orphans, v, f)'
      BY <1>2, <2>1, <3>1, <3>2 DEF OnTime
    <3> QED
      BY <1>3, <2>1, <2>7, <3>3 DEF Served, v, f
  <2> QED
    BY <1>3, <2>8, <2>9
<1>8. CASE DemodCheck /\ samples < want
  <2>1. /\ UNCHANGED <<samples, posts, orphans>>
        /\ demod = "check" /\ demod' = "feed" /\ want' = 0
    BY <1>8 DEF DemodCheck, vBuffer
  <2>2. Late(samples, posts, orphans, v, f)
    BY <1>3, <1>4, <1>8, <2>1 DEF Served, OnTime
  <2>3. Late(samples, posts, orphans, v, f)' /\ orphans' > 0
    BY <1>2, <2>1, <2>2 DEF Late
  <2> QED
    BY <1>3, <2>1, <2>3 DEF Served, v, f
<1>9. CASE DemodCheck /\ ~(samples < want)
  <2>1. /\ UNCHANGED <<samples, posts, orphans, want, whole>>
        /\ demod = "check" /\ demod' = "take" /\ samples >= want
    BY <1>3, <1>4, <1>9 DEF DemodCheck, vBuffer
  <2>2. OnTime(samples, posts, orphans, v, f)
    <3>1. CASE OnTime(samples, posts, orphans, v, f)
      BY <3>1
    <3>2. CASE Late(samples, posts, orphans, v, f)
      <4>1. Backed(posts + 1 - orphans, samples, v, f) /\ posts + 1 - orphans \in Int
        BY <1>3, <3>2 DEF Late
      <4>2. CASE want <= v
        <5>1. Extra(want, v) = 0 /\ samples - want + v >= samples + 0 /\ samples - want + v \in Int
              /\ posts + 1 - 0 - orphans = posts + 1 - orphans /\ f <= f + 0
          BY <1>3, <1>4, <4>2 DEF Extra
        <5>2. Backed(posts + 1 - orphans, samples - want + v, v, f)
          BY <1>3, <4>1, <5>1, MoreThere
        <5> QED
          BY <2>1, <5>1, <5>2 DEF OnTime
      <4>3. CASE want > v
        <5>1. Extra(want, v) = 1 /\ samples - want + v = samples - v
              /\ posts + 1 - 1 - orphans = (posts + 1 - orphans) - 1
          BY <1>3, <1>4, <4>3 DEF Extra
        <5>2. Backed((posts + 1 - orphans) - 1, samples - v, v, f)
          BY <1>3, <4>1, OneTaken
        <5> QED
          BY <2>1, <5>1, <5>2 DEF OnTime
      <4> QED
        BY <1>3, <1>4, <4>2, <4>3
    <3> QED
      BY <1>3, <2>1, <3>1, <3>2 DEF Served
  <2>3. OnTime(samples, posts, orphans, v, f)'
    BY <1>2, <2>1, <2>2 DEF OnTime
  <2>4. ~whole' => orphans' > 0
    BY <1>3, <2>1 DEF Served
  <2> QED
    BY <1>3, <2>1, <2>3, <2>4 DEF Served, v, f
<1>10. CASE DemodTake
  <2>1. /\ UNCHANGED <<posts, orphans, want>> /\ samples' = (samples - want) % WORD_V
        /\ demod = "take" /\ demod' = "feed" /\ want # 0
    BY <1>3, <1>10 DEF DemodTake, VTypes
  <2>2. samples >= want /\ Backed(posts + 1 - Extra(want, v) - orphans, samples - want + v, v, f)
    BY <1>3, <2>1 DEF Served, OnTime
  <2>3. samples' = samples - want /\ samples' <= SAMPLES
    <3>1. samples - want \in Nat /\ samples - want < WORD_V /\ samples - want <= SAMPLES
      BY <1>3, <1>4, <2>2
    <3> QED
      BY <1>4, <2>1, <3>1, SmallCount
  <2>4. Backed(posts - Extra(want, v) - orphans, samples - want, v, f)
    <3>1. /\ posts + 1 - Extra(want, v) - orphans \in Int /\ samples - want + v \in Int
          /\ (posts + 1 - Extra(want, v) - orphans) - 1 = posts - Extra(want, v) - orphans
          /\ (samples - want + v) - v = samples - want
      BY <1>3, <1>4 DEF Extra
    <3>2. \A w \in Int : w <= v => Backed((posts + 1 - Extra(want, v) - orphans) - 1, (samples - want + v) - w, v, f)
      BY <1>3, <2>2, <3>1, BackedFacts
    <3> QED
      BY <1>3, <3>1, <3>2
  <2>5. Backed(posts - Extra(want, v) - orphans, samples, v, f)'
    BY <1>2, <2>1, <2>3, <2>4
  <2>6. ~whole' => orphans' > 0
    <3>1. whole' <=> whole
      BY <1>10, <2>2 DEF DemodTake
    <3> QED
      BY <1>3, <2>1, <3>1 DEF Served
  <2> QED
    BY <2>1, <2>3, <2>5, <2>6 DEF Served, v, f
<1>11. CASE DemodFeed
  <2>1. /\ UNCHANGED <<posts, samples>> /\ demod = "feed" /\ demod' = "wait" /\ orphans' = Least(Spent, posts)
    BY <1>11 DEF DemodFeed
  <2>2. /\ posts - Spent \in Int /\ Spent \in Nat /\ Backed(posts - Spent, samples, v, f)
    <3>1. CASE want = 0
      <4>1. orphans > 0 /\ Backed(posts + 1 - orphans, samples, v, f)
        BY <1>3, <2>1, <3>1 DEF Served, Late
      <4>2. Spent = orphans - 1 /\ posts - Spent = posts + 1 - orphans
        BY <1>3, <3>1, <4>1 DEF Spent, Fewer, v
      <4> QED
        BY <1>3, <4>1, <4>2
    <3>2. CASE want # 0
      <4>1. Backed(posts - Extra(want, v) - orphans, samples, v, f)
        BY <1>3, <2>1, <3>2 DEF Served
      <4>2. Spent \in Nat /\ posts - Spent = posts - Extra(want, v) - orphans
        BY <1>3, <3>2 DEF Spent, Extra, v
      <4> QED
        BY <1>3, <4>1, <4>2
    <3> QED
      BY <3>1, <3>2
  <2>3. Backed(posts - orphans, samples, v, f)'
    <3>1. CASE orphans' = Spent
      BY <1>2, <2>1, <2>2, <3>1
    <3>2. CASE orphans' = posts
      <4>1. posts' - orphans' \in Int /\ posts' - orphans' <= 0
        BY <1>3, <2>1, <3>2
      <4> QED
        BY <1>2, <1>3, <2>1, <4>1, NothingOwed
    <3> QED
      BY <2>1, <3>1, <3>2 DEF Least
  <2> QED
    BY <1>3, <2>1, <2>3 DEF Served, v, f
<1> QED
  BY <1>5, <1>6, <1>7, <1>8, <1>9, <1>10, <1>11 DEF PrimaryThread

LEMMA VectorsInvNext == VectorsInv /\ [VectorsNext]_vectorsVars => VectorsInv'
<1> SUFFICES ASSUME VectorsInv, [VectorsNext]_vectorsVars PROVE VectorsInv'
  OBVIOUS
<1>1. VTypes' /\ Sized'
  BY VectorsTypesNext, SizedNext DEF VectorsInv
<1>2. ~wrapped' => Served(samples, posts, orphans, Vector(band), Written)'
  BY <1>1, BaseBandServes, PrimaryServes DEF VectorsNext
<1> QED
  BY <1>1, <1>2 DEF VectorsInv

LEMMA VectorsInvInit == VectorsInit => VectorsInv
<1> SUFFICES ASSUME VectorsInit PROVE VectorsInv
  OBVIOUS
<1>1. VTypes /\ Sized
  BY DEF VectorsInit, VTypes, Sized, VBands
<1>2. Backed(posts - orphans, samples, Vector(band), Written)
  BY DEF VectorsInit, Backed
<1>3. samples <= SAMPLES
  BY VectorSizes DEF VectorsInit
<1>4. Served(samples, posts, orphans, Vector(band), Written)
  BY <1>2, <1>3 DEF VectorsInit, Served
<1> QED
  BY <1>1, <1>4 DEF VectorsInv

(* Whatever the bounds, a vector that is not whole costs an orphaned post. *)
THEOREM VectorsAreWhole == VectorsSpec => []VectorsWhole
<1>1. VectorsInv => VectorsWhole
  BY DEF VectorsInv, Served, VectorsWhole
<1> QED
  BY <1>1, VectorsInvInit, VectorsInvNext, PTL DEF VectorsSpec
=============================================================================
