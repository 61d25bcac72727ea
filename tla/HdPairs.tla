------------------------------ MODULE HdPairs -------------------------------
(***************************************************************************)
(* The IQ samples of the HD radio framework on their way from the tuner to *)
(* the base band (hd/src/framework/tchdr_bbinput.c,                        *)
(* peri/src/i2s/dev_iq_i2s.c).  The IQ input thread has the driver read a  *)
(* block, all of its I and then all of its Q, and writes it into           *)
(* iqReadBuffer; the base band input thread takes the I and the Q of a     *)
(* block out again, in two reads, and pairs them.  It empties the buffer   *)
(* itself (opening, recovery); the application empties it when it closes,  *)
(* at any moment.  As in AnalogAudio the check and the critical section of *)
(* a read are two steps.                                                   *)
(***************************************************************************)
EXTENDS CircBuff

CONSTANTS PART,       \* the cells of the I, and of the Q, of a block
          AHEAD,      \* a block is taken when more than this is there
          LOOP,       \* blocks per pass of the base band input thread (8)
          OPENS_IQ,   \* bound on the openings
          FAULTS_IQ   \* bound on overruns and short reads together

Blocks  == 0 .. 1     \* numbered in turn
IqCells == {"I", "Q"} \X Blocks

(* A read of a whole block asks for a number of samples, and the check     *)
(* before it compares a number of samples with a number of bytes: there    *)
(* must be more than two blocks when there are eight in a pass.            *)
ASSUME PairsAssumption == /\ PART \in Nat \ {0} /\ LOOP \in Nat \ {0}
                          /\ AHEAD \in 2 * PART .. SIZE - 1
                          /\ IqCells \subseteq Elements

VARIABLES
  iqReadBuffer,
  hdOpen,      \* tchdrsvc_getOpenStatus
  hdClosing,   \* what tchdr_close does next, or "no"
  asking,      \* an opening is on its way to the base band input thread
  opens,       \* openings so far
  needed,      \* bbReadBlockSize and numInputSamplesNeeded are set
  iqStart,     \* the driver runs and fIqInputThreadStart is set
  bbStart,     \* fBbInputThreadStart
  iqDue,       \* a recovery is due
  faults,      \* overruns and short reads so far
  iqin,        \* where the IQ input thread is
  readIQ01,    \* the number of the block in its buffer
  channel,         \* the cells of a channel it was told it has channel
  bbin,        \* where the base band input thread is
  blocks,      \* accumulatedSampleCount, in blocks
  iPart, qPart,\* what it has read of a block
  strayed      \* the buffer was emptied during a read, or a short block written, and it was not emptied since

iqSession == <<hdOpen, hdClosing, asking, opens>>
iqFlags   == <<needed, iqStart, bbStart, iqDue, faults>>
iqReading == <<iqin, readIQ01, channel>>
pairing   == <<blocks, iPart, qPart>>
pairsVars == <<iqReadBuffer, strayed, iqSession, iqFlags, iqReading, bbin, pairing>>

PairsInit ==
  /\ iqReadBuffer = Fresh([c \in Cells |-> Zero]) /\ strayed = FALSE
  /\ hdOpen = FALSE /\ hdClosing = "no" /\ asking = FALSE /\ opens = 0
  /\ needed = FALSE /\ iqStart = FALSE /\ bbStart = FALSE /\ iqDue = FALSE /\ faults = 0
  /\ iqin = "idle" /\ readIQ01 = 0 /\ channel = 0
  /\ bbin = "events" /\ blocks = 0 /\ iPart = <<>> /\ qPart = <<>>

-----------------------------------------------------------------------------

(* tchdrbbinput_resetIqInputBuffer.  A pair that has been read is not      *)
(* mended by it.                                                           *)
Empty == /\ iqReadBuffer' = Emptied(iqReadBuffer)
         /\ strayed' = (bbin \in {"checkI", "takeI", "checkQ", "takeQ"} \/ (strayed /\ bbin = "hand"))

(* The application, which waits for its opening, and closes at any time.   *)
AskOpen == /\ ~hdOpen /\ hdClosing = "no" /\ ~asking /\ opens < OPENS_IQ
           /\ asking' = TRUE /\ opens' = opens + 1
           /\ UNCHANGED <<iqReadBuffer, strayed, hdOpen, hdClosing, iqFlags, iqReading, bbin, pairing>>

CloseSession == /\ hdOpen
                /\ hdOpen' = FALSE /\ hdClosing' = "iq"
                /\ UNCHANGED <<iqReadBuffer, strayed, asking, opens, iqFlags, iqReading, bbin, pairing>>

IqClose == /\ hdClosing = "iq"
           /\ iqStart' = FALSE /\ hdClosing' = "bb"
           /\ UNCHANGED <<iqReadBuffer, strayed, hdOpen, asking, opens, needed, bbStart, iqDue, faults,
                          iqReading, bbin, pairing>>

BbClose == /\ hdClosing = "bb"
           /\ bbStart' = FALSE /\ needed' = FALSE /\ hdClosing' = "no"
           /\ Empty
           /\ UNCHANGED <<hdOpen, asking, opens, iqStart, iqDue, faults, iqReading, bbin, pairing>>

-----------------------------------------------------------------------------
(* The IQ input thread.                                                    *)

IqRest == <<iqSession, needed, iqStart, bbin, pairing>>

IqBeginRead == /\ iqin = "idle" /\ hdOpen /\ iqStart /\ needed
               /\ iqin' = "reading"
               /\ UNCHANGED <<IqRest, iqReadBuffer, strayed, bbStart, iqDue, faults, readIQ01, channel>>

IqRead == /\ iqin = "reading" /\ iqStart
          /\ readIQ01' = 1 - readIQ01 /\ channel' = PART
          /\ iqin' = "put"
          /\ UNCHANGED <<IqRest, iqReadBuffer, strayed, bbStart, iqDue, faults>>

(* Both channels are short: the driver says so and copies nothing. *)
IqReadShort == /\ iqin = "reading" /\ iqStart /\ faults < FAULTS_IQ
               /\ faults' = faults + 1
               /\ channel' \in 1 .. PART - 1
               /\ iqin' = "put"
               /\ UNCHANGED <<IqRest, iqReadBuffer, strayed, bbStart, iqDue, readIQ01>>

IqOverrun == /\ iqin = "reading" /\ iqStart /\ faults < FAULTS_IQ
             /\ faults' = faults + 1 /\ iqDue' = TRUE
             /\ iqin' = "idle"
             /\ UNCHANGED <<IqRest, iqReadBuffer, strayed, bbStart, readIQ01, channel>>

IqReadFails == /\ iqin = "reading" /\ ~iqStart
               /\ iqin' = "idle"
               /\ UNCHANGED <<IqRest, iqReadBuffer, strayed, bbStart, iqDue, faults, readIQ01, channel>>

BlockOf(n) == Filled(<<"I", n>>, PART) \o Filled(<<"Q", n>>, PART)

Room == AvailSpace(iqReadBuffer)

(* All of it or nothing; the space can only grow between CB_write's check  *)
(* and its copying.  And, wrongly, as much as there is space for.          *)
AsMuch       == IF Room < 2 * channel THEN Room ELSE 2 * channel
AllOrNothing == IF Room >= 2 * channel THEN 2 * channel ELSE 0

IqPut == /\ iqin = "put"
         /\ iqReadBuffer' = IF AllOrNothing > 0 THEN Put(iqReadBuffer, SubSeq(BlockOf(readIQ01), 1, AllOrNothing))
                                                ELSE iqReadBuffer
         /\ strayed' = (strayed \/ (Room >= 2 * channel /\ channel < PART))
         /\ channel' = 0 /\ iqin' = "mark"
         /\ UNCHANGED <<IqRest, bbStart, iqDue, faults, readIQ01>>

IqMark == /\ iqin = "mark"
          /\ bbStart' = TRUE /\ iqin' = "idle"
          /\ UNCHANGED <<IqRest, iqReadBuffer, strayed, iqDue, faults, readIQ01, channel>>

IqThread == IqBeginRead \/ IqRead \/ IqReadShort \/ IqOverrun \/ IqReadFails \/ IqPut \/ IqMark

-----------------------------------------------------------------------------
(* The base band input thread: an opening or a recovery, ...               *)

BbRest == <<hdOpen, hdClosing, opens, bbStart, faults, iqReading, pairing>>

BbOpen == /\ bbin = "events" /\ asking
          /\ needed' = TRUE /\ Empty
          /\ bbin' = "start"
          /\ UNCHANGED <<BbRest, asking, iqStart, iqDue>>

BbStartIq == /\ bbin \in {"start", "restart"}
             /\ iqStart' = TRUE
             /\ bbin' = IF bbin = "start" THEN "answer" ELSE "loop"
             /\ UNCHANGED <<BbRest, iqReadBuffer, strayed, asking, needed, iqDue>>

(* The answer passes the service thread, which marks the framework open.   *)
BbAnswer == /\ bbin = "answer" /\ hdClosing = "no"
            /\ hdOpen' = TRUE /\ asking' = FALSE
            /\ bbin' = "loop"
            /\ UNCHANGED <<iqReadBuffer, strayed, hdClosing, opens, iqFlags, iqReading, pairing>>


(* Wrongly, the driver is stopped and not started again. *)
NotRestarted == "loop"
Recovered    == "restart"

BbRecover == /\ bbin = "events" /\ iqDue /\ ~asking
             /\ iqDue' = FALSE /\ iqStart' = FALSE /\ bbStart' = FALSE
             /\ Empty
             /\ bbin' = Recovered
             /\ UNCHANGED <<iqSession, needed, faults, iqReading, pairing>>

BbNothing == /\ bbin = "events" /\ ~asking
             /\ bbin' = "loop"
             /\ UNCHANGED <<iqReadBuffer, strayed, iqSession, iqFlags, iqReading, pairing>>

-----------------------------------------------------------------------------
(* ... then LOOP blocks, for which it waits.                               *)

BbKeeps == <<iqSession, iqFlags, iqReading>>

(* tchdr_u32tos32: a count that has wrapped is the largest there is. *)
AvailData == IF iqReadBuffer.elemCount > SIZE THEN SIZE + 1 ELSE iqReadBuffer.elemCount

EnoughThere == AvailData > AHEAD

BbLook == /\ bbin = "loop" /\ needed /\ blocks < LOOP
          /\ hdOpen /\ bbStart /\ EnoughThere
          /\ bbin' = "checkI"
          /\ UNCHANGED <<BbKeeps, iqReadBuffer, strayed, pairing>>

TooFew == iqReadBuffer.elemCount < PART

(* A size that a close has cleared makes it a read of nothing.  The Q is   *)
(* read although the I was not there, and lost then.                       *)
BbCheckI == /\ bbin = "checkI"
            /\ bbin' = CASE ~needed -> "loop"
                         [] needed /\ TooFew -> "checkQ"
                         [] OTHER -> "takeI"
            /\ UNCHANGED <<BbKeeps, iqReadBuffer, strayed, pairing>>

BbTakeI == /\ bbin = "takeI"
           /\ iPart' = Read(iqReadBuffer, PART) /\ iqReadBuffer' = Taken(iqReadBuffer, PART)
           /\ bbin' = "checkQ"
           /\ UNCHANGED <<BbKeeps, strayed, blocks, qPart>>

BbCheckQ == /\ bbin = "checkQ"
            /\ IF TooFew THEN bbin' = "loop" /\ iPart' = <<>>
                         ELSE bbin' = "takeQ" /\ UNCHANGED iPart
            /\ UNCHANGED <<BbKeeps, iqReadBuffer, strayed, blocks, qPart>>

BbTakeQ == /\ bbin = "takeQ"
           /\ iqReadBuffer' = Taken(iqReadBuffer, PART)
           /\ IF iPart = <<>> THEN bbin' = "loop" /\ UNCHANGED qPart
                              ELSE bbin' = "hand" /\ qPart' = Read(iqReadBuffer, PART)
           /\ UNCHANGED <<BbKeeps, strayed, blocks, iPart>>

(* The pairs are packed and handed on; what becomes of them is the subject *)
(* of HdVectors.                                                           *)
BbHand == /\ bbin = "hand"
          /\ iPart' = <<>> /\ qPart' = <<>> /\ blocks' = blocks + 1
          /\ bbin' = "loop"
          /\ UNCHANGED <<BbKeeps, iqReadBuffer, strayed>>

BbEndLoop == /\ bbin = "loop" /\ (~needed \/ blocks >= LOOP)
             /\ blocks' = 0 /\ bbin' = "events"
             /\ UNCHANGED <<BbKeeps, iqReadBuffer, strayed, iPart, qPart>>

BbThread == \/ BbOpen \/ BbStartIq \/ BbAnswer \/ BbRecover \/ BbNothing
            \/ BbLook \/ BbCheckI \/ BbTakeI \/ BbCheckQ \/ BbTakeQ \/ BbHand \/ BbEndLoop

-----------------------------------------------------------------------------
PairsNext == AskOpen \/ CloseSession \/ IqClose \/ BbClose \/ IqThread \/ BbThread

(* The threads run, and a driver that is started delivers. *)
PairsSpec == /\ PairsInit /\ [][PairsNext]_pairsVars
             /\ WF_pairsVars(IqThread) /\ WF_pairsVars(BbThread) /\ WF_pairsVars(IqClose \/ BbClose)

-----------------------------------------------------------------------------
(* The pairs handed on are of one block, I for I and Q for Q, although the *)
(* I and the Q are read in two goes from a buffer that other threads fill  *)
(* and empty in between: unless a close emptied it during the reads, or    *)
(* the driver gave a short block; and the next time it is emptied all is   *)
(* well again.                                                             *)
PairsHeld == bbin = "hand" => strayed \/ \E n \in Blocks : iPart \o qPart = BlockOf(n)

(* A framework that stays open is given samples for ever, whatever short   *)
(* blocks, overruns and closes came before.                                *)
SamplesFlow == <>[]hdOpen => []<>(bbin = "hand")
=============================================================================
