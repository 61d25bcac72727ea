-------------------------------- MODULE Rds --------------------------------
(***************************************************************************)
(* The RDS of the primary tuner, mw/src/rds.  A thread fetches what the    *)
(* tuner has received every 80 ms and takes it apart without a lock; the   *)
(* application switches RDS on and off under one, which clears the data.   *)
(* Tuning to another station tells RDS nothing.                            *)
(*                                                                         *)
(* What is in the air is a set of contents, one of which is tuned: a       *)
(* change of station and a change of what a station sends are one thing    *)
(* here, as they are to the receiver.  Pieces of names and texts are       *)
(* values; a text also has a group type, its A/B flag, and a last piece    *)
(* that holds the end code, unless the text has the full length.           *)
(*                                                                         *)
(* The tuner delivers blocks, and only those that were received; what is   *)
(* taken for a group is a run of blocks whose numbers increase, and may    *)
(* have its blocks from several groups of several contents.                *)
(***************************************************************************)
EXTENDS Naturals, Sequences, FiniteSets

CONSTANTS Airs,          \* sets of contents, each that of one behaviour
          Unprintable,   \* the pieces of a name with a character that is not shown
          NAMELEN,       \* pieces of a name: MAX_PS / 2
          TEXTLEN,       \* pieces of a text of full length: MAX_RT_SEG_CNT + 1
          PIMAX,         \* the limit of piCounter
          BATCH,         \* messages in one fetch
          STEPS,         \* BOUND: changes of station or content, and of RDS on and off
          JOINS,         \* BOUND: messages with what no group had
          Ending,        \* the pieces of a text with the end code
          Strays,        \* characters of other groups or of two pieces, and what is no PI
          NoData         \* no PI, name, piece or text; the fill of a cleared buffer

Contents == UNION Airs

ASSUME RdsAssumption ==
  /\ NAMELEN \in Nat \ {0} /\ TEXTLEN \in Nat \ {0} /\ PIMAX \in Nat \ {0} /\ BATCH \in Nat \ {0}
  /\ \A c \in Contents :
       /\ c.name = NoData \/ Len(c.name) = NAMELEN
       /\ \/ c.text = NoData
          \/ \E n \in 1 .. TEXTLEN :
               /\ c.text.pieces = [i \in 1 .. n |-> c.text.pieces[i]]
               /\ \A i \in 1 .. n : c.text.pieces[i] \in Ending => i = n

VARIABLES
  air, now,                  \* the contents, the one tuned
  enable, steps, joins,      \* fEnable; changes and joins so far
  lately,                    \* the contents tuned since the last fetch, in their order
  batch,                     \* rcv_rds_data: the messages not yet taken apart
  pi, piCounter,
  pty, ptyValid,             \* ptyStatus: the stored value, RDS_PTY_VALID
  psbuf, psGot, psname,      \* the name under way, the pieces there, the name shown
  rtMark,                    \* <<rt_prev_group, rt_prev_flag>>
  rtGot, rtEnd, rtBuf,       \* rt_rcvseg_status, rt_endseg, rt_buf
  rtNeeded, rtDisplay,       \* rt_new_needed, rt_display
  heard                      \* the texts heard since the mark last changed or was cleared;
                             \* NoData for a piece that is not the text's

ids      == <<pi, piCounter, pty, ptyValid>>
name     == <<psbuf, psGot, psname>>
text     == <<rtMark, rtGot, rtEnd, rtBuf, rtNeeded, rtDisplay, heard>>
tuned    == <<air, now>>
switched == <<enable, steps>>
tuner    == <<lately, joins>>
rdsVars  == <<tuned, switched, tuner, batch, ids, name, text>>

NameSegs == 1 .. NAMELEN
TextSegs == 1 .. TEXTLEN
EmptyName == [i \in NameSegs |-> NoData]
EmptyText == [i \in TextSegs |-> NoData]
Mark(t) == <<t.kind, t.flag>>

(* stRds starts as zeroes, not as tcrds_clearData leaves it: no text is    *)
(* needed and the first piece is the end, as if a text had been shown.     *)
RdsInit ==
  /\ air \in Airs /\ now \in air
  /\ enable = FALSE /\ steps = 0 /\ batch = <<>>
  /\ lately = <<now>> /\ joins = 0
  /\ pi = NoData /\ piCounter = 0 /\ pty = 0 /\ ptyValid = FALSE
  /\ psbuf = EmptyName /\ psGot = {} /\ psname = NoData
  /\ rtMark = <<"2A", 0>> /\ rtGot = {} /\ rtEnd = 1 /\ rtBuf = EmptyText
  /\ rtNeeded = FALSE /\ rtDisplay = NoData /\ heard = {NoData}

-----------------------------------------------------------------------------
(* What block B of a group of content c says: whether the PI is there once *)
(* more, and which piece of a name or a text the characters are.           *)

NameHeads(c) == IF c.name = NoData THEN {}
                ELSE [from : {c}, of : {"name"}, twice : BOOLEAN, seg : NameSegs]
TextHeads(c) == IF c.text = NoData THEN {}
                ELSE [from : {c}, of : {"text"}, twice : {c.text.kind = "2B"}, seg : 1 .. Len(c.text.pieces)]
Heads(c)     == [from : {c}, of : {"other"}, twice : BOOLEAN, seg : {0}] \cup NameHeads(c) \cup TextHeads(c)

(* The characters that go with it. *)
Own(h) == CASE h.of = "name"  -> h.from.name[h.seg]
            [] h.of = "text"  -> h.from.text.pieces[h.seg]
            [] h.of = "other" -> NoData

(* What is taken apart: the PI codes, the type, and the piece if there are *)
(* a block B and characters.                                               *)
Message(codes, h, chars) ==
  [codes |-> SelectSeq(codes, LAMBDA p : p # NoData),
   pty   |-> IF h = NoData THEN NoData ELSE h.from.pty,
   piece |-> IF h = NoData \/ chars = NoData THEN NoData
             ELSE [of |-> h.of, seg |-> h.seg, text |-> h.from.text, chars |-> chars]]

(* Of the blocks of one group, any may be missing. *)
Codes(h, c) == {<<>>, <<c.pi>>} \cup (IF h.twice THEN {<<c.pi, c.pi>>} ELSE {})

OfOne(c) ==
  {Message(codes, NoData, NoData) : codes \in {<<>>, <<c.pi>>}} \cup
  UNION {{Message(codes, h, chars) : codes \in Codes(h, c), chars \in {NoData, Own(h)}} : h \in Heads(c)}

(* Of those of several groups, those of the one that follow those of the   *)
(* other: block C as a PI, and C and D as characters.                      *)
Again(h, c) == IF h.twice THEN {NoData, c.pi} \cup Strays ELSE {NoData}

PiecesFor(h, c) ==
  CASE h.of = "name" /\ c.name # NoData -> {c.name[i] : i \in NameSegs}
    [] h.of = "text" /\ c.text # NoData /\ c.text.kind = h.from.text.kind
         -> {c.text.pieces[i] : i \in 1 .. Len(c.text.pieces)}
    [] OTHER -> {}

Brought(h, c) == {NoData} \cup IF h.of = "other" THEN {} ELSE PiecesFor(h, c) \cup Strays

InOrder(l) == {at \in [1 .. 4 -> DOMAIN l] : \A n \in 1 .. 3 : at[n] <= at[n + 1]}

Joined(l, at, h) == {Message(codes, h, chars) : codes \in {NoData, l[at[1]].pi} \X Again(h, l[at[3]]),
                                               chars \in Brought(h, l[at[4]])}

OfSeveral(l) == UNION {UNION {Joined(l, at, h) : h \in Heads(l[at[2]])} : at \in InOrder(l)}

(* The application and the radio meanwhile. *)

Step == steps < STEPS /\ steps' = steps + 1

ChangeNow == /\ Step
             /\ now' \in air \ {now}
             /\ lately' = Append(lately, now')
             /\ UNCHANGED <<air, enable, joins, batch, ids, name, text>>

OpenRds == /\ Step /\ ~enable
           /\ enable' = TRUE
           /\ UNCHANGED <<tuned, tuner, batch, ids, name, text>>

CloseRds == /\ Step /\ enable
            /\ enable' = FALSE
            /\ pi' = NoData /\ piCounter' = 0 /\ pty' = 0 /\ ptyValid' = FALSE
            /\ psbuf' = EmptyName /\ psGot' = {} /\ psname' = NoData
            /\ rtMark' = <<"2A", 0>> /\ rtGot' = {} /\ rtEnd' = NoData /\ rtBuf' = EmptyText
            /\ rtNeeded' = TRUE /\ rtDisplay' = NoData /\ heard' = {}
            /\ UNCHANGED <<tuned, tuner, batch>>

-----------------------------------------------------------------------------
(* tcrds_fetchRdsDataHandler: a batch of one or two messages is taken, one *)
(* of more is refused, and so is the same as none.                         *)

Whole    == UNION {OfOne(lately[i]) : i \in DOMAIN lately}
Messages == Whole \cup (IF joins < JOINS THEN OfSeveral(lately) ELSE {})

FetchBatch(ms) == /\ enable /\ batch = <<>>
                  /\ batch' = ms
                  /\ joins' = joins + Cardinality({i \in DOMAIN ms : ms[i] \notin Whole})
                  /\ lately' = <<now>>
                  /\ UNCHANGED <<tuned, switched, ids, name, text>>

Fetch == \E n \in 0 .. BATCH : \E ms \in [1 .. n -> Messages] : FetchBatch(ms)

(* tcrds_extractPi, once. *)
AfterPi(p, s) == IF s.pi = p THEN [s EXCEPT !.n = IF s.n < PIMAX THEN s.n + 1 ELSE s.n]
                 ELSE IF s.n = 0 THEN [pi |-> p, n |-> 1]
                 ELSE [s EXCEPT !.n = s.n - 1]

ExtractPi(m) ==
  LET s0 == [pi |-> pi, n |-> piCounter]
      s1 == IF m.codes = <<>> THEN s0 ELSE AfterPi(m.codes[1], s0)
      s2 == IF Len(m.codes) < 2 THEN s1 ELSE AfterPi(m.codes[2], s1)
  IN pi' = s2.pi /\ piCounter' = s2.n

(* A new PTY is stored only when the old one is no longer valid. *)
ExtractPty(m) ==
  IF m.pty = NoData THEN UNCHANGED <<pty, ptyValid>>
  ELSE /\ ptyValid' = (m.pty = pty)
       /\ pty' = IF ptyValid THEN pty ELSE m.pty

(* The pieces that are there after piece c for segment s: a piece that     *)
(* differs from one received in this round starts a new round; one that    *)
(* is as it was counts only when a round is under way.  In a wrong         *)
(* variant it never counts.                                                *)
NameGotNew(s, c) ==
  IF psbuf[s] = c THEN psGot ELSE (IF s \in psGot THEN {} ELSE psGot) \cup {s}

NameGot(s, c) ==
  IF psbuf[s] # c THEN (IF s \in psGot THEN {} ELSE psGot) \cup {s}
  ELSE IF psGot # {} THEN psGot \cup {s}
  ELSE psGot

Printable(n) == \A i \in NameSegs : n[i] \notin Unprintable \cup {NoData}

(* tcrds_extractPs. *)
ExtractPs(p) ==
  LET s   == p.seg
      c   == p.chars
      got == NameGot(s, c)
      all == got = NameSegs
  IN /\ psbuf' = [psbuf EXCEPT ![s] = c]
     /\ psGot' = IF all THEN {} ELSE got
     /\ psname' = IF all /\ Printable(psbuf') THEN psbuf' ELSE psname
     /\ UNCHANGED text

(* tcrds_extractRT: a new mark starts a new text, and with it a new count  *)
(* of pieces; a wrong variant keeps the count.                             *)
GotKept(t) == rtGot

GotAtMark(t)    == IF rtMark = Mark(t) THEN rtGot ELSE {}
NeededAtMark(t) == IF rtMark = Mark(t) THEN rtNeeded ELSE TRUE
EndAtMark(t)    == IF rtMark = Mark(t) THEN rtEnd ELSE NoData
BufAtMark(t)    == IF rtMark = Mark(t) THEN rtBuf ELSE EmptyText

(* The end, once it is known: the end code, or the last piece there is. *)
EndAfter(t, s, c) ==
  IF c \in Ending THEN s
  ELSE IF EndAtMark(t) = NoData /\ s = TEXTLEN THEN s
  ELSE EndAtMark(t)

(* The text is there when exactly the pieces up to its end are. *)
WholeText(got, end) == end # NoData /\ got = 1 .. end

ExtractRT(p) ==
  LET t    == p.text
      s    == p.seg
      got  == GotAtMark(t) \cup {s}
      end  == EndAfter(t, s, p.chars)
      buf  == [BufAtMark(t) EXCEPT ![s] = p.chars]
      all  == WholeText(got, end)
      show == all /\ NeededAtMark(t)
  IN /\ rtMark' = Mark(t)
     /\ rtGot' = IF all THEN {} ELSE got
     /\ rtEnd' = IF all THEN NoData ELSE end
     /\ rtBuf' = IF all THEN EmptyText ELSE buf
     /\ rtNeeded' = (NeededAtMark(t) /\ ~all)
     /\ rtDisplay' = IF show THEN SubSeq(buf, 1, end) ELSE rtDisplay
     /\ heard' = (IF rtMark = Mark(t) THEN heard ELSE {}) \cup {IF p.chars = t.pieces[s] THEN t ELSE NoData}
     /\ UNCHANGED name

(* LBparsingRDSMessage, one message of it. *)
ParseMessage ==
  /\ batch # <<>>
  /\ batch' = Tail(batch)
  /\ LET m == Head(batch) IN
       /\ ExtractPi(m) /\ ExtractPty(m)
       /\ \/ m.piece = NoData /\ UNCHANGED <<name, text>>
          \/ m.piece # NoData /\ m.piece.of = "name" /\ ExtractPs(m.piece)
          \/ m.piece # NoData /\ m.piece.of = "text" /\ ExtractRT(m.piece)
  /\ UNCHANGED <<tuned, switched, tuner>>

RdsNext == ChangeNow \/ OpenRds \/ CloseRds \/ Fetch \/ ParseMessage

(* The thread goes on, and a station repeats every piece until a group     *)
(* with it comes through whole; one that has no pieces, any group.         *)
Pieces(c) == NameHeads(c) \cup TextHeads(c)
Needed(i) == IF Pieces(now) = {} THEN Heads(now) ELSE {h \in Pieces(now) : h.seg = i}

RdsFairness ==
  /\ WF_rdsVars(ParseMessage)
  /\ \A i \in NameSegs \cup TextSegs :
       SF_rdsVars(\E h \in Needed(i) : FetchBatch(<<Message(<<now.pi>>, h, Own(h))>>))

RdsSpec == RdsInit /\ [][RdsNext]_rdsVars /\ RdsFairness

-----------------------------------------------------------------------------
(* While nothing but pieces of one text was heard under the present mark,  *)
(* the text that is shown as the new one is that text, and all of it: not  *)
(* one with pieces of another, or without its middle.  Where blocks were   *)
(* lost and a message was joined from two groups, what is not a piece of   *)
(* the text in its place is heard as well, and may be shown.               *)
TextIsOne == \A t \in heard : (heard = {t} /\ t # NoData /\ ~rtNeeded) => rtDisplay = t.pieces

(* Once the last change is made and the last message joined from several   *)
(* groups (STEPS and JOINS bound them) and with RDS on, the PI, the type,  *)
(* the name and the text shown come to be the station's, whatever was      *)
(* received before: a name that shares pieces with the last one, a PI that *)
(* has to outlast the count of the last, groups fetched from another       *)
(* station, foreign pieces and damaged blocks do not prevent it.  Left out *)
(* are a text that its mark did not tell from another or from what was not *)
(* its own, which stays until the mark changes, and a name with an         *)
(* unprintable piece.                                                      *)
Shows(c) == /\ c.pi # NoData => pi = c.pi
            /\ ptyValid /\ pty = c.pty
            /\ (c.name # NoData /\ Printable(c.name)) => psname = c.name
            /\ (c.text # NoData /\ heard = {c.text}) => rtDisplay = c.text.pieces

SteadyIsShown == <>[](enable => Shows(now))
=============================================================================
