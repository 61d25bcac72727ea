----------------------------- MODULE MCSupport ------------------------------
(* Four parts that share nothing in the model, checked side by side:       *)
(* "part" picks one and only that one moves.                               *)
(*  - "arithmetic": a five-bit type, whose boundaries are those of every   *)
(*    width;                                                               *)
(*  - "buffer": a circular buffer of three cells;                          *)
(*  - "ring": a ring of four bytes;                                        *)
(*  - "rds": contents that differ in PI and type, in names that share      *)
(*    pieces, or in texts of both lengths and both flags, two of which     *)
(*    share a mark; three changes of them and of RDS on and off, and one   *)
(*    message joined from several groups.                                  *)
EXTENDS SatArith, CBuffer, HalRing, Rds

CONSTANT PARTS

Content(p, y, n, t) == [pi |-> p, pty |-> y, name |-> n, text |-> t]
Text(kind, flag, pieces) == [kind |-> kind, flag |-> flag, pieces |-> pieces]
Named(n) == Content(NoData, 0, n, NoData)
Texted(t) == Content(NoData, 0, NoData, t)

MCIds   == {Content(1, 1, NoData, NoData), Content(2, 2, NoData, NoData),
            Content(NoData, 0, NoData, NoData)}
MCNames == {Named(<<1, 2, 3>>), Named(<<1, 4, 5>>)}
MCTexts == {Texted(Text("2A", 0, <<1, 2, 3>>)), Texted(Text("2A", 1, <<1, 4>>)),
            Texted(Text("2B", 1, <<6>>)), Texted(Text("2A", 0, <<5>>))}
MCAirs  == {MCIds, MCNames, MCTexts}

VARIABLES left, right, \* the operands of the next arithmetic calls
          part         \* what is exercised

allVars == <<vars, ringVars, rdsVars, left, right, part>>

Value(x) == x - S_MIN  \* the unsigned operand that goes with a signed one

(* A part that does not move starts in one way only. *)
MCInit == /\ part \in PARTS
          /\ Init /\ RingInit /\ RdsInit /\ left = 0 /\ right = 0
          /\ part # "buffer" => cb.data = [c \in Cells |-> Zero]
          /\ part # "ring" => ring.data = [c \in Offsets |-> CHOOSE x \in Bytes : TRUE]
          /\ part # "rds" => air = MCIds /\ now = CHOOSE c \in MCIds : TRUE

(* All pairs of operands are reached, one operand after the other. *)
Arithmetic == /\ part = "arithmetic"
              /\ \E x \in Signed : (left' = x /\ right' = right) \/ (left' = left /\ right' = x)
              /\ UNCHANGED <<vars, ringVars, rdsVars, part>>

Buffers == part = "buffer" /\ Next     /\ UNCHANGED <<ringVars, rdsVars, left, right, part>>
Rings   == part = "ring"   /\ RingNext /\ UNCHANGED <<vars, rdsVars, left, right, part>>
RdsTurn == part = "rds"    /\ RdsNext  /\ UNCHANGED <<vars, ringVars, left, right, part>>

MCNext == Arithmetic \/ Buffers \/ Rings \/ RdsTurn

(* The fair steps of Rds are disabled in the other parts by themselves. *)
MCSpec == MCInit /\ [][MCNext]_allVars /\ RdsFairness

(* Sums, differences and products are exact or saturated at the bound on   *)
(* the side of the exact result, and casts give the nearest value.         *)
ExactOrSaturated == /\ SumsSaturate(left, right, Value(left), Value(right))
                    /\ ProductsSaturate(left, right, Value(left), Value(right))
                    /\ CastsClamp(left, Value(left), Value(left) + Value(right))
=============================================================================
