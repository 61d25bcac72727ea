---------------------------- MODULE StreamWindow ----------------------------
(***************************************************************************)
(* What a circular buffer promises: it remembers the last SIZE elements of *)
(* a stream, and how many of the newest ones are still unread.  Writing    *)
(* slides the window, reading and moving only change how many are unread.  *)
(***************************************************************************)
EXTENDS Integers, Sequences

CONSTANTS SIZE, Elements, Zero   \* as in CircBuff, with its assumption

VARIABLES window,      \* the last SIZE elements, the oldest first
          unread,      \* how many of the newest are unread
          passed       \* the elements the last write or read passed on

vars == <<window, unread, passed>>

Positions == 1 .. SIZE

Init == window \in [Positions -> Elements] /\ unread = 0 /\ passed = <<>>

Slid(vals) == [k \in Positions |->
                 IF k <= SIZE - Len(vals) THEN window[k + Len(vals)]
                                          ELSE vals[k - (SIZE - Len(vals))]]

Write(vals) == /\ Len(vals) <= SIZE - unread
               /\ window' = Slid(vals)
               /\ unread' = unread + Len(vals)
               /\ passed' = vals

Read(n) == /\ n <= unread
           /\ passed' = [k \in 1 .. n |-> window[SIZE - unread + k]]
           /\ unread' = unread - n
           /\ UNCHANGED window

(* Skips unread elements, or takes back some that were read. *)
Move(n) == /\ unread - n \in 0 .. SIZE
           /\ unread' = unread - n
           /\ UNCHANGED <<window, passed>>

(* Everything is forgotten. *)
Forget == unread' = 0 /\ window' \in [Positions -> Elements] /\ UNCHANGED passed

(* Everything is forgotten and n elements Zero are unread. *)
Restart(n) == /\ window' \in [Positions -> Elements]
              /\ \A k \in Positions : k > SIZE - n => window'[k] = Zero
              /\ unread' = n
              /\ UNCHANGED passed

(* Every element becomes Zero, read or not. *)
Blank == window' = [k \in Positions |-> Zero] /\ UNCHANGED <<unread, passed>>

Next == \/ \E n \in Positions : \E vals \in [1 .. n -> Elements] : Write(vals)
        \/ \E n \in Positions : Read(n)
        \/ \E n \in -SIZE .. SIZE : Move(n)
        \/ \E n \in Positions : Restart(n)
        \/ Forget \/ Blank

Spec == Init /\ [][Next]_vars
=============================================================================
