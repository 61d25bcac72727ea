----------------------------- MODULE ByteQueue ------------------------------
(***************************************************************************)
(* What the audio fifo of the HAL promises its two users: the bytes come   *)
(* out in the order they went in, a push is taken whole or not at all, and *)
(* it is refused only when it would fill the fifo or more than that.       *)
(***************************************************************************)
EXTENDS Naturals, Sequences

CONSTANTS Bytes, RING_SIZE   \* as in HalRing

VARIABLES bytes,       \* what is inside, the oldest first
          got,         \* what the last pop gave
          answer       \* what the last call returned

queueVars == <<bytes, got, answer>>

Init == bytes = <<>> /\ got = <<>> /\ answer = 0

Push(vals) == /\ Len(bytes) + Len(vals) <= RING_SIZE
              /\ bytes' = bytes \o vals
              /\ answer' \in 1 .. Len(vals)
              /\ UNCHANGED got

Refuse(n) == /\ Len(bytes) + n >= RING_SIZE
             /\ answer' = 0
             /\ UNCHANGED <<bytes, got>>

(* As many bytes as there are, up to n. *)
Pop(n) == LET k == IF n <= Len(bytes) THEN n ELSE Len(bytes)
          IN /\ got' = SubSeq(bytes, 1, k)
             /\ bytes' = SubSeq(bytes, k + 1, Len(bytes))
             /\ answer' = k

(* The exact read gives n bytes or none. *)
PopExactly(n) == IF n <= Len(bytes) THEN Pop(n) ELSE Pop(0)

Reset == bytes' = <<>> /\ UNCHANGED <<got, answer>>

Next == \/ \E n \in 1 .. RING_SIZE : \E vals \in [1 .. n -> Bytes] : Push(vals)
        \/ \E n \in 1 .. RING_SIZE + 1 : Refuse(n) \/ Pop(n) \/ PopExactly(n)
        \/ Reset

Spec == Init /\ [][Next]_queueVars
=============================================================================
