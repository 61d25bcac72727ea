---------------------------- MODULE MCMiddleware ----------------------------
(* Three parts of the radio middleware and one of the HD framework that    *)
(* share nothing in the model, checked side by side: "part" picks one and  *)
(* only that one moves.                                                    *)
(*  - "queue": a ring of three slots and two senders of four messages      *)
(*    each, so that the ring wraps twice and overflows;                    *)
(*  - "life": two initialisations, one of which may fail at any point, and *)
(*    the deinits between and after them;                                  *)
(*  - "hd": the same of the HD framework, with the base band thread, which *)
(*    polls and may wait for samples, the primary thread, which waits for  *)
(*    a semaphore, and the manager, through which openings and tunes go;   *)
(*    the second initialisation meets at most one thread of the first;     *)
(*  - "sound": four openings of the sound.                                 *)
EXTENDS MsgQueue, RadioLife, HdLife, RadioSound

CONSTANTS thread1, thread2      \* two sending threads

VARIABLE part

allVars == <<vars, lifeVars, hdLifeVars, soundVars, part>>

MCInit == /\ Init /\ LifeInit /\ HdLifeInit /\ SoundInit
          /\ part \in {"queue", "life", "hd", "sound"}

QueueTurn == part = "queue" /\ Next       /\ UNCHANGED <<lifeVars, hdLifeVars, soundVars, part>>
LifeTurn  == part = "life"  /\ LifeNext   /\ UNCHANGED <<vars, hdLifeVars, soundVars, part>>
HdTurn    == part = "hd"    /\ HdLifeNext /\ UNCHANGED <<vars, lifeVars, soundVars, part>>
SoundTurn == part = "sound" /\ SoundNext  /\ UNCHANGED <<vars, lifeVars, hdLifeVars, part>>

MCNext == QueueTurn \/ LifeTurn \/ HdTurn \/ SoundTurn

(* The fair steps are disabled by themselves where their part does not     *)
(* move: no thread was created there.                                      *)
MCSpec == MCInit /\ [][MCNext]_allVars /\ LifeFairness /\ HdLifeFairness
=============================================================================
