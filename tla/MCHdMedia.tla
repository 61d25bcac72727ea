----------------------------- MODULE MCHdMedia ------------------------------
(* Four parts of the HD framework that share nothing in the model,        *)
(* checked side by side: "part" picks one and only that one moves.         *)
(*  - "output": an output buffer of four cells, a frame of one, two of     *)
(*    silence, two sessions of six frames: the buffer fills, overflows,    *)
(*    goes round and is restarted in every phase of a hand-over and of a   *)
(*    playback;                                                            *)
(*  - "input": an analog buffer of four cells, a frame of two, driver      *)
(*    reads of one or two samples, so that frames straddle the end of the  *)
(*    memory;                                                              *)
(*  - "objects": two programs with a port each, one of them with its data  *)
(*    component before the audio, and a data service that shares a slot    *)
(*    with the first;                                                      *)
(*  - "blending": an alert tone of two frames, the mode that blends and    *)
(*    one that does not.                                                   *)
EXTENDS AudioOutput, AnalogAudio, HdLot, HdBlending, TLC

CONSTANT PARTS

Audio1 == [num |-> 1, comps |-> <<[kind |-> "audio", channel |-> 0], [kind |-> "data", channel |-> 10]>>]
Audio2 == [num |-> 2, comps |-> <<[kind |-> "data", channel |-> 11], [kind |-> "audio", channel |-> 1]>>]
Data1  == [num |-> 3, comps |-> <<[kind |-> "data", channel |-> 12]>>]

MCStation == <<<<Audio1, Audio2>>, <<Data1>>>>
MCMasks   == {{0}, {0, 1}}

VARIABLE part

allVars == <<vars, analogVars, lotVars, blendVars, part>>

MCInit == /\ Init /\ AnalogInit /\ LotInit /\ BlendInit
          /\ part \in PARTS /\ (part # "objects" => keeps = FALSE)

OutputTurn  == part = "output"  /\ Next       /\ UNCHANGED <<analogVars, lotVars, blendVars, part>>
InputTurn   == part = "input"   /\ AnalogNext /\ UNCHANGED <<vars, lotVars, blendVars, part>>
ObjectsTurn == part = "objects" /\ LotNext    /\ UNCHANGED <<vars, analogVars, blendVars, part>>
BlendTurn   == part = "blending" /\ BlendNext /\ UNCHANGED <<vars, analogVars, lotVars, part>>

MCNext == OutputTurn \/ InputTurn \/ ObjectsTurn \/ BlendTurn

(* The fairness of LotFairSpec, in its own part only. *)
MCSpec == /\ MCInit /\ [][MCNext]_allVars
          /\ WF_lotVars(part = "objects" /\ Pass)
          /\ WF_lotVars(part = "objects" /\ Follow)
=============================================================================
