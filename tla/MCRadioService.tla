--------------------------- MODULE MCRadioService ---------------------------
(* Two parts that share nothing in the model, checked side by side: "part" *)
(* picks one and only that one moves.                                      *)
(*  - "service": two wavebands with two and three frequencies; FM can be   *)
(*    given a finer step.  The radio can be tuned between two frequencies  *)
(*    and outside the band.                                                *)
(*  - "tuner": the driver of one to four tuners, an image of two pieces,   *)
(*    two attempts at starting and two failures.                           *)
EXTENDS RadioService, SiTuner, TLC

CONSTANTS AM, PARTS

Wide   == [start |-> 20, end |-> 40, step |-> 20]
Narrow == [start |-> 20, end |-> 40, step |-> 10]
Medium == [start |-> 4, end |-> 6, step |-> 2]

MCBands    == {FM, AM}
MCConfigs  == FM :> {Wide, Narrow} @@ AM :> {Medium}
MCDefaults == FM :> Narrow @@ AM :> Medium
MCTunable  == FM :> {30, 35} @@ AM :> {4}
MCSiFreqs  == FM :> {98, 102} @@ AM :> {6}

VARIABLE part

allVars == <<vars, siVars, part>>

MCInit == Init /\ SiInit /\ part \in PARTS

ServiceTurn == part = "service" /\ Next   /\ UNCHANGED <<siVars, part>>
TunerTurn   == part = "tuner"   /\ SiNext /\ UNCHANGED <<vars, part>>

MCNext == ServiceTurn \/ TunerTurn

(* The fairness of FairSpec, in its own part. *)
MCSpec == MCInit /\ [][MCNext]_allVars /\ WF_vars(part = "service" /\ Service)
=============================================================================
