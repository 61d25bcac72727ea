---------------------------- MODULE MCHdService -----------------------------
(* Three parts of the framework that share nothing in the model, checked   *)
(* side by side: "part" picks one and only that one moves.                 *)
(*  - "service": two stations, alike in the type of their first program    *)
(*    only; a look at the signal or at PSD every second pass.  The plans   *)
(*    cover a retuning with PSD and news, with PSD and SIS, and with       *)
(*    another request, and two changes around a request at one station.    *)
(*  - "pairs": the IQ samples up to the base band input thread.            *)
(*  - "vectors": from there to the core.                                   *)
EXTENDS HdService, HdPairs, HdVectors, TLC

CONSTANT PARTS

Table == (98 :> (0 :> 1 @@ 1 :> 2)) @@ (102 :> (0 :> 1 @@ 1 :> 3))

Psd == <<"PSD", Programs>>
Sis == <<"SIS", TRUE>>

Plan(first, t, r, n) == [first |-> first, tunes |-> t, requests |-> r, news |-> n]

MCPlans == {Plan(<<Psd>>, 1, 0, 1), Plan(<<Psd, Sis>>, 1, 0, 0), Plan(<<>>, 1, 1, 0), Plan(<<Psd>>, 0, 1, 2)}

MCElements == IqCells \cup {Zero}

VARIABLE part

allVars == <<vars, pairsVars, vectorsVars, part>>

(* The plan is fixed where the service stands still; the band the          *)
(* application begins with is FM.                                          *)
MCInit == /\ Init /\ PairsInit /\ VectorsInit /\ part \in PARTS
          /\ part # "service" => left = Plan(<<>>, 1, 1, 0)
          /\ tunedBand = "FM"

ServiceTurn == part = "service" /\ Next        /\ UNCHANGED <<pairsVars, vectorsVars, part>>
PairsTurn   == part = "pairs"   /\ PairsNext   /\ UNCHANGED <<vars, vectorsVars, part>>
VectorsTurn == part = "vectors" /\ VectorsNext /\ UNCHANGED <<vars, pairsVars, part>>

MCNext == ServiceTurn \/ PairsTurn \/ VectorsTurn

(* The fairness of FairSpec and PairsSpec, each in its part. *)
InService(A) == part = "service" /\ A
InPairs(A)   == part = "pairs" /\ A

MCSpec == /\ MCInit /\ [][MCNext]_allVars
          /\ WF_vars(InService(Pass)) /\ WF_vars(InService(Input))
          /\ WF_vars(InService(Deliver)) /\ WF_vars(InService(Reacquired))
          /\ WF_pairsVars(InPairs(IqThread)) /\ WF_pairsVars(InPairs(BbThread))
          /\ WF_pairsVars(InPairs(IqClose \/ BbClose))
=============================================================================
