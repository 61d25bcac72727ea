------------------------------ MODULE MCThreads ------------------------------
(* Three programs of several threads each that share nothing in the model, *)
(* checked side by side: "part" picks one and only that one moves.         *)
(*  - "session": openings, closes and overruns of the HD framework;        *)
(*  - "scan": two wavebands of four and two frequencies, with the larger   *)
(*    frequencies in FM, and a list of two stations, which can be full;    *)
(*    the radio is opened off the grid of FM and on that of AM;            *)
(*  - "manager": the two threads of the radio manager of the sub-core.     *)
EXTENDS HdSession, BgScan, SubManager, TLC

CONSTANTS AM, PARTS

MCBands   == {FM, AM}
MCConf    == FM :> [start |-> 20, end |-> 50, step |-> 10] @@ AM :> [start |-> 4, end |-> 6, step |-> 2]
MCInitial == FM :> {35} @@ AM :> {6}

VARIABLE part

allVars == <<vars, bgVars, subVars, part>>

MCInit == Init /\ BgInit /\ SubInit /\ part \in PARTS

SessionTurn == part = "session" /\ Next    /\ UNCHANGED <<bgVars, subVars, part>>
ScanTurn    == part = "scan"    /\ BgNext  /\ UNCHANGED <<vars, subVars, part>>
ManagerTurn == part = "manager" /\ SubNext /\ UNCHANGED <<vars, bgVars, part>>

MCNext == SessionTurn \/ ScanTurn \/ ManagerTurn

(* The fairness of FairSpec and of BgFairSpec, each in its own part. *)
MCSpec == /\ MCInit /\ [][MCNext]_allVars
          /\ WF_vars(part = "session" /\ ServiceThread)
          /\ WF_vars(part = "session" /\ BbInputThread)
          /\ WF_vars(part = "session" /\ CloseThreads)
          /\ \A i \in Inputs : WF_vars(part = "session" /\ InputThread(i))
          /\ WF_vars(part = "session" /\ SetBbStart)
          /\ WF_bgVars(part = "scan" /\ BgThread)
          /\ WF_bgVars(part = "scan" /\ GiveList)
=============================================================================
