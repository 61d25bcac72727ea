------------------------------- MODULE HdLife -------------------------------
(***************************************************************************)
(* Starting and stopping the HD framework: tchdr_init and tchdr_deinit of  *)
(* hd/src/api/tchdr_api.c with the init and deinit functions of its parts  *)
(* and the beginnings and ends of its threads.  The threads are detached   *)
(* and nobody waits for them: tchdr_deinit clears a flag of each, posts    *)
(* the semaphores that three of them may be waiting for and returns; every *)
(* thread releases what its part had made.                                 *)
(*                                                                         *)
(* Of what the threads do between, the module has what an end may have to  *)
(* wait for: the semaphores, and the samples that the base band thread     *)
(* waits for once an opening or a tune has told it how many it needs.      *)
(* Openings and tunes are messages; there is one at a time here.           *)
(***************************************************************************)
EXTENDS Integers, Sequences, SequencesExt

CONSTANTS HdThreads,    \* the threads of the instance
          MaxHdInits,   \* BOUND: calls of tchdr_init that get past its guard
          MaxHdFails,   \* BOUND: steps of an initialisation that fail
          MaxFrames,    \* BOUND: semaphores posted by the threads at work
          MaxLeft       \* BOUND: threads of a life before that an initialisation meets

HdParts  == {"audin", "iqin", "bbin", "fwk", "audout", "svc"}
Consoles == {"cmdproc", "logger"}
Polling  == {"manager", "bbin", "audin", "iqin"} \cup Consoles
Waiting  == {"primary", "blending", "audout"}

ASSUME HdLifeAssumption ==
  /\ HdThreads \subseteq Polling \cup Waiting
  /\ MaxHdInits \in Nat /\ MaxHdFails \in Nat /\ MaxFrames \in Nat
  /\ MaxLeft \in Nat

VARIABLES hdApp,       \* what is left of tchdr_init or tchdr_deinit to be done
          hdInit,      \* fHdrInitStatus
          hdRunning,   \* thread -> thread_running of its attributes: -1, 0 or 1
          hdThreads,   \* thread -> those of its name that have not ended
          live,        \* what the parts have made and not released
          ready,       \* thread -> the value of the semaphore it waits for
          frames,      \* semaphores posted by the threads at work so far
          hdOpen,      \* stTcHdrService.fOpen
          hdNeeded,    \* numInputSamplesNeeded[0] > 0
          errand,      \* the message under way: "open" or "tune" to the manager,
                       \* "opening" or "tuning" to the base band thread, "opened" its answer
          tidy,        \* the last init met nothing of a deinit or a failed init
          met,         \* a deinit met every thread at work and in its place
          overtaken,   \* it overtook an errand, or the close it followed had been
          hdInits, hdFails  \* initialisations and failures so far

service    == <<hdOpen, hdNeeded, errand>>
about      == <<tidy, met, overtaken>>
hdLifeVars == <<hdApp, hdInit, hdRunning, hdThreads, live, ready, frames, service, about,
                hdInits, hdFails>>

-----------------------------------------------------------------------------
(* What tchdr_initThreads and tchdr_deinit do, and in which order.  The    *)
(* flag of a thread that waits is cleared before its semaphore is looked   *)
(* at.                                                                     *)

InitOrder == << <<"make", "audin">>, <<"make", "iqin">>, <<"make", "bbin">>,
                <<"make", "fwk">>, <<"make", "audout">>, <<"make", "svc">>,
                <<"create", "manager">>, <<"create", "bbin">>, <<"create", "primary">>,
                <<"create", "blending">>, <<"create", "audout">>, <<"create", "audin">>,
                <<"create", "iqin">>, <<"create", "cmdproc">>, <<"create", "logger">> >>

(* Wrong: the semaphore of the primary thread is looked at first. *)
WakeFirst == << <<"stop", "audin">>, <<"stop", "iqin">>, <<"stop", "bbin">>,
                <<"wake", "primary">>, <<"stop", "primary">>,
                <<"stop", "blending">>, <<"wake", "blending">>,
                <<"stop", "audout">>, <<"wake", "audout">>,
                <<"stop", "cmdproc">>, <<"stop", "logger">>, <<"stop", "manager">> >>

DeinitOrder == << <<"stop", "audin">>, <<"stop", "iqin">>, <<"stop", "bbin">>,
                  <<"stop", "primary">>, <<"wake", "primary">>,
                  <<"stop", "blending">>, <<"wake", "blending">>,
                  <<"stop", "audout">>, <<"wake", "audout">>,
                  <<"stop", "cmdproc">>, <<"stop", "logger">>, <<"stop", "manager">> >>

InitParts   == ({"make"} \X HdParts) \cup ({"create"} \X HdThreads)
DeinitParts == ({"stop"} \X HdThreads) \cup ({"wake"} \X (HdThreads \cap Waiting))

(* The next of what is left. *)
IsNext(s) == /\ s \in hdApp
             /\ \E order \in {InitOrder, DeinitOrder} : \E i \in DOMAIN order :
                  order[i] = s /\ \A j \in 1..(i - 1) : order[j] \notin hdApp

(* What each part's init makes, and the thread that releases it: its queue *)
(* with the semaphore and mutexes that go with it, the buffer of the IQ    *)
(* samples and the analog audio's.                                         *)
Makes(p) == CASE p = "audin"  -> {"analogAudioBuffer"}
              [] p = "iqin"   -> {"readIQ01"}
              [] p = "bbin"   -> {"bbQueue"}
              [] p = "fwk"    -> {"mainQueue", "blendingQueue"}
              [] p = "audout" -> {"audioQueue"}
              [] p = "svc"    -> {"serviceQueues"}

Releases(t) == CASE t = "bbin"     -> {"analogAudioBuffer", "readIQ01", "bbQueue"}
                 [] t = "primary"  -> {"mainQueue"}
                 [] t = "blending" -> {"blendingQueue"}
                 [] t = "audout"   -> {"audioQueue"}
                 [] t = "manager"  -> {"serviceQueues"}
                 [] OTHER          -> {}

Resources == UNION {Releases(t) : t \in HdThreads}

-----------------------------------------------------------------------------
Thread0(pc, mine) == [pc |-> pc, mine |-> mine]

HdLifeInit ==
  /\ hdApp = {} /\ hdInit = FALSE
  /\ hdRunning = [t \in HdThreads |-> 0] /\ hdThreads = [t \in HdThreads |-> <<>>]
  /\ live = {} /\ ready = [t \in HdThreads |-> 0] /\ frames = 0
  /\ hdOpen = FALSE /\ hdNeeded = FALSE /\ errand = "none"
  /\ tidy = TRUE /\ met = FALSE /\ overtaken = FALSE
  /\ hdInits = 0 /\ hdFails = 0

NoThreads == \A t \in HdThreads : hdThreads[t] = <<>>

HdInitBegin ==
  /\ hdApp = {} /\ ~hdInit /\ hdInits < MaxHdInits
  /\ Cardinality({t \in HdThreads : hdThreads[t] # <<>>}) <= MaxLeft
  /\ hdInits' = hdInits + 1
  /\ hdApp' = InitParts
  /\ tidy' = NoThreads /\ met' = FALSE /\ overtaken' = FALSE
  /\ UNCHANGED <<hdInit, hdRunning, hdThreads, live, ready, frames, service, hdFails>>

(* A failure ends the initialisation; nothing is undone.  Wrong: it is not *)
(* told, and fHdrInitStatus is set.                                        *)
HdFailUnseen == /\ hdFails < MaxHdFails /\ hdFails' = hdFails + 1
                /\ hdApp' = {} /\ hdInit' = TRUE

HdFail == /\ hdFails < MaxHdFails /\ hdFails' = hdFails + 1
          /\ hdApp' = {} /\ UNCHANGED hdInit

(* The last step of all sets fHdrInitStatus. *)
HdDone(s) == /\ hdApp' = hdApp \ {s}
             /\ hdInit' = (hdInit \/ hdApp = {s})
             /\ UNCHANGED hdFails

(* The semaphores belong to the threads that wait. *)
SemaphoresOf(p) == CASE p = "fwk"    -> {"primary", "blending"}
                     [] p = "audout" -> {"audout"}
                     [] OTHER        -> {}

(* A queue that is made anew is empty; the base band's part needs nothing  *)
(* then, and the service is closed.                                        *)
LostErrands(p) == CASE p = "bbin" -> {"opening", "tuning"}
                    [] p = "svc"  -> {"open", "tune", "opened"}
                    [] OTHER      -> {}

Afresh(p) == /\ errand' = IF errand \in LostErrands(p) THEN "none" ELSE errand
             /\ hdNeeded' = (hdNeeded /\ p # "bbin")
             /\ hdOpen' = (hdOpen /\ p # "svc")

MakePart(p) ==
  /\ IsNext(<<"make", p>>)
  /\ \/ /\ HdDone(<<"make", p>>)
        /\ live' = live \cup (Makes(p) \cap Resources)
        /\ ready' = [t \in HdThreads |-> IF t \in SemaphoresOf(p) THEN 0 ELSE ready[t]]
        /\ Afresh(p)
     \/ /\ HdFail
        /\ \E some \in SUBSET (Makes(p) \cap Resources) : live' = live \cup some
        /\ UNCHANGED ready
        /\ Afresh(p) \/ UNCHANGED service
  /\ UNCHANGED <<hdRunning, hdThreads, frames, about, hdInits>>

(* The attributes are cleared before the thread is created. *)
Create(t) ==
  /\ IsNext(<<"create", t>>)
  /\ hdRunning' = [hdRunning EXCEPT ![t] = 0]
  /\ \/ /\ HdDone(<<"create", t>>)
        /\ hdThreads' = [hdThreads EXCEPT ![t] = Append(@, Thread0("born", TRUE))]
     \/ /\ HdFail
        /\ UNCHANGED hdThreads
  /\ UNCHANGED <<live, ready, frames, service, about, hdInits>>

-----------------------------------------------------------------------------
(* The application opens, tunes and closes an initialised framework.  A    *)
(* close is done on the spot, whatever is under way.                       *)

Asks(message) == /\ hdApp = {} /\ hdInit /\ errand = "none"
                 /\ errand' = message
                 /\ UNCHANGED <<hdApp, hdInit, hdRunning, hdThreads, live, ready, frames, hdOpen, hdNeeded,
                                about, hdInits, hdFails>>

HdOpen == ~hdOpen /\ Asks("open")
HdTune == hdOpen /\ Asks("tune")

HdClose == /\ hdApp = {} /\ hdInit /\ hdOpen
           /\ hdOpen' = FALSE /\ hdNeeded' = FALSE
           /\ UNCHANGED <<hdApp, hdInit, hdRunning, hdThreads, live, ready, frames, errand, about,
                          hdInits, hdFails>>

(* tchdr_deinit of a framework that is closed. *)

AtWork(t) == /\ Len(hdThreads[t]) = 1 /\ hdRunning[t] = 1
             /\ hdThreads[t][1].pc \in {"loop", "wait", "samples"} /\ hdThreads[t][1].mine

HdDeinit ==
  /\ hdApp = {} /\ hdInit /\ ~hdOpen
  /\ hdInit' = FALSE
  /\ hdApp' = DeinitParts
  /\ met' = (tidy /\ \A t \in HdThreads : AtWork(t))
  /\ overtaken' = (errand # "none" \/ hdNeeded)
  /\ UNCHANGED <<hdRunning, hdThreads, live, ready, frames, service, tidy, hdInits, hdFails>>

Stop(t) ==
  /\ IsNext(<<"stop", t>>)
  /\ hdApp' = hdApp \ {<<"stop", t>>}
  /\ hdRunning' = [hdRunning EXCEPT ![t] = 0]
  /\ UNCHANGED <<hdInit, hdThreads, live, ready, frames, service, about, hdInits, hdFails>>

Wake(t) ==
  /\ IsNext(<<"wake", t>>)
  /\ hdApp' = hdApp \ {<<"wake", t>>}
  /\ ready' = IF ready[t] = 0 THEN [ready EXCEPT ![t] = 1] ELSE ready
  /\ UNCHANGED <<hdInit, hdRunning, hdThreads, live, frames, service, about, hdInits, hdFails>>

-----------------------------------------------------------------------------
(* The i-th thread of a name. *)

Becomes(t, i, th) == hdThreads' = [hdThreads EXCEPT ![t][i] = th]

(* The primary thread is given the address of its number, which is in the  *)
(* frame of tchdr_createFrameworkThreads: once that has returned it reads  *)
(* what happens to be there.                                               *)
NumberStands(t) == \/ t # "primary"
                   \/ IsNext(<<"create", "blending">>)

(* A console that cannot open its stream does not run. *)
Begin(t, i) ==
  /\ hdThreads[t][i].pc = "born"
  /\ \E flag \in {1} \cup {0 : c \in {t} \cap Consoles} : hdRunning' = [hdRunning EXCEPT ![t] = flag]
  /\ \E mine \in {TRUE, NumberStands(t)} : Becomes(t, i, Thread0("loop", mine))
  /\ UNCHANGED <<hdApp, hdInit, live, ready, frames, service, about, hdInits, hdFails>>

(* The base band thread posts the semaphores of the first two that wait,   *)
(* the blending thread that of the audio output.                           *)
PostedBy(t) == CASE t = "bbin"     -> {"primary", "blending"} \cap HdThreads
                 [] t = "blending" -> {"audout"} \cap HdThreads
                 [] OTHER          -> {}

Posts(t) == /\ frames < MaxFrames /\ frames' = frames + 1
            /\ ready' = [u \in HdThreads |-> ready[u] + IF u \in PostedBy(t) THEN 1 ELSE 0]

(* One turn of the loop: the message that is there is handled, and the     *)
(* thread comes to where it waits.  The manager passes an opening and a    *)
(* tune on to the base band thread, the tune only if the service is open,  *)
(* and marks it open by the answer to an opening, whatever that says.  The *)
(* base band thread then needs samples, unless the opening failed at once  *)
(* or the tune changed neither band nor rate.                              *)
Handles(t) == CASE t = "manager" -> {"open", "tune", "opened"}
                [] t = "bbin"    -> {"opening", "tuning"}
                [] OTHER         -> {}

Handle(t) ==
  \/ /\ errand \notin Handles(t)
     /\ UNCHANGED service
  \/ /\ errand \in Handles(t)
     /\ errand' = CASE errand = "open"    -> "opening"
                    [] errand = "tune"    -> IF hdOpen THEN "tuning" ELSE "none"
                    [] errand = "opening" -> "opened"
                    [] OTHER              -> "none"
     /\ hdOpen' = (hdOpen \/ errand = "opened")
     /\ IF t = "bbin" THEN hdNeeded' \in {hdNeeded, TRUE} ELSE UNCHANGED hdNeeded

(* Where a turn of a thread may have to wait, but for the next round. *)
WaitsAt(t) == IF t \in Waiting THEN "wait" ELSE IF t = "bbin" THEN "samples" ELSE "loop"

Turn(t, i) ==
  /\ hdThreads[t][i].pc = "loop" /\ hdRunning[t] > 0
  /\ Handle(t)
  /\ Becomes(t, i, [hdThreads[t][i] EXCEPT !.pc = WaitsAt(t)])
  /\ \/ UNCHANGED <<ready, frames>>
     \/ t = "blending" /\ Posts(t)
  /\ <<hdThreads', ready', service'>> # <<hdThreads, ready, service>>
  /\ UNCHANGED <<hdApp, hdInit, hdRunning, live, about, hdInits, hdFails>>

(* The base band thread goes round until it has the samples it needs,      *)
(* which it reads only from an open framework; it looks at nothing else,   *)
(* not even at the flag by which it is stopped.  It posts the semaphores   *)
(* when there is enough for the others.                                    *)
NoSamplesNeeded(t, i) ==
  /\ hdThreads[t][i].pc = "samples" /\ ~hdNeeded
  /\ Becomes(t, i, [hdThreads[t][i] EXCEPT !.pc = "loop"])
  /\ UNCHANGED <<hdApp, hdInit, hdRunning, live, ready, frames, service, about, hdInits, hdFails>>

SamplesThere(t, i) ==
  /\ hdThreads[t][i].pc = "samples" /\ hdNeeded /\ hdOpen
  /\ Becomes(t, i, [hdThreads[t][i] EXCEPT !.pc = "loop"])
  /\ UNCHANGED <<ready, frames>> \/ Posts(t)
  /\ UNCHANGED <<hdApp, hdInit, hdRunning, live, service, about, hdInits, hdFails>>

(* sem_wait, and the look at the flag that follows it. *)
Awake(t, i) ==
  /\ hdThreads[t][i].pc = "wait" /\ hdThreads[t][i].mine
  /\ ready[t] > 0
  /\ ready' = [ready EXCEPT ![t] = @ - 1]
  /\ Becomes(t, i, [hdThreads[t][i] EXCEPT !.pc = IF hdRunning[t] # 1 THEN "leave" ELSE "loop"])
  /\ UNCHANGED <<hdApp, hdInit, hdRunning, live, frames, service, about, hdInits, hdFails>>

(* Out of the loop, and then the releases.  The flag and what is released  *)
(* may be a newer thread's by now.                                         *)
Leaves(t, i) ==
  /\ \/ hdThreads[t][i].pc = "loop" /\ hdRunning[t] <= 0
     \/ hdThreads[t][i].pc = "leave"
  /\ hdRunning' = [hdRunning EXCEPT ![t] = -1]
  /\ Becomes(t, i, [hdThreads[t][i] EXCEPT !.pc = "release"])
  /\ UNCHANGED <<hdApp, hdInit, live, ready, frames, service, about, hdInits, hdFails>>

Release(t, i) ==
  /\ hdThreads[t][i].pc = "release"
  /\ live' = live \ Releases(t)
  /\ hdThreads' = [hdThreads EXCEPT ![t] = RemoveAt(@, i)]
  /\ UNCHANGED <<hdApp, hdInit, hdRunning, ready, frames, service, about, hdInits, hdFails>>

HdThreadStep(t) == \E i \in DOMAIN hdThreads[t] :
  \/ Begin(t, i) \/ Turn(t, i) \/ NoSamplesNeeded(t, i) \/ Awake(t, i)
  \/ Leaves(t, i) \/ Release(t, i)

HdSamples(t) == \E i \in DOMAIN hdThreads[t] : SamplesThere(t, i)

HdLifeNext ==
  \/ HdInitBegin
  \/ \E p \in HdParts : MakePart(p)
  \/ HdOpen \/ HdTune \/ HdClose \/ HdDeinit
  \/ \E t \in HdThreads : Create(t) \/ Stop(t) \/ Wake(t) \/ HdThreadStep(t) \/ HdSamples(t)

(* The operating system runs every thread; tchdr_deinit goes on.  Samples  *)
(* need not come.                                                          *)
HdLifeFairness == \A t \in HdThreads : WF_hdLifeVars(HdThreadStep(t))
                                       /\ WF_hdLifeVars(Stop(t) \/ Wake(t))

HdLifeSpec == HdLifeInit /\ [][HdLifeNext]_hdLifeVars /\ HdLifeFairness

-----------------------------------------------------------------------------

(* An initialisation that met no thread of an earlier one and said OK,     *)
(* even after others that failed before they had created a thread, has     *)
(* every part made and every thread there once, consoles apart, and it     *)
(* stays so until a tchdr_deinit: nothing an earlier life left behind      *)
(* stops or releases anything of this one.                                 *)
HdWhole == (tidy /\ hdInit)
             => /\ live = Resources
                /\ \A t \in HdThreads \ Consoles :
                     /\ Len(hdThreads[t]) = 1
                     /\ hdThreads[t][1].pc \in {"born", "loop", "wait", "samples"}

(* A deinit that meets every thread at work ends all of them and releases  *)
(* everything, the threads that wait for a semaphore included, whatever    *)
(* was posted and taken meanwhile; unless an initialisation begins before. *)
(* A deinit that overtook an opening or a tune, or came to a framework     *)
(* whose close had been overtaken by one, may leave the base band thread   *)
(* behind, waiting for samples, with what it should have released: that    *)
(* thread and nothing else.                                                *)
OnlyBbWaits ==
  /\ overtaken /\ hdNeeded
  /\ \A t \in HdThreads \ {"bbin"} : hdThreads[t] = <<>>
  /\ "bbin" \in HdThreads /\ \A i \in DOMAIN hdThreads["bbin"] : hdThreads["bbin"][i].pc = "samples"
  /\ live = Releases("bbin")

HdStops == met ~> (~met \/ (NoThreads /\ live = {}) \/ OnlyBbWaits)

(* A primary thread at work has the number it was given: 'threadInstance-  *)
(* Num[0] = 0; // Primary Demod Thread' (tchdr_api.c:499).                 *)
PrimaryIsFirst == "primary" \in HdThreads =>
  \A i \in DOMAIN hdThreads["primary"] : hdThreads["primary"][i].mine
=============================================================================
