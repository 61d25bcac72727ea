----------------------------- MODULE RadioLife -----------------------------
(***************************************************************************)
(* Starting and stopping the radio middleware: tcradio_init and            *)
(* tcradio_deinit of mw/src/tcradio_api.c with the init, deinit and        *)
(* mainThread functions of the service, RDS, sound and background scan     *)
(* threads.  The threads are detached and nobody waits for them:           *)
(* tcradio_deinit sends two messages and returns, the service thread stops *)
(* itself and the RDS and sound threads by a flag each, and every thread   *)
(* frees its queue when it leaves its loop.                                *)
(***************************************************************************)
EXTENDS Integers, Sequences, SequencesExt

CONSTANTS MaxInits,   \* BOUND: calls of tcradio_init that get past its guard
          MaxFails    \* BOUND: creations and allocations that fail

ASSUME LifeAssumption == MaxInits \in Nat /\ MaxFails \in Nat

Parts   == {"service", "rds", "sound", "bg"}
NoQueue == <<"none">>

VARIABLES app,         \* where the application is in tcradio_init or _deinit
          fradioInit,  \* the middleware counts as initialised
          handle,      \* part -> its thread handle is set
          running,     \* part -> its fThreadRunning is positive
          msgs,        \* part -> its queue: NoQueue, or the DEINITs in it
          halUp, fifo, \* the HAL's drivers are configured; the audio fifo exists
          threads,     \* part -> its threads: where each is, and whether the last
                       \* message it took is a DEINIT
          calm,        \* a deinit was sent to threads that were all in their loops
          orderly,     \* the last init began with no thread about to end
          inited,      \* it returned eRET_OK, and no deinit was called since
          inits, fails \* initialisations and failures so far

lifeVars == <<app, fradioInit, handle, running, msgs, halUp, fifo, threads, calm, orderly,
              inited, inits, fails>>

Idle        == <<"idle", "none">>
At(p, step) == <<p, step>>
Thread(pc, again) == [pc |-> pc, again |-> again]

LifeTypeOK ==
  /\ app \in {Idle, At("bg", "deinit")}
             \cup (Parts \X {"create", "queue", "fifo"})
  /\ {fradioInit, halUp, fifo, calm, orderly, inited} \subseteq BOOLEAN
  /\ handle \in [Parts -> BOOLEAN] /\ running \in [Parts -> BOOLEAN]
  /\ \A p \in Parts : /\ msgs[p] = NoQueue \/ \A i \in DOMAIN msgs[p] : msgs[p][i] = "DEINIT"
                      /\ \A i \in DOMAIN threads[p] : threads[p][i] \in
                           [pc : {"born", "loop"}, again : BOOLEAN]
  /\ inits \in 0 .. MaxInits /\ fails \in 0 .. MaxFails

LifeInit ==
  /\ app = Idle /\ fradioInit = FALSE
  /\ handle = [p \in Parts |-> FALSE] /\ running = [p \in Parts |-> FALSE]
  /\ msgs = [p \in Parts |-> NoQueue]
  /\ halUp = FALSE /\ fifo = FALSE
  /\ threads = [p \in Parts |-> <<>>]
  /\ calm = FALSE /\ orderly = TRUE /\ inited = FALSE
  /\ inits = 0 /\ fails = 0

-----------------------------------------------------------------------------
(* A part is set up as it should be: one thread, which will run or runs,   *)
(* its handle and its queue.                                               *)

Exists(p)  == handle[p] /\ msgs[p] # NoQueue
Settled(p) == /\ Len(threads[p]) = 1
              /\ threads[p][1].pc = "loop" /\ running[p]
              /\ Exists(p) /\ msgs[p] = <<>>

(* No thread that lost its handle, or that a message will stop. *)
NoneEnding == \A p \in Parts : /\ Len(threads[p]) = IF handle[p] THEN 1 ELSE 0
                               /\ \A i \in DOMAIN threads[p] : threads[p][i].pc \in {"born", "loop"}
                               /\ handle[p] => running[p] \/ threads[p][1].pc = "born"
                               /\ msgs[p] \in {NoQueue, <<>>}

-----------------------------------------------------------------------------
(* The application: tcradio_init. *)

AfterPart(p) == CASE p = "service" -> At("rds", "create")
                  [] p = "rds"     -> At("sound", "create")
                  [] p = "sound"   -> At("bg", "create")
                  [] p = "bg"      -> Idle

InitBegin ==
  /\ app = Idle /\ ~fradioInit /\ inits < MaxInits
  /\ inits' = inits + 1
  /\ halUp' = TRUE
  /\ orderly' = NoneEnding /\ calm' = FALSE /\ inited' = FALSE
  /\ app' = At("service", "create")
  /\ UNCHANGED <<fradioInit, handle, running, msgs, fifo, threads, fails>>

(* Nothing that was started is undone, and fradioInit says 0 even when     *)
(* there is a service; a failure of the background scan leaves it at 1.    *)
Fail == /\ fails < MaxFails /\ fails' = fails + 1
        /\ app' = Idle

(* Wrong: the handle is not looked at. *)
CreatesAlways(p) == TRUE

Creates(p) == ~handle[p]

CreateThread(p) ==
  /\ app = At(p, "create")
  /\ \/ /\ Creates(p)
        /\ handle' = [handle EXCEPT ![p] = TRUE]
        /\ threads' = [threads EXCEPT ![p] = Append(@, Thread("born", FALSE))]
        /\ app' = At(p, "queue") /\ UNCHANGED fails
     \/ /\ ~Creates(p)
        /\ app' = At(p, "queue") /\ UNCHANGED <<handle, threads, fails>>
     \/ /\ Creates(p)
        /\ Fail /\ UNCHANGED <<handle, threads>>
  /\ UNCHANGED <<fradioInit, running, msgs, halUp, fifo, calm, orderly, inited, inits>>

(* A queue that is there is not freed: its messages are forgotten. *)
MessageInit(p) ==
  /\ app = At(p, "queue")
  /\ \/ /\ msgs' = [msgs EXCEPT ![p] = <<>>]
        /\ app' = IF p = "sound" THEN At(p, "fifo") ELSE AfterPart(p)
        /\ inited' = (p = "bg")
        /\ UNCHANGED fails
     \/ /\ msgs' = [msgs EXCEPT ![p] = NoQueue]
        /\ Fail /\ UNCHANGED inited
  /\ UNCHANGED <<fradioInit, handle, running, halUp, fifo, threads, calm, orderly, inits>>

FifoInit ==
  /\ app = At("sound", "fifo")
  /\ \/ fifo' = TRUE /\ fradioInit' = TRUE /\ app' = AfterPart("sound") /\ UNCHANGED fails
     \/ fifo' = FALSE /\ Fail /\ UNCHANGED fradioInit
  /\ UNCHANGED <<handle, running, msgs, halUp, threads, calm, orderly, inited, inits>>

-----------------------------------------------------------------------------
(* The application: tcradio_deinit. *)

Deinit ==
  /\ app = Idle /\ fradioInit
  /\ fradioInit' = FALSE /\ inited' = FALSE
  /\ calm' = \A p \in Parts : Settled(p)
  /\ IF msgs["service"] = NoQueue
       THEN UNCHANGED <<msgs, app>>
       ELSE /\ msgs' = [msgs EXCEPT !["service"] = Append(@, "DEINIT")]
            /\ app' = At("bg", "deinit")
  /\ UNCHANGED <<handle, running, halUp, fifo, threads, orderly, inits, fails>>

DeinitBg ==
  /\ app = At("bg", "deinit")
  /\ app' = Idle
  /\ msgs' = IF msgs["bg"] = NoQueue THEN msgs ELSE [msgs EXCEPT !["bg"] = Append(@, "DEINIT")]
  /\ UNCHANGED <<fradioInit, handle, running, halUp, fifo, threads, calm, orderly, inited, inits,
                 fails>>

-----------------------------------------------------------------------------
(* The i-th thread of part p. *)

Goes(p, i, pc, again) == threads' = [threads EXCEPT ![p][i] = Thread(pc, again)]

Start(p, i) ==
  /\ threads[p][i].pc = "born"
  /\ running' = [running EXCEPT ![p] = TRUE]
  /\ Goes(p, i, "loop", FALSE)
  /\ UNCHANGED <<app, fradioInit, handle, msgs, halUp, fifo, calm, orderly, inited, inits, fails>>

(* The DEINIT event of the service thread stops that thread, the sound     *)
(* thread and the RDS thread, that of the background scan its own.  Wrong: *)
(* the RDS thread is forgotten.                                            *)
StoppedByNoRds(p) == IF p = "bg" THEN {"bg"} ELSE {"service", "sound"}

StoppedBy(p) == IF p = "bg" THEN {"bg"} ELSE {"service", "sound", "rds"}

(* One turn of the loop.  Without a queue the last message stays marked    *)
(* new and is served again.  The sound thread looks at no queue, and       *)
(* nobody sends DEINIT to the RDS thread's.                                *)
ServeDeinit(p, i) ==
  /\ p \in {"service", "bg"}
  /\ threads[p][i].pc = "loop" /\ running[p]
  /\ \/ /\ msgs[p] # NoQueue /\ msgs[p] # <<>>
        /\ msgs' = [msgs EXCEPT ![p] = Tail(@)]
     \/ /\ msgs[p] = NoQueue /\ threads[p][i].again
        /\ UNCHANGED msgs
  /\ running' = [q \in Parts |-> running[q] /\ q \notin StoppedBy(p)]
  /\ handle' = [q \in Parts |-> handle[q] /\ q \notin StoppedBy(p)]
  /\ Goes(p, i, "loop", TRUE)
  /\ UNCHANGED <<app, fradioInit, halUp, fifo, calm, orderly, inited, inits, fails>>

ServeNothing(p, i) ==
  /\ threads[p][i].pc = "loop" /\ running[p] /\ threads[p][i].again
  /\ msgs[p] = <<>>
  /\ Goes(p, i, "loop", FALSE)
  /\ UNCHANGED <<app, fradioInit, handle, running, msgs, halUp, fifo, calm, orderly, inited, inits,
                 fails>>

(* Leaving the loop and ending: the flag, the queue, and the HAL's drivers *)
(* or the fifo.  All of these may be a newer thread's by now.              *)
Leave(p, i) ==
  /\ threads[p][i].pc = "loop" /\ ~running[p]
  /\ running' = [running EXCEPT ![p] = FALSE]
  /\ msgs' = [msgs EXCEPT ![p] = NoQueue]
  /\ halUp' = (halUp /\ p # "service")
  /\ fifo' = (fifo /\ p # "sound")
  /\ threads' = [threads EXCEPT ![p] = RemoveAt(@, i)]
  /\ UNCHANGED <<app, fradioInit, handle, calm, orderly, inited, inits, fails>>

ThreadStep(p) ==
  \E i \in DOMAIN threads[p] :
    \/ Start(p, i)
    \/ ServeDeinit(p, i) \/ ServeNothing(p, i)
    \/ Leave(p, i)

LifeNext == \/ InitBegin
            \/ \E p \in Parts : CreateThread(p) \/ MessageInit(p)
            \/ FifoInit
            \/ Deinit \/ DeinitBg
            \/ \E p \in Parts : ThreadStep(p)

(* The operating system runs every thread; tcradio_deinit goes on. *)
LifeFairness == /\ \A p \in Parts : WF_lifeVars(ThreadStep(p))
                /\ WF_lifeVars(DeinitBg)

LifeSpec == LifeInit /\ [][LifeNext]_lifeVars /\ LifeFairness

-----------------------------------------------------------------------------

(* An initialisation that met no ending thread and said OK has built       *)
(* everything, exactly once, even after others that failed halfway: the    *)
(* parts they left behind are taken over and not started a second time.    *)
(* It stays so until the next tcradio_deinit.                              *)
Whole ==
  (orderly /\ inited)
    => /\ halUp /\ fifo
       /\ \A p \in Parts : Exists(p) /\ Len(threads[p]) = 1

(* A deinit that finds every thread in its loop ends all of them and       *)
(* releases the queues, the fifo and the drivers, unless an initialisation *)
(* begins before they are gone.                                            *)
Released == /\ \A p \in Parts : threads[p] = <<>> /\ msgs[p] = NoQueue /\ ~handle[p]
            /\ ~halUp /\ ~fifo

DeinitStops == calm ~> (~calm \/ Released)
=============================================================================
