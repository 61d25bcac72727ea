------------------------------- MODULE HdLot --------------------------------
(***************************************************************************)
(* Large objects (images, texts) that a station sends beside its programs: *)
(* how the service thread of hd/src/mw/tchdr_service.c opens the ports of  *)
(* the programs asked for, collects the objects the core has reassembled,  *)
(* and hands them to the application as a pointer to one of its slots.     *)
(* The thread's loop is that of HdService, of which the parts that touch   *)
(* large objects are taken; the station stays received and tuned.          *)
(*                                                                         *)
(* The core is the environment (hd/src/core/hdrAas.h): it reassembles      *)
(* objects on open ports, lets them expire, and gives the body of an       *)
(* object once; whether a body that was given leaves the list is not said, *)
(* so both are modelled (keeps).                                           *)
(***************************************************************************)
EXTENDS Integers, Sequences, SequencesExt

CONSTANTS Station,     \* the services of the two types: [num, comps], comps
                       \* a sequence of [kind, channel]
          PROGRAMS,    \* HDR_MAX_NUM_PROGRAMS
          Masks,       \* the sets of programs that are asked for
          LOT, STATUS, \* passes between two looks: 50 and 25 in the code
          OBJECTS,     \* BOUND: objects that are sent
          REQUESTS,    \* BOUND: requests of the application
          LAG          \* BOUND: notifications the application is behind

Services == UNION {ToSet(Station[t]) : t \in DOMAIN Station}

ASSUME LotAssumption ==
  /\ DOMAIN Station = {1, 2} /\ \A t \in {1, 2} : Station[t] \in Seq(ToSet(Station[t]))
  /\ {PROGRAMS, LOT, STATUS} \subseteq Nat \ {0} /\ {OBJECTS, REQUESTS, LAG} \subseteq Nat
  /\ \A s \in Services : \A c \in ToSet(s.comps) : c.kind \in {"audio", "data"} /\ c.channel \in Nat
  /\ \A s, t \in Services : s.num = t.num => s = t

(* The services in the order of both loops (HDR_SIG_NUM_SERVICE_TYPES is 2) *)
(* with the index within the list of their own type: the slot they use.     *)
OfType(t) == [i \in DOMAIN Station[t] |-> [svc |-> Station[t][i], idx |-> i]]
Visits    == OfType(1) \o OfType(2)

VARIABLES svcQ,        \* requests to the service thread
          lot,         \* stTcHdrService.mainHdr.lot
          statusChk,   \* statusChkInterval
          pc,          \* where the service thread is
          visit,       \* the service it collects from
          prog,        \* lpp.Program_number, which outlives a visit
          slot,        \* stTcHdrMainLot
          appQ,        \* notifications the application has yet to follow
          sig,         \* the core knows the services of the station
          ports,       \* the ports that are open in the core
          objects,     \* the objects of each service; its list has them by id
          keeps,       \* the core keeps what it has given
          sent,        \* objects sent so far, which also numbers them
          told,        \* how often each object was notified
          age,         \* passes since the slot was last notified
          requests     \* requests so far

core == <<sig, ports, objects, keeps, sent>>
lotVars == <<svcQ, lot, statusChk, pc, visit, prog, slot, appQ, core, told, age, requests>>

ObjectIndices == {Visits[v].idx : v \in DOMAIN Visits}
Numbers == {s.num : s \in Services}
Empty   == [obj |-> 0, whole |-> FALSE]

LotTypeOK ==
  /\ lot \in [mask : Masks \cup {{}}, notify : BOOLEAN, chk : 0 .. LOT]
  /\ statusChk \in 0 .. STATUS /\ visit \in 1 .. Len(Visits) + 1 /\ prog \in Nat
  /\ pc \in {"message", "status", "look", "visit", "body", "end"}
  /\ slot \in [ObjectIndices -> [obj : 0 .. OBJECTS, whole : BOOLEAN]]
  /\ age \in [ObjectIndices -> 0 .. LOT] /\ sent \in 0 .. OBJECTS

LotInit ==
  /\ svcQ = <<>> /\ appQ = <<>> /\ requests = 0
  /\ lot = [mask |-> {}, notify |-> FALSE, chk |-> 0]
  /\ statusChk = STATUS /\ pc = "message" /\ visit = 1 /\ prog = 0
  /\ slot = [i \in ObjectIndices |-> Empty]
  /\ sig = FALSE /\ ports = {} /\ keeps \in BOOLEAN /\ sent = 0
  /\ objects = [n \in Numbers |-> {}]
  /\ told = [o \in 1 .. OBJECTS |-> 0] /\ age = [i \in ObjectIndices |-> LOT]

-----------------------------------------------------------------------------
(* The application (tchdr_enableLotNotification), and the core.            *)

EnableLotNotification(mask, en) ==
  /\ requests < REQUESTS
  /\ requests' = requests + 1
  /\ svcQ' = Append(svcQ, [mask |-> mask, en |-> en])
  /\ UNCHANGED <<lot, statusChk, pc, visit, prog, slot, appQ, core, told, age>>

ReceiveServices ==
  /\ ~sig /\ sig' = TRUE
  /\ UNCHANGED <<svcQ, lot, statusChk, pc, visit, prog, slot, appQ, ports, objects, keeps, sent, told, age, requests>>

Send(s, c) ==
  /\ [svc |-> s.num, port |-> c.channel] \in ports /\ sent < OBJECTS
  /\ sent' = sent + 1
  /\ objects' = [objects EXCEPT ![s.num] = @ \cup {[id |-> sent + 1, port |-> c.channel, complete |-> FALSE, given |-> FALSE]}]
  /\ UNCHANGED <<svcQ, lot, statusChk, pc, visit, prog, slot, appQ, sig, ports, keeps, told, age, requests>>

Complete(n) ==
  /\ \E o \in objects[n] :
       /\ ~o.complete
       /\ objects' = [objects EXCEPT ![n] = (@ \ {o}) \cup {[o EXCEPT !.complete = TRUE]}]
  /\ UNCHANGED <<svcQ, lot, statusChk, pc, visit, prog, slot, appQ, sig, ports, keeps, sent, told, age, requests>>

Expire(n) ==
  /\ \E o \in objects[n] : objects' = [objects EXCEPT ![n] = @ \ {o}]
  /\ UNCHANGED <<svcQ, lot, statusChk, pc, visit, prog, slot, appQ, sig, ports, keeps, sent, told, age, requests>>

-----------------------------------------------------------------------------
(* tchdrsvc_enableLotReassembly: the components in order, until an audio   *)
(* component of a program that is not asked for; a data component that     *)
(* stands before it is reached all the same.                               *)
Stops(c, mask) == c.kind = "audio" /\ (c.channel >= PROGRAMS \/ c.channel \notin mask)

Reached(s, mask) ==
  {c \in ToSet(s.comps) : /\ c.kind = "data"
                          /\ \E i \in DOMAIN s.comps : /\ s.comps[i] = c
                                                       /\ \A j \in 1 .. i : ~Stops(s.comps[j], mask)}

PortsOf(mask) ==
  IF sig THEN UNION {{[svc |-> s.num, port |-> c.channel] : c \in Reached(s, mask)} : s \in Services}
         ELSE {}

(* doReassembly: a port that is closed loses its objects. *)
Reassemble(mask, en) ==
  IF en THEN ports' = ports \cup PortsOf(mask) /\ UNCHANGED objects
        ELSE /\ ports' = ports \ PortsOf(mask)
             /\ objects' = [n \in Numbers |->
                  {o \in objects[n] : [svc |-> n, port |-> o.port] \notin PortsOf(mask)}]

-----------------------------------------------------------------------------
(* The service thread.                                                     *)

(* Wrong variants, to see the properties notice them: ports opened with    *)
(* the request only, an interval that starts anew only with a find, a body *)
(* that is told of again when it is read again, a look at the first object *)
(* of the list only.                                                       *)
NoRetry == UNCHANGED <<ports, objects>>
NotWaited == [lot EXCEPT !.chk = 0]
ToldAlways(o) == TRUE
FirstOfAll(list) == {o \in list : o.complete /\ \A x \in list : x.id >= o.id}

(* event_enable_get_lot *)
TakeRequest ==
  /\ pc = "message" /\ svcQ # <<>>
  /\ LET r == Head(svcQ) IN
       /\ lot' = [lot EXCEPT !.mask = r.mask, !.notify = r.en]
       /\ Reassemble(r.mask, r.en)
  /\ svcQ' = Tail(svcQ)
  /\ pc' = "status"
  /\ UNCHANGED <<statusChk, visit, prog, slot, appQ, sig, keeps, sent, told, age, requests>>

NoRequest ==
  /\ pc = "message" /\ svcQ = <<>>
  /\ pc' = "status"
  /\ UNCHANGED <<svcQ, lot, statusChk, visit, prog, slot, appQ, core, told, age, requests>>

StatusWait ==
  /\ pc = "status" /\ statusChk > 0
  /\ statusChk' = statusChk - 1
  /\ pc' = "look"
  /\ UNCHANGED <<svcQ, lot, visit, prog, slot, appQ, core, told, age, requests>>

(* doReassembly_Process: ports of services that were not known at the time *)
(* of the request are opened later.                                        *)
Retry == IF lot.notify THEN Reassemble(lot.mask, TRUE) ELSE UNCHANGED <<ports, objects>>

StatusLook ==
  /\ pc = "status" /\ statusChk = 0
  /\ Retry
  /\ statusChk' = STATUS
  /\ pc' = "look"
  /\ UNCHANGED <<svcQ, lot, visit, prog, slot, appQ, sig, keeps, sent, told, age, requests>>

Older == [i \in ObjectIndices |-> IF age[i] < LOT THEN age[i] + 1 ELSE LOT]

LotDue == lot.chk = 0 /\ lot.notify

LotWait ==
  /\ pc = "look" /\ ~LotDue
  /\ lot' = [lot EXCEPT !.chk = IF @ > 0 THEN @ - 1 ELSE 0]
  /\ pc' = "message"
  /\ age' = Older
  /\ UNCHANGED <<svcQ, statusChk, visit, prog, slot, appQ, core, told, requests>>

LotLook ==
  /\ pc = "look" /\ LotDue
  /\ visit' = IF sig THEN 1 ELSE Len(Visits) + 1
  /\ prog' = 0
  /\ pc' = "visit"
  /\ UNCHANGED <<svcQ, lot, statusChk, slot, appQ, core, told, age, requests>>

(* findLotServiceComponent: the program of the last audio component; none  *)
(* is program 0, and a service without components has that of the one      *)
(* before it.                                                              *)
Audio(s) == SelectSeq(s.comps, LAMBDA c : c.kind = "audio")

ProgramOf(s) == IF s.comps = <<>> THEN prog
                ELSE IF Audio(s) = <<>> THEN 0 ELSE Last(Audio(s)).channel

PassedOver(p) == p < PROGRAMS /\ p \notin lot.mask

(* checkLotComplete: the first complete object of the list, given or not. *)
Completed(list) == {o \in list : o.complete /\ \A x \in list : x.id < o.id => ~x.complete}

Current == Visits[visit]
List    == objects[Current.svc.num]

VisitNothing ==
  /\ pc = "visit" /\ visit <= Len(Visits)
  /\ PassedOver(ProgramOf(Current.svc)) \/ Completed(List) = {}
  /\ prog' = ProgramOf(Current.svc)
  /\ visit' = visit + 1
  /\ UNCHANGED <<svcQ, lot, statusChk, pc, slot, appQ, core, told, age, requests>>

(* buildLotHeader frees the slot, whatever it held, and makes it anew. *)
VisitObject ==
  /\ pc = "visit" /\ visit <= Len(Visits)
  /\ ~PassedOver(ProgramOf(Current.svc))
  /\ \E o \in Completed(List) : slot' = [slot EXCEPT ![Current.idx] = [obj |-> o.id, whole |-> FALSE]]
  /\ prog' = ProgramOf(Current.svc)
  /\ pc' = "body"
  /\ UNCHANGED <<svcQ, lot, statusChk, visit, appQ, core, told, age, requests>>

Given(o)   == o.given
ToldNow(o) == ~Given(o)
Here       == {o \in List : o.id = slot[Current.idx].obj}

(* buildLotBody: the body is copied by the first call on an object; on an  *)
(* object that was given it says so at once, and nobody is told.           *)
CopyBody ==
  /\ pc = "body" /\ \E o \in Here : ToldNow(o)
  /\ slot' = [slot EXCEPT ![Current.idx].whole = \A o \in Here : ~Given(o)]
  /\ pc' = "end"
  /\ UNCHANGED <<svcQ, lot, statusChk, visit, prog, appQ, core, told, age, requests>>

NoBody ==
  /\ pc = "body" /\ \A o \in Here : ~ToldNow(o)
  /\ visit' = visit + 1
  /\ pc' = "visit"
  /\ UNCHANGED <<svcQ, lot, statusChk, prog, slot, appQ, core, told, age, requests>>

(* The second call says that the body has ended; an object that expired in *)
(* between is dropped although it was copied.                              *)
EndBody ==
  /\ pc = "end"
  /\ IF Here # {}
       THEN /\ appQ' = Append(appQ, [idx |-> Current.idx, obj |-> slot[Current.idx].obj])
            /\ told' = [told EXCEPT ![slot[Current.idx].obj] = @ + 1]
            /\ age' = [age EXCEPT ![Current.idx] = 0]
            /\ objects' = [objects EXCEPT ![Current.svc.num] =
                 IF keeps THEN (@ \ Here) \cup {[o EXCEPT !.given = TRUE] : o \in Here}
                          ELSE @ \ Here]
       ELSE UNCHANGED <<appQ, told, age, objects>>
  /\ visit' = visit + 1
  /\ pc' = "visit"
  /\ UNCHANGED <<svcQ, lot, statusChk, prog, slot, sig, ports, keeps, sent, requests>>

Waited == [lot EXCEPT !.chk = LOT - 1]

LotDone ==
  /\ pc = "visit" /\ visit > Len(Visits) /\ Len(appQ) <= LAG
  /\ lot' = Waited
  /\ pc' = "message" /\ visit' = 1
  /\ age' = Older
  /\ UNCHANGED <<svcQ, statusChk, prog, slot, appQ, core, told, requests>>

(* The application follows the pointer, some time later. *)
Follow ==
  /\ appQ # <<>>
  /\ appQ' = Tail(appQ)
  /\ UNCHANGED <<svcQ, lot, statusChk, pc, visit, prog, slot, core, told, age, requests>>

-----------------------------------------------------------------------------
Pass == \/ TakeRequest \/ NoRequest \/ StatusWait \/ StatusLook \/ LotWait \/ LotLook
        \/ VisitNothing \/ VisitObject \/ CopyBody \/ NoBody \/ EndBody \/ LotDone

LotNext ==
  \/ \E mask \in Masks, en \in BOOLEAN : EnableLotNotification(mask, en)
  \/ ReceiveServices
  \/ \E s \in Services : \E c \in ToSet(s.comps) : Send(s, c)
  \/ \E n \in Numbers : Complete(n) \/ Expire(n)
  \/ Pass \/ Follow

(* The thread loops for ever, and the application follows its pointers. *)
LotFairness == WF_lotVars(Pass) /\ WF_lotVars(Follow)

LotSpec == LotInit /\ [][LotNext]_lotVars

LotFairSpec == LotSpec /\ LotFairness

-----------------------------------------------------------------------------

(* The slot is indexed within a type of services, so two services share it *)
(* when both types have so many.                                           *)
Shared(i) == \E v, w \in DOMAIN Visits : v # w /\ Visits[v].idx = i /\ Visits[w].idx = i

Newest(k) == \A j \in k + 1 .. Len(appQ) : appQ[j].idx # appQ[k].idx

(* A notification leads to its object, whole, until LOT passes have gone   *)
(* by, although the slot is freed and filled again for every object and    *)
(* nobody waits for the reader -- unless a service of the other type has   *)
(* the same index.                                                         *)
SlotHeld ==
  \A k \in DOMAIN appQ : age[appQ[k].idx] < LOT /\ Newest(k) /\ ~Shared(appQ[k].idx) =>
    slot[appQ[k].idx] = [obj |-> appQ[k].obj, whole |-> TRUE]

(* An object is notified once, however long it stays in the core's list    *)
(* and however often it is found there.                                    *)
ToldOnce == \A o \in DOMAIN told : told[o] <= 1

Waiting(v, o) ==
  LET list == objects[Visits[v].svc.num]
  IN \E x \in list :
       /\ x.id = o /\ x.complete /\ ~x.given
       /\ \A y \in list : y.id < o => ~(y.complete /\ y.given)
       /\ lot.notify /\ Visits[v].svc.comps # <<>> /\ ~PassedOver(ProgramOf(Visits[v].svc))

(* Every complete object of a program asked for is notified in the end --  *)
(* unless an earlier one that was given stays before it in the list.       *)
ObjectsServed ==
  \A v \in DOMAIN Visits, o \in 1 .. OBJECTS : []<>~Waiting(v, o)

(* The ports of the programs asked for are open in the end, whether the    *)
(* request or the list of services came first.                             *)
PortsOpened == <>[](lot.notify => PortsOf(lot.mask) \subseteq ports)
=============================================================================
