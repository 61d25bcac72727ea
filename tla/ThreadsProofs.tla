--------------------------- MODULE ThreadsProofs ---------------------------
(***************************************************************************)
(* The threads beside the radio service's own, for every number of calls,  *)
(* overruns and requests: openings and closings of the HD framework leave  *)
(* its drivers as its flag says; the background scan lists each station    *)
(* once and stops for good; the sub-manager answers each request once and  *)
(* goes by the service's band.                                             *)
(***************************************************************************)
EXTENDS HdSession, BgScan, SubManager, BandProofs, SequenceTheorems, FiniteSetTheorems, FunctionTheorems, TLAPS

-----------------------------------------------------------------------------
(* Counting the messages of a queue.                                       *)

Places(q, S) == {i \in DOMAIN q : q[i] \in S}
Count(q, S)  == Cardinality(Places(q, S))
One(b)       == IF b THEN 1 ELSE 0

LEMMA PlacesFinite ==
  ASSUME NEW T, NEW q \in Seq(T), NEW S
  PROVE  /\ Places(q, S) \subseteq 1 .. Len(q)
         /\ IsFiniteSet(Places(q, S))
         /\ Count(q, S) \in Nat
<1>1. Len(q) \in Nat /\ DOMAIN q = 1 .. Len(q)
  BY LenProperties
<1>2. Places(q, S) \subseteq 1 .. Len(q)
  BY <1>1 DEF Places
<1>3. IsFiniteSet(1 .. Len(q))
  BY <1>1, FS_Interval
<1>4. IsFiniteSet(Places(q, S))
  BY <1>2, <1>3, FS_Subset
<1> QED
  BY <1>2, <1>4, FS_CardinalityType DEF Count

LEMMA CountNone ==
  ASSUME NEW T, NEW q \in Seq(T), NEW S, Count(q, S) = 0
  PROVE  \A i \in DOMAIN q : q[i] \notin S
<1>1. Places(q, S) = {}
  BY PlacesFinite, FS_EmptySet DEF Count
<1> QED
  BY <1>1 DEF Places

LEMMA CountEmpty == ASSUME NEW S PROVE Count(<<>>, S) = 0
<1>1. Places(<<>>, S) = {}
  BY DEF Places
<1> QED
  BY <1>1, FS_EmptySet DEF Count

(* A message sent is counted, *)
LEMMA CountAppend ==
  ASSUME NEW T, NEW q \in Seq(T), NEW x \in T, NEW S
  PROVE  Count(Append(q, x), S) = Count(q, S) + One(x \in S)
<1> DEFINE n == Len(q) + 1
           a == Append(q, x)
<1>1. /\ Len(q) \in Nat /\ DOMAIN q = 1 .. Len(q)
      /\ DOMAIN a = 1 .. n /\ a[n] = x
      /\ \A i \in 1 .. Len(q) : a[i] = q[i]
  BY LenProperties, AppendProperties
<1>2. n \notin Places(q, S)
  BY <1>1 DEF Places
<1>3. CASE x \in S
  <2>1. Places(a, S) = Places(q, S) \cup {n}
    BY <1>1, <1>3 DEF Places
  <2>2. Cardinality(Places(q, S) \cup {n}) = Cardinality(Places(q, S)) + 1
    BY <1>2, PlacesFinite, FS_AddElement
  <2> QED
    BY <1>3, <2>1, <2>2 DEF Count, One
<1>4. CASE x \notin S
  <2>1. Places(a, S) = Places(q, S)
    BY <1>1, <1>4 DEF Places
  <2> QED
    BY <1>4, <2>1, PlacesFinite DEF Count, One
<1> QED
  BY <1>3, <1>4

(* and one received is counted no more. *)
LEMMA CountTail ==
  ASSUME NEW T, NEW q \in Seq(T), q # <<>>, NEW S
  PROVE  Count(q, S) = One(Head(q) \in S) + Count(Tail(q), S)
<1> DEFINE t == Tail(q)
           later == Places(q, S) \ {1}
           f == [i \in Places(t, S) |-> i + 1]
<1>1. /\ Len(q) \in Nat \ {0} /\ DOMAIN q = 1 .. Len(q)
      /\ t \in Seq(T) /\ DOMAIN t = 1 .. Len(q) - 1
      /\ \A i \in 1 .. Len(q) - 1 : t[i] = q[i + 1]
  BY EmptySeq, LenProperties, HeadTailProperties
<1>2. IsFiniteSet(Places(t, S)) /\ Count(t, S) \in Nat /\ Count(q, S) \in Nat /\ IsFiniteSet(Places(q, S))
  BY <1>1, PlacesFinite
<1>3. \A i \in Places(t, S) : i \in Nat \ {0} /\ i + 1 \in later
  BY <1>1 DEF Places
<1>4. \A j \in later : j \in Int /\ j - 1 \in Places(t, S) /\ (j - 1) + 1 = j
  BY <1>1 DEF Places
<1>5. f \in Bijection(Places(t, S), later)
  <2>1. f \in [Places(t, S) -> later]
    BY <1>3
  <2>2. \A i, j \in Places(t, S) : f[i] = f[j] => i = j
    BY <1>3
  <2>3. \A j \in later : \E i \in Places(t, S) : f[i] = j
    BY <1>4
  <2> QED
    BY <2>1, <2>2, <2>3, Fun_IsBij
<1>6. Cardinality(later) = Count(t, S)
  BY <1>2, <1>5, FS_Bijection DEF ExistsBijection, Count
<1>7. Cardinality(later) = IF 1 \in Places(q, S) THEN Count(q, S) - 1 ELSE Count(q, S)
  BY <1>2, FS_RemoveElement DEF Count
<1>8. 1 \in Places(q, S) <=> Head(q) \in S
  BY <1>1 DEF Places
<1> QED
  BY <1>2, <1>6, <1>7, <1>8 DEF One

-----------------------------------------------------------------------------
(* The session of the HD framework.                                        *)

(* What is left of a list of steps after the first k. *)
Rest(s, k) == SubSeq(s, k + 1, Len(s))

LEMMA RestProperties ==
  ASSUME NEW T, NEW s \in Seq(T)
  PROVE  /\ Rest(s, 0) = s
         /\ Rest(s, Len(s)) = <<>>
         /\ \A k \in 0 .. Len(s) - 1 : /\ Rest(s, k) # <<>>
                                       /\ Head(Rest(s, k)) = s[k + 1]
                                       /\ Tail(Rest(s, k)) = Rest(s, k + 1)
<1>1. Len(s) \in Nat
  BY LenProperties
<1>2. Rest(s, 0) = s
  BY SubSeqFull DEF Rest
<1>3. Rest(s, Len(s)) = <<>>
  BY <1>1, SubSeqEmpty DEF Rest
<1>4. ASSUME NEW k \in 0 .. Len(s) - 1
      PROVE  /\ Rest(s, k) # <<>>
             /\ Head(Rest(s, k)) = s[k + 1]
             /\ Tail(Rest(s, k)) = Rest(s, k + 1)
  <2>1. k + 1 \in 1 .. Len(s) /\ Len(s) \in k + 1 .. Len(s)
    BY <1>1
  <2>2. \A i \in k + 1 .. Len(s) : s[i] \in T
    BY <1>1, ElementOfSeq
  <2>3. Len(SubSeq(s, k + 1, Len(s))) = Len(s) - k
    BY <1>1, <2>1, <2>2, SubSeqProperties
  <2>4. Len(s) - k # 0 /\ (k + 1) + 1 \in Int
    BY <1>1
  <2>5. SubSeq(s, k + 1, Len(s)) # <<>>
    BY <2>3, <2>4
  <2>6. /\ Head(SubSeq(s, k + 1, Len(s))) = s[k + 1]
        /\ Tail(SubSeq(s, k + 1, Len(s))) = SubSeq(s, (k + 1) + 1, Len(s))
    BY <2>1, HeadTailOfSubSeq
  <2> QED
    BY <2>5, <2>6 DEF Rest
<1> QED
  BY <1>2, <1>3, <1>4

(* The openings asked for and not answered yet are in the queues and the   *)
(* threads, each of them once.                                             *)
Pending == {"OPEN", "OPENED", "REFUSED"}
OnTheWay == Count(svcQ, Pending) + One(svc \in Pending) + Count(bbQ, {"OPEN"}) + One(bb = "opening")
AllCounted == asked - told = OnTheWay

SessionTypes ==
  /\ asked \in Int /\ told \in Int
  /\ svcQ \in Seq(Answers \cup Asks \cup {"TUNED"})
  /\ svc \in Answers \cup Asks \cup {"TUNED", "none"}
  /\ bbQ \in Seq(Asks \cup {"DELAY_RESET"})
  /\ start \in [Inputs \cup {"bb"} -> BOOLEAN]
  /\ dev \in [Inputs -> {"closed", "open", "started"}]

(* A driver that runs and one that is closed. *)
Works(i) == dev[i] = "started" /\ start[i]
Gone(i)  == dev[i] = "closed" /\ ~start[i]

HasAnswer(q) == \E j \in DOMAIN q : q[j] \in Answers
AnswerDue   == svc \in Answers \/ HasAnswer(svcQ)
Idle        == bb \notin {"opening", "recovering"}

(* What the first k steps of an opening and of a recovery have done. *)
OpenedSoFar(k) ==
  /\ k >= 5 => dev["iq"] # "closed"
  /\ k >= 6 => dev["aud"] # "closed"
  /\ k >= 7 => Works("aud")
  /\ k >= 8 => Works("iq")

RecoveredSoFar(k) ==
  /\ k >= 4 => dev["aud"] # "closed"
  /\ k >= 5 => dev["iq"] # "closed"
  /\ k >= 6 => Works("aud")
  /\ k >= 7 => Works("iq")

OpeningGoes ==
  bb = "opening" => \E k \in 0 .. 8 :
    /\ todo = Rest(OpenSteps, k)
    /\ stray \/ refused \/ OpenedSoFar(k)

RecoveryGoes ==
  bb = "recovering" => \E k \in 0 .. 8 :
    /\ todo = Rest(RecoverSteps, k)
    /\ stray \/ open
    /\ stray \/ refused \/ RecoveredSoFar(k)

ClosingGoes ==
  \E k \in 0 .. 3 :
    /\ closing = Rest(CloseSteps, k)
    /\ \/ stray \/ closing = <<>>
       \/ asked = told /\ ~open /\ Idle /\ (k >= 1 => Gone("iq"))

Resting ==
  Idle => /\ todo = <<>>
          /\ closing # <<>> \/ stray \/
               IF open \/ AnswerDue THEN refused \/ (Works("iq") /\ Works("aud"))
                                    ELSE Gone("iq") /\ Gone("aud")

SessionInv == SessionTypes /\ AllCounted /\ OpeningGoes /\ RecoveryGoes /\ ClosingGoes /\ Resting

(* The steps of the three. *)
Steps == {"conditions", "framework", "clear", "openIq", "openAud", "startIq", "startAud", "startAll",
          "closeIq", "closeBb", "closeAud"}

LEMMA OpenStepsLeft ==
  /\ Rest(OpenSteps, 0) = OpenSteps /\ Rest(OpenSteps, 8) = <<>>
  /\ \A k \in 0 .. 7 : /\ Rest(OpenSteps, k) # <<>>
                        /\ Head(Rest(OpenSteps, k)) = OpenSteps[k + 1]
                        /\ Tail(Rest(OpenSteps, k)) = Rest(OpenSteps, k + 1)
<1>1. OpenSteps \in Seq(Steps)
  BY DEF OpenSteps, Steps
<1>2. Len(OpenSteps) = 8
  BY DEF OpenSteps
<1>3. /\ Rest(OpenSteps, 0) = OpenSteps
      /\ Rest(OpenSteps, Len(OpenSteps)) = <<>>
      /\ \A k \in 0 .. Len(OpenSteps) - 1 : /\ Rest(OpenSteps, k) # <<>>
                                          /\ Head(Rest(OpenSteps, k)) = OpenSteps[k + 1]
                                          /\ Tail(Rest(OpenSteps, k)) = Rest(OpenSteps, k + 1)
  BY <1>1, RestProperties
<1>4. 0 .. Len(OpenSteps) - 1 = 0 .. 7
  BY <1>2
<1> QED
  BY <1>2, <1>3, <1>4

LEMMA RecoverStepsLeft ==
  /\ Rest(RecoverSteps, 0) = RecoverSteps /\ Rest(RecoverSteps, 8) = <<>>
  /\ \A k \in 0 .. 7 : /\ Rest(RecoverSteps, k) # <<>>
                        /\ Head(Rest(RecoverSteps, k)) = RecoverSteps[k + 1]
                        /\ Tail(Rest(RecoverSteps, k)) = Rest(RecoverSteps, k + 1)
<1>1. RecoverSteps \in Seq(Steps)
  BY DEF RecoverSteps, Steps
<1>2. Len(RecoverSteps) = 8
  BY DEF RecoverSteps
<1>3. /\ Rest(RecoverSteps, 0) = RecoverSteps
      /\ Rest(RecoverSteps, Len(RecoverSteps)) = <<>>
      /\ \A k \in 0 .. Len(RecoverSteps) - 1 : /\ Rest(RecoverSteps, k) # <<>>
                                          /\ Head(Rest(RecoverSteps, k)) = RecoverSteps[k + 1]
                                          /\ Tail(Rest(RecoverSteps, k)) = Rest(RecoverSteps, k + 1)
  BY <1>1, RestProperties
<1>4. 0 .. Len(RecoverSteps) - 1 = 0 .. 7
  BY <1>2
<1> QED
  BY <1>2, <1>3, <1>4

LEMMA CloseStepsLeft ==
  /\ Rest(CloseSteps, 0) = CloseSteps /\ Rest(CloseSteps, 3) = <<>> /\ CloseSteps # <<>>
  /\ \A k \in 0 .. 2 : /\ Rest(CloseSteps, k) # <<>>
                        /\ Head(Rest(CloseSteps, k)) = CloseSteps[k + 1]
                        /\ Tail(Rest(CloseSteps, k)) = Rest(CloseSteps, k + 1)
<1>1. CloseSteps \in Seq(Steps)
  BY DEF CloseSteps, Steps
<1>2. Len(CloseSteps) = 3
  BY DEF CloseSteps
<1>3. /\ Rest(CloseSteps, 0) = CloseSteps
      /\ Rest(CloseSteps, Len(CloseSteps)) = <<>>
      /\ \A k \in 0 .. Len(CloseSteps) - 1 : /\ Rest(CloseSteps, k) # <<>>
                                          /\ Head(Rest(CloseSteps, k)) = CloseSteps[k + 1]
                                          /\ Tail(Rest(CloseSteps, k)) = Rest(CloseSteps, k + 1)
  BY <1>1, RestProperties
<1>4. 0 .. Len(CloseSteps) - 1 = 0 .. 2
  BY <1>2
<1> QED
  BY <1>2, <1>3, <1>4 DEF CloseSteps

LEMMA HasAnswerAppend ==
  ASSUME NEW T, NEW q \in Seq(T), NEW x \in T
  PROVE  HasAnswer(Append(q, x)) <=> (HasAnswer(q) \/ x \in Answers)
<1>1. /\ Len(q) \in Nat /\ DOMAIN q = 1 .. Len(q)
      /\ DOMAIN Append(q, x) = 1 .. Len(q) + 1 /\ Append(q, x)[Len(q) + 1] = x
      /\ \A i \in 1 .. Len(q) : Append(q, x)[i] = q[i]
  BY LenProperties, AppendProperties
<1> QED
  BY <1>1 DEF HasAnswer

LEMMA HasAnswerTail ==
  ASSUME NEW T, NEW q \in Seq(T), q # <<>>
  PROVE  HasAnswer(q) <=> (Head(q) \in Answers \/ HasAnswer(Tail(q)))
<1>1. /\ Len(q) \in Nat \ {0} /\ DOMAIN q = 1 .. Len(q)
      /\ DOMAIN Tail(q) = 1 .. Len(q) - 1
      /\ \A i \in 1 .. Len(q) - 1 : Tail(q)[i] = q[i + 1]
  BY EmptySeq, LenProperties, HeadTailProperties
<1>2. HasAnswer(q) => Head(q) \in Answers \/ HasAnswer(Tail(q))
  <2> SUFFICES ASSUME NEW j \in DOMAIN q, q[j] \in Answers, j # 1
               PROVE  HasAnswer(Tail(q))
    BY <1>1 DEF HasAnswer
  <2>1. j - 1 \in DOMAIN Tail(q) /\ Tail(q)[j - 1] = q[j]
    BY <1>1
  <2> QED
    BY <2>1 DEF HasAnswer
<1>3. HasAnswer(Tail(q)) => HasAnswer(q)
  BY <1>1 DEF HasAnswer
<1>4. Head(q) \in Answers => HasAnswer(q)
  BY <1>1 DEF HasAnswer
<1> QED
  BY <1>2, <1>3, <1>4

(* A queue that is read or written keeps its type. *)
LEMMA QueueStep ==
  ASSUME NEW T, NEW q \in Seq(T), NEW r,
         r = q \/ (q # <<>> /\ r = Tail(q)) \/ \E x \in T : r = Append(q, x)
  PROVE  r \in Seq(T)
<1>1. CASE r = q
  BY <1>1
<1>2. CASE q # <<>> /\ r = Tail(q)
  BY <1>2, HeadTailProperties
<1>3. CASE \E x \in T : r = Append(q, x)
  BY <1>3, AppendProperties
<1> QED
  BY <1>1, <1>2, <1>3

LEMMA SessionInvInit == Init => SessionInv
<1> SUFFICES ASSUME Init PROVE SessionInv
  OBVIOUS
<1>1. SessionTypes
  BY DEF Init, SessionTypes, Inputs
<1>2. AllCounted
  BY CountEmpty DEF Init, AllCounted, OnTheWay, One, Pending
<1>3. OpeningGoes /\ RecoveryGoes
  BY DEF Init, OpeningGoes, RecoveryGoes
<1>4. ClosingGoes
  BY CloseStepsLeft DEF Init, ClosingGoes
<1>5. Resting
  BY DEF Init, Resting, AnswerDue, HasAnswer, Answers, Gone, Inputs
<1> QED
  BY <1>1, <1>2, <1>3, <1>4, <1>5 DEF SessionInv

LEMMA SessionTypesNext == SessionTypes /\ [Next]_vars => SessionTypes'
<1> SUFFICES ASSUME SessionTypes, [Next]_vars PROVE SessionTypes'
  OBVIOUS
<1> USE DEF Answers, Asks
<1>1. asked' \in Int /\ told' \in Int
  BY DEF SessionTypes, Next, vars, calls, queues, Open, TchdrSetTune, Close, CloseThreads, ServiceThread, SvcTake, EventOpen,
         EventSetTune, NotifyOpen, NotifyTune, BbInputThread, NoMessage, BeginOpen, DelayReset, SetTune,
         AnswerTune, Step, Refuse, Answer, CountDown, BeginRecovery, EndRecovery, ReadSamples,
         InputThread, BeginRead, ReadDone, Overrun, SetBbStart
<1>2. svcQ' \in Seq(Answers \cup Asks \cup {"TUNED"})
  <2>1. \/ svcQ' = svcQ
        \/ svcQ # <<>> /\ svcQ' = Tail(svcQ)
        \/ \E x \in Answers \cup Asks \cup {"TUNED"} : svcQ' = Append(svcQ, x)
    BY DEF Next, vars, calls, queues, Open, TchdrSetTune, Close, CloseThreads, ServiceThread, SvcTake, EventOpen,
           EventSetTune, NotifyOpen, NotifyTune, BbInputThread, NoMessage, BeginOpen, DelayReset, SetTune,
           AnswerTune, Step, Refuse, Answer, CountDown, BeginRecovery, EndRecovery, ReadSamples,
           InputThread, BeginRead, ReadDone, Overrun, SetBbStart
  <2> QED
    BY <2>1, QueueStep DEF SessionTypes
<1>3. svc' \in Answers \cup Asks \cup {"TUNED", "none"}
  BY DEF SessionTypes, Next, vars, calls, queues, Open, TchdrSetTune, Close, CloseThreads, ServiceThread, SvcTake, EventOpen,
         EventSetTune, NotifyOpen, NotifyTune, BbInputThread, NoMessage, BeginOpen, DelayReset, SetTune,
         AnswerTune, Step, Refuse, Answer, CountDown, BeginRecovery, EndRecovery, ReadSamples,
         InputThread, BeginRead, ReadDone, Overrun, SetBbStart
<1>4. bbQ' \in Seq(Asks \cup {"DELAY_RESET"})
  <2>1. \/ bbQ' = bbQ
        \/ bbQ # <<>> /\ bbQ' = Tail(bbQ)
        \/ \E x \in Asks \cup {"DELAY_RESET"} : bbQ' = Append(bbQ, x)
    BY DEF Next, vars, calls, queues, Open, TchdrSetTune, Close, CloseThreads, ServiceThread, SvcTake, EventOpen,
           EventSetTune, NotifyOpen, NotifyTune, BbInputThread, NoMessage, BeginOpen, DelayReset, SetTune,
           AnswerTune, Step, Refuse, Answer, CountDown, BeginRecovery, EndRecovery, ReadSamples,
           InputThread, BeginRead, ReadDone, Overrun, SetBbStart
  <2> QED
    BY <2>1, QueueStep DEF SessionTypes
<1>5. /\ start' \in [Inputs \cup {"bb"} -> BOOLEAN]
      /\ dev' \in [Inputs -> {"closed", "open", "started"}]
  <2> USE DEF Inputs, Opened, Started, ClosedDev, hardware
  <2>1. CASE Step
    BY <2>1 DEF SessionTypes, Step, Conditions, Framework, ClearBuffers, OpenDriver, CloseDriver, StartDriver, StartAll
  <2>2. CASE CloseThreads
    BY <2>2 DEF SessionTypes, CloseThreads, TchdriqinputClose, TchdrbbinputClose, TchdraudinputClose
  <2>3. CASE BeginRecovery \/ SetBbStart
    BY <2>3 DEF SessionTypes, BeginRecovery, SetBbStart
  <2>4. CASE UNCHANGED <<start, dev>>
    BY <2>4 DEF SessionTypes
  <2> QED
    BY <2>1, <2>2, <2>3, <2>4 DEF Next, vars, Open, TchdrSetTune, Close, ServiceThread, SvcTake, EventOpen,
         EventSetTune, NotifyOpen, NotifyTune, BbInputThread, NoMessage, BeginOpen, DelayReset, SetTune,
         AnswerTune, Refuse, Answer, CountDown, EndRecovery, ReadSamples, InputThread, BeginRead, ReadDone, Overrun
<1> QED
  BY <1>1, <1>2, <1>3, <1>4, <1>5 DEF SessionTypes

LEMMA AllCountedNext == SessionTypes /\ AllCounted /\ [Next]_vars => AllCounted'
<1> SUFFICES ASSUME SessionTypes, AllCounted, [Next]_vars PROVE AllCounted'
  OBVIOUS
<1> DEFINE S == Answers \cup Asks \cup {"TUNED"}
           B == Asks \cup {"DELAY_RESET"}
<1>1. asked \in Int /\ told \in Int /\ svcQ \in Seq(S) /\ bbQ \in Seq(B)
  BY DEF SessionTypes
<1>2. Count(svcQ, Pending) \in Nat /\ Count(bbQ, {"OPEN"}) \in Nat
  BY <1>1, PlacesFinite
<1>3. asked - told = Count(svcQ, Pending) + One(svc \in Pending) + Count(bbQ, {"OPEN"}) + One(bb = "opening")
  BY DEF AllCounted, OnTheWay
<1>4. \A x \in S : Count(Append(svcQ, x), Pending) = Count(svcQ, Pending) + One(x \in Pending)
  BY <1>1, CountAppend
<1>5. \A x \in B : Count(Append(bbQ, x), {"OPEN"}) = Count(bbQ, {"OPEN"}) + One(x \in {"OPEN"})
  BY <1>1, CountAppend
<1>6. /\ Count(Append(svcQ, "OPEN"), Pending) = Count(svcQ, Pending) + 1
      /\ Count(Append(svcQ, "OPENED"), Pending) = Count(svcQ, Pending) + 1
      /\ Count(Append(svcQ, "REFUSED"), Pending) = Count(svcQ, Pending) + 1
      /\ Count(Append(svcQ, "TUNE"), Pending) = Count(svcQ, Pending)
      /\ Count(Append(svcQ, "TUNED"), Pending) = Count(svcQ, Pending)
  BY <1>2, <1>4 DEF One, Pending, Asks, Answers
<1>7. /\ Count(Append(bbQ, "OPEN"), {"OPEN"}) = Count(bbQ, {"OPEN"}) + 1
      /\ Count(Append(bbQ, "TUNE"), {"OPEN"}) = Count(bbQ, {"OPEN"})
      /\ Count(Append(bbQ, "DELAY_RESET"), {"OPEN"}) = Count(bbQ, {"OPEN"})
  BY <1>2, <1>5 DEF One, Asks
<1>8. svcQ # <<>> => /\ Count(Tail(svcQ), Pending) \in Nat
                     /\ Count(svcQ, Pending) = One(Head(svcQ) \in Pending) + Count(Tail(svcQ), Pending)
  BY <1>1, CountTail, HeadTailProperties, PlacesFinite
<1>9. bbQ # <<>> => /\ Count(Tail(bbQ), {"OPEN"}) \in Nat
                    /\ Count(bbQ, {"OPEN"}) = One(Head(bbQ) \in {"OPEN"}) + Count(Tail(bbQ), {"OPEN"})
  BY <1>1, CountTail, HeadTailProperties, PlacesFinite
<1> SUFFICES asked' - told' = Count(svcQ', Pending) + One(svc' \in Pending) + Count(bbQ', {"OPEN"})
                                + One(bb' = "opening")
  BY DEF AllCounted, OnTheWay
<1> USE DEF One, Pending
<1>11. CASE Open
  BY <1>1, <1>2, <1>3, <1>6, <1>11 DEF Open, thread
<1>12. CASE TchdrSetTune
  BY <1>1, <1>2, <1>3, <1>6, <1>12 DEF TchdrSetTune, thread
<1>13. CASE SvcTake
  BY <1>1, <1>2, <1>3, <1>8, <1>13 DEF SvcTake, calls, thread
<1>14. CASE EventOpen
  <2>1. /\ \/ told' = told + 1 /\ bbQ' = bbQ
           \/ told' = told /\ bbQ' = Append(bbQ, "OPEN")
        /\ svc = "OPEN" /\ svc' = "none" /\ asked' = asked /\ svcQ' = svcQ /\ bb' = bb
    BY <1>14 DEF EventOpen, thread
  <2> QED
    <3>1. CASE told' = told + 1 /\ bbQ' = bbQ
      BY <1>1, <1>2, <1>3, <2>1, <3>1
    <3>2. CASE told' = told /\ bbQ' = Append(bbQ, "OPEN")
      BY <1>1, <1>2, <1>3, <1>7, <2>1, <3>2
    <3> QED
      BY <2>1, <3>1, <3>2
<1>15. CASE EventSetTune
  BY <1>1, <1>2, <1>3, <1>7, <1>15 DEF EventSetTune, calls, thread
<1>16. CASE NotifyOpen
  BY <1>1, <1>2, <1>3, <1>16 DEF NotifyOpen, thread, Answers
<1>17. CASE NotifyTune
  BY <1>1, <1>2, <1>3, <1>17 DEF NotifyTune, thread, calls
<1>18. CASE BeginOpen
  BY <1>1, <1>2, <1>3, <1>9, <1>18 DEF BeginOpen, calls
<1>19. CASE DelayReset
  BY <1>1, <1>2, <1>3, <1>9, <1>19 DEF DelayReset, calls
<1>20. CASE SetTune
  BY <1>1, <1>2, <1>3, <1>9, <1>20 DEF SetTune, calls
<1>21. CASE AnswerTune
  BY <1>1, <1>2, <1>3, <1>6, <1>21 DEF AnswerTune, calls
<1>22. CASE Answer
  <2>1. /\ svcQ' = Append(svcQ, "OPENED") \/ svcQ' = Append(svcQ, "REFUSED")
        /\ bb = "opening" /\ bb' = "reset" /\ asked' = asked /\ told' = told /\ svc' = svc /\ bbQ' = bbQ
    BY <1>22 DEF Answer, calls
  <2> QED
    <3>1. CASE svcQ' = Append(svcQ, "OPENED")
      BY <1>1, <1>2, <1>3, <1>6, <2>1, <3>1
    <3>2. CASE svcQ' = Append(svcQ, "REFUSED")
      BY <1>1, <1>2, <1>3, <1>6, <2>1, <3>2
    <3> QED
      BY <2>1, <3>1, <3>2
<1>23. CASE \E i \in Inputs : Overrun(i)
  BY <1>1, <1>2, <1>3, <1>7, <1>23 DEF Overrun, calls, thread
<1>24. CASE UNCHANGED <<calls, queues>> /\ (bb' = "opening" <=> bb = "opening")
  BY <1>3, <1>24 DEF calls, queues
<1>25. CASE \/ NoMessage \/ Step \/ Refuse \/ CountDown \/ BeginRecovery \/ EndRecovery \/ ReadSamples
            \/ Close \/ CloseThreads \/ SetBbStart \/ (\E i \in Inputs : BeginRead(i) \/ ReadDone(i))
            \/ UNCHANGED vars
  <2>1. UNCHANGED <<calls, queues>> /\ (bb' = "opening" <=> bb = "opening")
    BY <1>25 DEF NoMessage, Step, Refuse, CountDown, BeginRecovery, EndRecovery, ReadSamples, Close, CloseThreads,
                 SetBbStart, BeginRead, ReadDone, thread, vars
  <2> QED
    BY <1>24, <2>1
<1> QED
  BY <1>11, <1>12, <1>13, <1>14, <1>15, <1>16, <1>17, <1>18, <1>19, <1>20, <1>21, <1>22, <1>23, <1>25
     DEF Next, ServiceThread, BbInputThread, InputThread

(* When every opening has its answer none is under way. *)
LEMMA NonePending ==
  ASSUME SessionTypes, AllCounted, asked = told
  PROVE  ~AnswerDue /\ svc # "OPEN" /\ bb # "opening" /\ \A j \in DOMAIN bbQ : bbQ[j] # "OPEN"
<1>1. svcQ \in Seq(Answers \cup Asks \cup {"TUNED"}) /\ bbQ \in Seq(Asks \cup {"DELAY_RESET"})
  BY DEF SessionTypes
<1>2. Count(svcQ, Pending) \in Nat /\ Count(bbQ, {"OPEN"}) \in Nat
  BY <1>1, PlacesFinite
<1>3. 0 = Count(svcQ, Pending) + One(svc \in Pending) + Count(bbQ, {"OPEN"}) + One(bb = "opening")
  BY DEF AllCounted, OnTheWay, SessionTypes
<1>4. One(svc \in Pending) \in Nat /\ One(bb = "opening") \in Nat
  BY DEF One
<1>5. Count(svcQ, Pending) = 0 /\ One(svc \in Pending) = 0 /\ Count(bbQ, {"OPEN"}) = 0 /\ One(bb = "opening") = 0
  BY <1>2, <1>3, <1>4
<1>6. \A j \in DOMAIN svcQ : svcQ[j] \notin Pending
  BY <1>1, <1>5, CountNone
<1>7. \A j \in DOMAIN bbQ : bbQ[j] \notin {"OPEN"}
  BY <1>1, <1>5, CountNone
<1>8. svc \notin Pending /\ bb # "opening"
  BY <1>5 DEF One
<1> QED
  BY <1>6, <1>7, <1>8 DEF AnswerDue, HasAnswer, Answers, Pending

LEMMA OpeningGoesNext == SessionInv /\ [Next]_vars => OpeningGoes'
<1> SUFFICES ASSUME SessionInv, [Next]_vars, bb' = "opening"
             PROVE  \E k \in 0 .. 8 : /\ todo' = Rest(OpenSteps, k)
                                      /\ stray' \/ refused' \/ OpenedSoFar(k)'
  BY DEF OpeningGoes
<1>0. start \in [Inputs \cup {"bb"} -> BOOLEAN] /\ dev \in [Inputs -> {"closed", "open", "started"}]
  BY DEF SessionInv, SessionTypes
<1>1. CASE BeginOpen
  BY <1>1, OpenStepsLeft DEF BeginOpen, OpenedSoFar
<1>2. ASSUME bb = "opening", ~BeginOpen
      PROVE  \E k \in 0 .. 8 : /\ todo' = Rest(OpenSteps, k)
                               /\ stray' \/ refused' \/ OpenedSoFar(k)'
  <2>1. PICK k \in 0 .. 8 : todo = Rest(OpenSteps, k) /\ (stray \/ refused \/ OpenedSoFar(k))
    BY <1>2 DEF SessionInv, OpeningGoes
  <2>2. CASE Step
    <3>1. k \in 0 .. 7 /\ todo' = Rest(OpenSteps, k + 1) /\ Head(todo) = OpenSteps[k + 1] /\ k + 1 \in 0 .. 8
      <4>1. todo # <<>> /\ todo' = Tail(todo)
        BY <2>2 DEF Step
      <4>2. k # 8
        BY <2>1, <4>1, OpenStepsLeft
      <4>3. k \in 0 .. 7 /\ k + 1 \in 0 .. 8
        BY <4>2
      <4> QED
        BY <2>1, <4>1, <4>3, OpenStepsLeft
    <3>2. UNCHANGED <<stray, refused>>
      BY <2>2 DEF Step, history
    <3>3. OpenedSoFar(k) => OpenedSoFar(k + 1)'
      <4> USE DEF Step, OpenedSoFar, Works, Inputs, OpenSteps, Conditions, Framework, ClearBuffers, OpenDriver,
                  CloseDriver, StartDriver, StartAll, Opened, Started, ClosedDev, hardware
      <4>1. CASE k \in 0 .. 3
        BY <4>1
      <4>2. CASE k = 4
        BY <1>0, <2>2, <3>1, <4>2
      <4>3. CASE k = 5
        BY <1>0, <2>2, <3>1, <4>3
      <4>4. CASE k = 6
        BY <1>0, <2>2, <3>1, <4>4
      <4>5. CASE k = 7
        BY <1>0, <2>2, <3>1, <4>5
      <4> QED
        BY <3>1, <4>1, <4>2, <4>3, <4>4, <4>5
    <3> QED
      BY <2>1, <3>1, <3>2, <3>3
  <2>3. CASE Refuse
    BY <1>2, <2>3, OpenStepsLeft DEF Refuse
  <2>4. CASE CloseThreads
    <3>1. stray
      BY <1>2, <2>4 DEF CloseThreads, SessionInv, ClosingGoes, Idle
    <3> QED
      BY <2>1, <2>4, <3>1 DEF CloseThreads, thread, history
  <2>5. CASE Close
    BY <2>1, <2>5 DEF Close, thread, hardware, OpenedSoFar, Works
  <2>6. CASE SetBbStart
    <3>1. /\ UNCHANGED <<todo, stray, refused, dev>>
          /\ \A i \in Inputs : start'[i] = start[i]
      BY <1>0, <2>6 DEF SetBbStart, thread, history, Inputs
    <3>2. OpenedSoFar(k)' <=> OpenedSoFar(k)
      BY <3>1 DEF OpenedSoFar, Works, Inputs
    <3> QED
      BY <2>1, <3>1, <3>2
  <2>7. CASE UNCHANGED <<todo, stray, refused, dev, start>>
    BY <2>1, <2>7 DEF OpenedSoFar, Works
  <2> QED
    BY <1>2, <2>2, <2>3, <2>4, <2>5, <2>6, <2>7
       DEF Next, vars, Open, TchdrSetTune, ServiceThread, SvcTake, EventOpen, EventSetTune, NotifyOpen, NotifyTune,
           BbInputThread, NoMessage, DelayReset, SetTune, AnswerTune, Answer, CountDown, BeginRecovery, EndRecovery,
           ReadSamples, InputThread, BeginRead, ReadDone, Overrun, thread, history, hardware
<1>3. bb = "opening" \/ BeginOpen
  BY DEF Next, vars, Open, TchdrSetTune, Close, CloseThreads, ServiceThread, SvcTake, EventOpen, EventSetTune,
         NotifyOpen, NotifyTune, BbInputThread, NoMessage, BeginOpen, DelayReset, SetTune, AnswerTune, Step, Refuse,
         Answer, CountDown, BeginRecovery, EndRecovery, ReadSamples, InputThread, BeginRead, ReadDone, Overrun,
         SetBbStart, thread
<1> QED
  BY <1>1, <1>2, <1>3

LEMMA RecoveryGoesNext == SessionInv /\ [Next]_vars => RecoveryGoes'
<1> SUFFICES ASSUME SessionInv, [Next]_vars, bb' = "recovering"
             PROVE  \E k \in 0 .. 8 : /\ todo' = Rest(RecoverSteps, k)
                                      /\ stray' \/ open'
                                      /\ stray' \/ refused' \/ RecoveredSoFar(k)'
  BY DEF RecoveryGoes
<1>0. start \in [Inputs \cup {"bb"} -> BOOLEAN] /\ dev \in [Inputs -> {"closed", "open", "started"}]
  BY DEF SessionInv, SessionTypes
<1>1. CASE BeginRecovery
  <2>1. todo' = Rest(RecoverSteps, 0) /\ 0 \in 0 .. 8
    BY <1>1, RecoverStepsLeft DEF BeginRecovery
  <2>2. stray' \/ open'
    BY <1>1, Zenon DEF BeginRecovery
  <2>3. RecoveredSoFar(0)'
    BY DEF RecoveredSoFar
  <2> QED
    BY <2>1, <2>2, <2>3
<1>2. ASSUME bb = "recovering"
      PROVE  \E k \in 0 .. 8 : /\ todo' = Rest(RecoverSteps, k)
                               /\ stray' \/ open'
                               /\ stray' \/ refused' \/ RecoveredSoFar(k)'
  <2>1. PICK k \in 0 .. 8 : /\ todo = Rest(RecoverSteps, k)
                            /\ stray \/ open
                            /\ stray \/ refused \/ RecoveredSoFar(k)
    BY <1>2 DEF SessionInv, RecoveryGoes
  <2>2. CASE Step
    <3>1. k \in 0 .. 7 /\ todo' = Rest(RecoverSteps, k + 1) /\ Head(todo) = RecoverSteps[k + 1] /\ k + 1 \in 0 .. 8
      <4>1. todo # <<>> /\ todo' = Tail(todo)
        BY <2>2 DEF Step
      <4>2. k # 8
        BY <2>1, <4>1, RecoverStepsLeft
      <4>3. k \in 0 .. 7 /\ k + 1 \in 0 .. 8
        BY <4>2
      <4> QED
        BY <2>1, <4>1, <4>3, RecoverStepsLeft
    <3>2. UNCHANGED <<stray, refused, open>>
      BY <2>2 DEF Step, history
    <3>3. RecoveredSoFar(k) => RecoveredSoFar(k + 1)'
      <4> USE DEF Step, RecoveredSoFar, Works, Inputs, RecoverSteps, Conditions, Framework, ClearBuffers, OpenDriver,
                  CloseDriver, StartDriver, StartAll, Opened, Started, ClosedDev, hardware
      <4>1. CASE k \in 0 .. 2
        BY <4>1
      <4>2. CASE k = 3
        BY <1>0, <2>2, <3>1, <4>2
      <4>3. CASE k = 4
        BY <1>0, <2>2, <3>1, <4>3
      <4>4. CASE k = 5
        BY <1>0, <2>2, <3>1, <4>4
      <4>5. CASE k = 6
        BY <1>0, <2>2, <3>1, <4>5
      <4>6. CASE k = 7
        BY <1>0, <2>2, <3>1, <4>6
      <4> QED
        BY <3>1, <4>1, <4>2, <4>3, <4>4, <4>5, <4>6
    <3> QED
      BY <2>1, <3>1, <3>2, <3>3
  <2>3. CASE Refuse
    <3>1. todo # <<>> /\ todo' = Tail(todo)
      BY <1>2, <2>3 DEF Refuse
    <3>2. k # 8
      BY <2>1, <3>1, RecoverStepsLeft
    <3>3. k \in 0 .. 7 /\ k + 1 \in 0 .. 8
      BY <3>2
    <3>4. todo' = Rest(RecoverSteps, k + 1)
      BY <2>1, <3>1, <3>3, RecoverStepsLeft
    <3> QED
      BY <2>1, <2>3, <3>3, <3>4 DEF Refuse
  <2>4. CASE CloseThreads
    <3>1. stray
      BY <1>2, <2>4 DEF CloseThreads, SessionInv, ClosingGoes, Idle
    <3> QED
      BY <2>1, <2>4, <3>1 DEF CloseThreads, thread, history
  <2>5. CASE Close
    BY <1>2, <2>1, <2>5 DEF Close, thread, hardware, RecoveredSoFar, Works
  <2>6. CASE SetBbStart
    <3>1. /\ UNCHANGED <<todo, stray, refused, dev, open>>
          /\ \A i \in Inputs : start'[i] = start[i]
      BY <1>0, <2>6 DEF SetBbStart, thread, history, Inputs
    <3>2. RecoveredSoFar(k)' <=> RecoveredSoFar(k)
      BY <3>1 DEF RecoveredSoFar, Works, Inputs
    <3> QED
      BY <2>1, <3>1, <3>2
  <2>7. CASE UNCHANGED <<todo, stray, refused, dev, start>> /\ (open => open')
    BY <2>1, <2>7 DEF RecoveredSoFar, Works
  <2> QED
    BY <1>2, <2>2, <2>3, <2>4, <2>5, <2>6, <2>7
       DEF Next, vars, Open, TchdrSetTune, ServiceThread, SvcTake, EventOpen, EventSetTune, NotifyOpen, NotifyTune,
           BbInputThread, NoMessage, BeginOpen, DelayReset, SetTune, AnswerTune, Answer, CountDown, BeginRecovery,
           EndRecovery, ReadSamples, InputThread, BeginRead, ReadDone, Overrun, thread, history, hardware
<1>3. bb = "recovering" \/ BeginRecovery
  BY DEF Next, vars, Open, TchdrSetTune, Close, CloseThreads, ServiceThread, SvcTake, EventOpen, EventSetTune,
         NotifyOpen, NotifyTune, BbInputThread, NoMessage, BeginOpen, DelayReset, SetTune, AnswerTune, Step, Refuse,
         Answer, CountDown, BeginRecovery, EndRecovery, ReadSamples, InputThread, BeginRead, ReadDone, Overrun,
         SetBbStart, thread
<1> QED
  BY <1>1, <1>2, <1>3

LEMMA ClosingGoesNext == SessionInv /\ [Next]_vars => ClosingGoes'
<1> SUFFICES ASSUME SessionInv, [Next]_vars
             PROVE  ClosingGoes'
  OBVIOUS
<1>0. start \in [Inputs \cup {"bb"} -> BOOLEAN] /\ dev \in [Inputs -> {"closed", "open", "started"}]
  BY DEF SessionInv, SessionTypes
<1>1. asked = told => ~AnswerDue /\ svc # "OPEN" /\ bb # "opening"
  BY NonePending DEF SessionInv
<1>2. PICK k \in 0 .. 3 :
        /\ closing = Rest(CloseSteps, k)
        /\ \/ stray \/ closing = <<>>
           \/ asked = told /\ ~open /\ Idle /\ (k >= 1 => Gone("iq"))
  BY DEF SessionInv, ClosingGoes
<1>3. CASE Close
  <2>1. closing' = Rest(CloseSteps, 0) /\ 0 \in 0 .. 3
    BY <1>3, CloseStepsLeft DEF Close
  <2>2. stray' \/ (asked' = told' /\ ~open' /\ Idle')
    BY <1>1, <1>3 DEF Close, calls, thread, Idle
  <2> QED
    BY <2>1, <2>2 DEF ClosingGoes
<1>4. CASE CloseThreads
  <2>1. k \in 0 .. 2 /\ k + 1 \in 0 .. 3
    <3>1. k # 3
      BY <1>2, <1>4, CloseStepsLeft DEF CloseThreads
    <3> QED
      BY <3>1
  <2>2. closing' = Rest(CloseSteps, k + 1) /\ Head(closing) = CloseSteps[k + 1]
    BY <1>2, <1>4, <2>1, CloseStepsLeft DEF CloseThreads
  <2>3. stray \/ (asked = told /\ ~open /\ Idle /\ (k >= 1 => Gone("iq")))
    BY <1>2, <1>4 DEF CloseThreads
  <2>4. UNCHANGED <<stray, asked, told, open, bb>>
    BY <1>4 DEF CloseThreads, history, calls, thread
  <2>5. (k >= 1 => Gone("iq")) => Gone("iq")'
    <3> USE DEF CloseThreads, TchdriqinputClose, TchdrbbinputClose, TchdraudinputClose, ClosedDev, Gone, Inputs
    <3>1. CASE k = 0
      BY <1>0, <1>4, <2>2, <3>1 DEF CloseSteps
    <3>2. CASE k \in {1, 2}
      BY <1>0, <1>4, <2>2, <3>2 DEF CloseSteps
    <3> QED
      BY <2>1, <3>1, <3>2
  <2> QED
    BY <2>1, <2>2, <2>3, <2>4, <2>5 DEF ClosingGoes, Idle
<1>5. ASSUME ~Close, ~CloseThreads, closing # <<>>, ~stray'
      PROVE  asked' = told' /\ ~open' /\ Idle' /\ (k >= 1 => Gone("iq"))'
  <2>1. CASE ~stray
    <3>1. asked = told /\ ~open /\ Idle /\ (k >= 1 => Gone("iq")) /\ todo = <<>>
      BY <1>2, <1>5, <2>1 DEF SessionInv, Resting
    <3>2. ~NotifyOpen /\ ~EventOpen
      BY <1>1, <3>1 DEF NotifyOpen, EventOpen, AnswerDue
    <3>3. ~BeginOpen /\ ~BeginRecovery
      BY <1>5, <3>1 DEF BeginOpen, BeginRecovery
    <3>4. UNCHANGED <<asked, told, open, dev>> /\ Idle' /\ start'["iq"] = start["iq"]
      BY <1>0, <1>5, <3>1, <3>2, <3>3
         DEF Next, vars, Open, MutexFree, TchdrSetTune, ServiceThread, SvcTake, EventSetTune, NotifyTune,
             BbInputThread, NoMessage, DelayReset, SetTune, AnswerTune, Step, Refuse, Answer, CountDown, EndRecovery,
             ReadSamples, InputThread, BeginRead, ReadDone, Overrun, SetBbStart, Idle, calls, thread, hardware, Inputs
    <3> QED
      BY <3>1, <3>4 DEF Gone
  <2>2. CASE stray
    <3>1. BeginOpen
      BY <1>5, <2>2
         DEF Next, vars, Open, TchdrSetTune, ServiceThread, SvcTake, EventOpen, EventSetTune, NotifyOpen, NotifyTune,
             BbInputThread, NoMessage, DelayReset, SetTune, AnswerTune, Step, Refuse, Answer, CountDown, BeginRecovery,
             EndRecovery, ReadSamples, InputThread, BeginRead, ReadDone, Overrun, SetBbStart, history
    <3> QED
      BY <1>5, <3>1 DEF BeginOpen
  <2> QED
    BY <2>1, <2>2
<1>6. CASE ~Close /\ ~CloseThreads
  <2>1. closing' = closing
    BY <1>6
       DEF Next, vars, Open, TchdrSetTune, ServiceThread, SvcTake, EventOpen, EventSetTune, NotifyOpen, NotifyTune,
           BbInputThread, NoMessage, BeginOpen, DelayReset, SetTune, AnswerTune, Step, Refuse, Answer, CountDown,
           BeginRecovery, EndRecovery, ReadSamples, InputThread, BeginRead, ReadDone, Overrun, SetBbStart
  <2> QED
    BY <1>2, <1>5, <1>6, <2>1 DEF ClosingGoes
<1> QED
  BY <1>3, <1>4, <1>6

(* The answers on their way change only when one is sent or has arrived. *)
LEMMA AnswerDueNext ==
  ASSUME SessionTypes, [Next]_vars
  PROVE  /\ Answer => AnswerDue'
         /\ ~Answer /\ ~NotifyOpen => (AnswerDue' <=> AnswerDue)
<1> DEFINE S == Answers \cup Asks \cup {"TUNED"}
<1>1. svcQ \in Seq(S)
  BY DEF SessionTypes
<1>2. \A x \in S : HasAnswer(Append(svcQ, x)) <=> (HasAnswer(svcQ) \/ x \in Answers)
  BY <1>1, HasAnswerAppend
<1>3. svcQ # <<>> => (HasAnswer(svcQ) <=> (Head(svcQ) \in Answers \/ HasAnswer(Tail(svcQ))))
  BY <1>1, HasAnswerTail
<1>4. AnswerDue' <=> (svc' \in Answers \/ HasAnswer(svcQ'))
  BY DEF AnswerDue, HasAnswer
<1>5. CASE Answer
  <2>1. PICK x \in Answers : svcQ' = Append(svcQ, x)
    BY <1>5 DEF Answer, Answers
  <2> QED
    BY <1>2, <1>4, <2>1, <1>5 DEF Answer, NotifyOpen
<1>6. CASE Open \/ TchdrSetTune \/ AnswerTune
  <2>1. svc' = svc /\ \E x \in S \ Answers : svcQ' = Append(svcQ, x)
    BY <1>6 DEF Open, TchdrSetTune, AnswerTune, Answers, Asks
  <2>2. ~Answer /\ ~NotifyOpen
    BY <1>6 DEF Open, TchdrSetTune, AnswerTune, Answer, NotifyOpen, calls, thread
  <2> QED
    BY <1>2, <1>4, <2>1, <1>6 DEF AnswerDue, Open, TchdrSetTune, AnswerTune, Answer
<1>7. CASE SvcTake
  BY <1>3, <1>4, <1>7 DEF SvcTake, AnswerDue, Answer, Answers
<1>8. CASE EventOpen \/ EventSetTune \/ NotifyTune
  BY <1>4, <1>8 DEF EventOpen, EventSetTune, NotifyTune, AnswerDue, Answers, Answer
<1>9. CASE UNCHANGED <<svc, svcQ>>
  BY <1>4, <1>9 DEF AnswerDue, Answer
<1> QED
  BY <1>5, <1>6, <1>7, <1>8, <1>9
     DEF Next, vars, Close, CloseThreads, ServiceThread, BbInputThread, NoMessage, BeginOpen, DelayReset, SetTune,
         Step, Refuse, CountDown, BeginRecovery, EndRecovery, ReadSamples, InputThread, BeginRead, ReadDone,
         Overrun, SetBbStart, queues

LEMMA RestingNext == SessionInv /\ [Next]_vars => Resting'
<1> SUFFICES ASSUME SessionInv, [Next]_vars, Idle'
             PROVE  /\ todo' = <<>>
                    /\ closing' # <<>> \/ stray' \/
                         IF open' \/ AnswerDue' THEN refused' \/ (Works("iq") /\ Works("aud"))'
                                                ELSE (Gone("iq") /\ Gone("aud"))'
  BY DEF Resting
<1>0. start \in [Inputs \cup {"bb"} -> BOOLEAN] /\ dev \in [Inputs -> {"closed", "open", "started"}]
  BY DEF SessionInv, SessionTypes
<1>1. asked = told => ~AnswerDue /\ svc # "OPEN" /\ bb # "opening"
  BY NonePending DEF SessionInv
<1>2. /\ Answer => AnswerDue'
      /\ ~Answer /\ ~NotifyOpen => (AnswerDue' <=> AnswerDue)
  BY AnswerDueNext DEF SessionInv
<1>3. Idle => /\ todo = <<>>
              /\ closing # <<>> \/ stray \/
                   IF open \/ AnswerDue THEN refused \/ (Works("iq") /\ Works("aud"))
                                        ELSE Gone("iq") /\ Gone("aud")
  BY DEF SessionInv, Resting
<1>4. CASE Answer
  <2>1. PICK k \in 0 .. 8 : todo = Rest(OpenSteps, k) /\ (stray \/ refused \/ OpenedSoFar(k))
    BY <1>4 DEF SessionInv, OpeningGoes, Answer
  <2>2. todo = <<>>
    BY <1>4 DEF Answer
  <2>3. k \notin 0 .. 7
    BY <2>1, <2>2, OpenStepsLeft
  <2>4. k = 8
    BY <2>3
  <2>5. stray \/ refused \/ (Works("iq") /\ Works("aud"))
    BY <2>1, <2>4 DEF OpenedSoFar
  <2>6. UNCHANGED <<todo, stray, refused, dev, start>> /\ AnswerDue'
    BY <1>2, <1>4 DEF Answer, history, hardware
  <2> QED
    BY <2>2, <2>5, <2>6 DEF Works
<1>5. CASE EndRecovery
  <2>1. PICK k \in 0 .. 8 : /\ todo = Rest(RecoverSteps, k)
                            /\ stray \/ open
                            /\ stray \/ refused \/ RecoveredSoFar(k)
    BY <1>5 DEF SessionInv, RecoveryGoes, EndRecovery
  <2>2. todo = <<>>
    BY <1>5 DEF EndRecovery
  <2>3. k \notin 0 .. 7
    BY <2>1, <2>2, RecoverStepsLeft
  <2>4. k = 8
    BY <2>3
  <2>5. stray \/ refused \/ (Works("iq") /\ Works("aud"))
    BY <2>1, <2>4 DEF RecoveredSoFar
  <2>6. UNCHANGED <<todo, stray, refused, dev, start, open>>
    BY <1>5 DEF EndRecovery, history, hardware
  <2> QED
    BY <2>1, <2>2, <2>5, <2>6 DEF Works
<1>6. CASE CloseThreads
  <2>1. PICK k \in 0 .. 3 :
          /\ closing = Rest(CloseSteps, k)
          /\ stray \/ (asked = told /\ ~open /\ Idle /\ (k >= 1 => Gone("iq")))
    BY <1>6 DEF SessionInv, ClosingGoes, CloseThreads
  <2>2. UNCHANGED <<todo, stray, asked, told, open, bb>>
    BY <1>6 DEF CloseThreads, thread, history, calls
  <2>3. todo' = <<>>
    BY <1>3, <2>2 DEF Idle
  <2>4. ASSUME closing' = <<>>, ~stray'
        PROVE  ~open' /\ ~AnswerDue' /\ (Gone("iq") /\ Gone("aud"))'
    <3>1. k # 3
      BY <1>6, <2>1, CloseStepsLeft DEF CloseThreads
    <3>2. k \in 0 .. 2
      BY <3>1
    <3>3. Head(closing) = CloseSteps[k + 1] /\ closing' = Rest(CloseSteps, k + 1)
      BY <1>6, <2>1, <3>2, CloseStepsLeft DEF CloseThreads
    <3>4. k + 1 \notin 0 .. 2
      BY <2>4, <3>3, CloseStepsLeft
    <3>5. k = 2
      BY <3>2, <3>4
    <3>6. Gone("iq") /\ asked = told /\ ~open
      BY <2>1, <2>2, <2>4, <3>5
    <3>7. (Gone("iq") /\ Gone("aud"))'
      BY <1>0, <1>6, <3>3, <3>5, <3>6
         DEF CloseThreads, TchdriqinputClose, TchdrbbinputClose, TchdraudinputClose, ClosedDev, Gone, Inputs, CloseSteps
    <3>8. ~Answer /\ ~NotifyOpen
      BY <1>1, <3>6 DEF Answer, NotifyOpen, AnswerDue
    <3> QED
      BY <1>1, <1>2, <2>2, <3>6, <3>7, <3>8
  <2> QED
    BY <2>3, <2>4
<1>7. CASE NotifyOpen
  <2>1. UNCHANGED <<todo, stray, refused, dev, start, closing, bb>> /\ open' /\ AnswerDue
    BY <1>7 DEF NotifyOpen, thread, history, hardware, AnswerDue
  <2> QED
    BY <1>3, <2>1 DEF Works, Idle
<1>8. CASE Close
  BY <1>3, <1>8, CloseStepsLeft DEF Close, thread, Idle
<1>9. CASE SetBbStart
  <2>1. /\ UNCHANGED <<todo, stray, refused, dev, closing, bb, open>>
        /\ start'["iq"] = start["iq"] /\ start'["aud"] = start["aud"]
        /\ ~Answer /\ ~NotifyOpen
    BY <1>0, <1>9 DEF SetBbStart, thread, history, Inputs, Answer, NotifyOpen, Answers, queues
  <2> QED
    BY <1>2, <1>3, <2>1 DEF Works, Gone, Idle
<1>10. ASSUME ~Answer, ~EndRecovery, ~CloseThreads, ~NotifyOpen, ~Close, ~SetBbStart
       PROVE  UNCHANGED <<todo, stray, refused, dev, start, closing, open>> /\ Idle
  <2>1. ~BeginOpen /\ ~BeginRecovery
    BY DEF BeginOpen, BeginRecovery, Idle
  <2>2. ~Step /\ ~Refuse
    BY <1>3 DEF Step, Refuse, Idle, thread
  <2> QED
    BY <1>10, <2>1, <2>2
       DEF Next, vars, Open, TchdrSetTune, ServiceThread, SvcTake, EventOpen, EventSetTune, NotifyTune,
           BbInputThread, NoMessage, DelayReset, SetTune, AnswerTune, CountDown,
           ReadSamples, InputThread, BeginRead, ReadDone, Overrun, Idle, thread, history, hardware
<1>11. CASE ~Answer /\ ~EndRecovery /\ ~CloseThreads /\ ~NotifyOpen /\ ~Close /\ ~SetBbStart
  BY <1>2, <1>3, <1>10, <1>11 DEF Works, Gone
<1> QED
  BY <1>4, <1>5, <1>6, <1>7, <1>8, <1>9, <1>11

LEMMA SessionInvNext == SessionInv /\ [Next]_vars => SessionInv'
BY SessionTypesNext, AllCountedNext, OpeningGoesNext, RecoveryGoesNext, ClosingGoesNext, RestingNext DEF SessionInv

(* Whatever the interleaving of calls, closes, openings, refusals, overruns *)
(* and recoveries, for any number of them: at rest the drivers are as the   *)
(* framework's flag says.                                                   *)
THEOREM SessionDriversAgree == Spec => []DriversAgree
<1>1. SessionInv /\ [Next]_vars => SessionInv'
  BY SessionInvNext
<1>2. SessionInv => DriversAgree
  <2> SUFFICES ASSUME SessionInv, Settled, ~stray, NEW i \in Inputs
               PROVE  /\ ~open => dev[i] = "closed" /\ ~start[i]
                      /\ open /\ ~refused => dev[i] = "started" /\ start[i]
    BY DEF DriversAgree
  <2>1. ~AnswerDue /\ Idle
    BY NonePending DEF Settled, SessionInv, Idle
  <2>2. IF open THEN refused \/ (Works("iq") /\ Works("aud")) ELSE Gone("iq") /\ Gone("aud")
    BY <2>1 DEF SessionInv, Resting, Settled
  <2> QED
    BY <2>2, Zenon DEF Works, Gone, Inputs
<1> QED
  BY <1>1, <1>2, SessionInvInit, PTL DEF Spec

(* No opening is lost and none answered twice, through the queues of two    *)
(* threads, a reset that delays it and a closing that overtakes it: what    *)
(* was asked and not answered is under way, each opening in one place.      *)
OpeningsKept == told <= asked /\ asked - told = OnTheWay

THEOREM SessionOpeningsKept == Spec => []OpeningsKept
<1>1. SessionInv /\ [Next]_vars => SessionInv'
  BY SessionInvNext
<1>2. SessionInv => OpeningsKept
  <2> SUFFICES ASSUME SessionInv PROVE OpeningsKept
    OBVIOUS
  <2>1. asked \in Int /\ told \in Int /\ asked - told = OnTheWay
    BY DEF SessionInv, SessionTypes, AllCounted
  <2>2. Count(svcQ, Pending) \in Nat /\ Count(bbQ, {"OPEN"}) \in Nat
    BY PlacesFinite DEF SessionInv, SessionTypes
  <2>3. One(svc \in Pending) \in Nat /\ One(bb = "opening") \in Nat
    BY DEF One
  <2> QED
    BY <2>1, <2>2, <2>3 DEF OnTheWay, OpeningsKept
<1> QED
  BY <1>1, <1>2, SessionInvInit, PTL DEF Spec

-----------------------------------------------------------------------------
(* The background scan.                                                    *)

(* What the thread does in a state. *)
StateSteps == \/ OnAir \/ SetFreq \/ NoSignal \/ Signal \/ QualityThere \/ NotSettled \/ Station
              \/ EndPass \/ Wait \/ Restart

(* Only a tuner that is open has been tuned by the scan since others did. *)
Ours == opened # "yes" => foreign

LEMMA OursNext == Ours /\ [BgNext]_bgVars => Ours'
<1> SUFFICES ASSUME Ours, [BgNext]_bgVars PROVE Ours'
  OBVIOUS
<1>1. CASE CloseRadio \/ TuneSecondary
  BY <1>1 DEF CloseRadio, TuneSecondary, Ours
<1>2. CASE OpenRadio \/ ServiceOpens
  BY <1>2 DEF OpenRadio, ServiceOpens, Send, tunerVars, Ours
<1>3. CASE TakeStop \/ SetFreq \/ EndPass
  BY <1>3 DEF TakeStop, SetFreq, EndPass, TakeMessage, Handle, Tune, tunerVars, radio, Ours
<1>4. CASE UNCHANGED <<radio, tunerVars>>
  BY <1>4 DEF radio, tunerVars, Ours
<1>5. CASE BgStart \/ BgStop
  BY <1>5 DEF BgStart, BgStop, Send, tunerVars, Ours
<1> QED
  BY <1>1, <1>2, <1>3, <1>4, <1>5
     DEF BgNext, Application, BgThread, bgVars, GiveList, TakeNothing, TakeOpened, TakeStart, TakeMessage, Handle,
         OnAir, NoSignal, Signal, QualityThere, NotSettled, Station, Wait, Restart

(* Of the steps in a state only those of a scan that goes on do more than  *)
(* count down.                                                             *)
LEMMA OnAirStays ==
  ASSUME StateSteps, state = "on_air"
  PROVE  UNCHANGED <<state, quiet, tuner, foreign, fresh, position, result>>
<1>1. OnAir
  BY DEF StateSteps, SetFreq, NoSignal, Signal, QualityThere, NotSettled, Station, EndPass, Wait, Restart, Handle
<1> QED
  BY <1>1 DEF OnAir, Handle, tunerVars

LEMMA StopRestoresNext == Ours /\ StopRestores /\ [BgNext]_bgVars => StopRestores'
<1> SUFFICES ASSUME Ours, StopRestores, [BgNext]_bgVars, quiet'
             PROVE  state' = "on_air" /\ (fresh' /\ ~foreign' => tuner' = <<bgBand', startFreq'>>)
  BY DEF StopRestores
<1>1. CASE TakeStop
  BY <1>1 DEF TakeStop, StoppedState, Tune, Ours, TakeMessage, tunerVars, radio
<1>2. CASE TakeStart
  BY <1>2 DEF TakeStart
<1>3. CASE TakeOpened
  BY <1>3 DEF TakeOpened, StopRestores
<1>4. CASE StateSteps
  <2>1. quiet
    BY <1>4 DEF StateSteps, OnAir, SetFreq, NoSignal, Signal, QualityThere, NotSettled, Station, EndPass, Wait,
                Restart, Handle
  <2> QED
    BY <1>4, <2>1, OnAirStays DEF StopRestores, position
<1>5. CASE CloseRadio \/ TuneSecondary
  BY <1>5 DEF CloseRadio, TuneSecondary, Call, StopRestores
<1>6. CASE UNCHANGED <<state, quiet, tuner, foreign, fresh, position>>
  BY <1>6 DEF StopRestores, position
<1> QED
  BY <1>1, <1>2, <1>3, <1>4, <1>5, <1>6
     DEF BgNext, Application, BgThread, StateSteps, OpenRadio, BgStart, BgStop, Send, Call, ServiceOpens, GiveList,
         TakeNothing, bgVars, tunerVars, listing

(* For every application, band and number of calls: once stopped, the scan *)
(* does not come back by itself and has left the tuner where it found it.  *)
THEOREM ScanStopRestores == BgSpec => []StopRestores
<1>1. BgInit => Ours /\ StopRestores
  BY DEF BgInit, Ours, StopRestores
<1> QED
  BY <1>1, OursNext, StopRestoresNext, PTL DEF BgSpec

(* Until the first opening is handled the scan knows no frequency, and the *)
(* message of that opening comes before any other.                         *)
BandKnown ==
  /\ freq = None => /\ state = "on_air"
                    /\ queue # <<>> => Head(queue).cmd = "open"
                    /\ opened # "no" => queue # <<>>
  /\ freq # None => freq \in Nat /\ bgBand \in Bands

ScanTypes ==
  /\ queue \in Seq(Messages) /\ state \in Scanning \cup {"on_air", "wait"}
  /\ startFreq \in Nat /\ found \in Nat /\ list \in Seq(Nat)

(* Where a pass is, *)
OnBand == fresh => bgBand \in Bands /\ startFreq \in Grid(Conf[bgBand]) /\ freq \in Grid(Conf[bgBand])

(* what it has listed, *)
ListSoFar == fresh =>
  /\ IsInjective(list) /\ ToSet(list) \subseteq Grid(Conf[bgBand])
  /\ state = "start" => list = <<>>
  /\ state = "set_freq" => freq # startFreq /\ \A j \in DOMAIN list : list[j] = freq \/ Behind(startFreq, freq, list[j])
  /\ state \in Judging => \A j \in DOMAIN list : Behind(startFreq, freq, list[j])

(* and what it has counted: a full list is counted on. *)
CountsList(l, n) == n = Len(l) \/ (Len(l) = STATIONS /\ n > STATIONS)

FoundSoFar == fresh =>
  /\ Len(list) <= STATIONS
  /\ state \in Scanning \ {"stop"} => CountsList(list, found)
  /\ CountsList(list, found) \/ (found = Len(list) - 1 /\ Last(list) = startFreq)

LEMMA MessageFields ==
  ASSUME NEW m \in Messages
  PROVE  /\ m.cmd \in {"open", "start", "stop"}
         /\ m.cmd = "open" => m.band \in Bands /\ m.freq \in Nat
         /\ m.cmd = "start" => m.band \in Bands
<1>1. CASE m \in [cmd : {"open"}, band : Bands, freq : Nat]
  BY <1>1
<1>2. CASE m \in [cmd : {"start"}, band : Bands]
  BY <1>2
<1>3. CASE m \in [cmd : {"stop"}]
  BY <1>3
<1> QED
  BY <1>1, <1>2, <1>3 DEF Messages

(* What the application does to the queue. *)
LEMMA Sent ==
  ASSUME ScanTypes, OpenRadio \/ BgStart \/ BgStop
  PROVE  \E m \in Messages : /\ queue' = Append(queue, m)
                             /\ OpenRadio => m.cmd = "open"
<1>1. CASE OpenRadio
  <2>1. PICK b \in Bands : \E f \in Initial[b] : queue' = Append(queue, [cmd |-> "open", band |-> b, freq |-> f])
    BY <1>1 DEF OpenRadio, Send
  <2>2. PICK f \in Nat : queue' = Append(queue, [cmd |-> "open", band |-> b, freq |-> f])
    BY <2>1, BgAssumption
  <2> QED
    BY <2>2 DEF Messages
<1>2. CASE BgStart
  <2>1. PICK b \in Bands : queue' = Append(queue, [cmd |-> "start", band |-> b])
    BY <1>2 DEF BgStart, Send
  <2>2. ~OpenRadio
    BY <1>2 DEF BgStart, OpenRadio
  <2> QED
    BY <2>1, <2>2 DEF Messages
<1>3. CASE BgStop
  <2>1. ~OpenRadio
    BY <1>3 DEF BgStop, OpenRadio
  <2> QED
    BY <1>3, <2>1 DEF BgStop, Send, Messages
<1> QED
  BY <1>1, <1>2, <1>3

LEMMA ScanInit == BgInit => BandKnown /\ ScanTypes /\ OnBand /\ ListSoFar /\ FoundSoFar
BY DEF BgInit, BandKnown, ScanTypes, OnBand, ListSoFar, FoundSoFar

(* The frequencies the scan goes to are frequencies. *)
LEMMA NextFreqType ==
  ASSUME BandKnown, freq # None
  PROVE  /\ IsBand(Conf[bgBand]) /\ freq \in Nat /\ bgBand \in Bands
         /\ NextFreq(Conf[bgBand], freq, FALSE) \in Nat
<1>1. IsBand(Conf[bgBand]) /\ freq \in Nat /\ bgBand \in Bands
  BY BgAssumption DEF BandKnown
<1>2. NextFreq(Conf[bgBand], freq, FALSE) \in Nat
  BY <1>1 DEF NextFreq, IsBand
<1> QED
  BY <1>1, <1>2

LEMMA BandKnownNext == ScanTypes /\ BandKnown /\ [BgNext]_bgVars => ScanTypes' /\ BandKnown'
<1> SUFFICES ASSUME ScanTypes, BandKnown, [BgNext]_bgVars PROVE ScanTypes' /\ BandKnown'
  OBVIOUS
<1>0. None \notin Nat /\ None \notin Bands
  BY BgAssumption
<1>1. CASE OpenRadio \/ BgStart \/ BgStop
  <2>1. PICK m \in Messages : queue' = Append(queue, m) /\ (OpenRadio => m.cmd = "open")
    BY <1>1, Sent
  <2>2. UNCHANGED <<state, startFreq, found, list, freq, bgBand>>
    BY <1>1 DEF OpenRadio, BgStart, BgStop, Send, Call, position, result
  <2>3. queue' \in Seq(Messages) /\ queue' # <<>> /\ (queue # <<>> => Head(queue') = Head(queue))
                                 /\ (queue = <<>> => Head(queue') = m)
    BY <2>1, AppendProperties DEF ScanTypes
  <2>4. opened = "no" \/ queue # <<>> \/ OpenRadio \/ freq # None
    BY DEF BandKnown
  <2>5. OpenRadio \/ opened = "yes"
    BY <1>1 DEF BgStart, BgStop
  <2> QED
    BY <2>1, <2>2, <2>3, <2>4, <2>5 DEF ScanTypes, BandKnown
<1>2. CASE CloseRadio \/ TuneSecondary \/ ServiceOpens \/ GiveList \/ TakeNothing \/ UNCHANGED bgVars
  <2>1. UNCHANGED <<state, startFreq, found, list, freq, bgBand, queue>> /\ (opened = "no" => opened' = "no")
    BY <1>2 DEF CloseRadio, TuneSecondary, Call, ServiceOpens, GiveList, TakeNothing, bgVars, position, result, radio
  <2> QED
    BY <2>1 DEF ScanTypes, BandKnown
<1>3. CASE TakeOpened \/ TakeStart \/ TakeStop
  <2>1. queue # <<>> /\ queue' = Tail(queue)
    BY <1>3 DEF TakeOpened, TakeStart, TakeStop, TakeMessage
  <2>2. queue' \in Seq(Messages) /\ Head(queue) \in Messages
    BY <2>1, HeadTailProperties DEF ScanTypes
  <2>3. CASE TakeOpened
    <3>1. bgBand' \in Bands /\ freq' \in Nat
      BY <2>2, <2>3, MessageFields DEF TakeOpened, TakeMessage
    <3>2. UNCHANGED <<state, startFreq, found, list>>
      BY <2>3 DEF TakeOpened, result
    <3> QED
      BY <1>0, <2>2, <3>1, <3>2 DEF ScanTypes, BandKnown
  <2>4. CASE TakeStart
    <3>1. Head(queue).band \in Bands /\ freq # None
      BY <2>1, <2>2, <2>4, MessageFields DEF TakeStart, TakeMessage, BandKnown
    <3>2. Align(Conf[Head(queue).band], freq, FALSE) \in Nat
      <4>1. IsBand(Conf[Head(queue).band]) /\ freq \in Nat
        BY <3>1, BgAssumption DEF BandKnown
      <4>2. Align(Conf[Head(queue).band], freq, FALSE) \in Grid(Conf[Head(queue).band])
        BY <4>1, AlignOnGrid
      <4> QED
        BY <4>1, <4>2, GridRange
    <3>3. freq' \in Nat /\ startFreq' \in Nat /\ bgBand' \in Bands
      BY <2>4, <3>1, <3>2 DEF TakeStart
    <3>4. state' = "start" /\ found' = 0 /\ list' = <<>>
      BY <2>4 DEF TakeStart, StartState, NoneFound, EmptyList
    <3> QED
      <4>1. 0 \in Nat /\ <<>> \in Seq(Nat) /\ "start" \in Scanning \cup {"on_air", "wait"}
        BY EmptySeq DEF Scanning
      <4> QED
        BY <1>0, <2>2, <3>3, <3>4, <4>1 DEF ScanTypes, BandKnown
  <2>5. CASE TakeStop
    <3>1. freq # None
      BY <2>1, <2>5 DEF TakeStop, TakeMessage, BandKnown
    <3>2. freq' = startFreq /\ state' = "on_air" /\ UNCHANGED <<bgBand, startFreq, found, list>>
      BY <2>5 DEF TakeStop, StoppedState, result
    <3> QED
      BY <1>0, <2>2, <3>1, <3>2 DEF ScanTypes, BandKnown
  <2> QED
    BY <1>3, <2>3, <2>4, <2>5
<1>4. CASE StateSteps /\ state = "on_air"
  <2>1. UNCHANGED <<state, startFreq, found, list, freq, bgBand, queue, opened>>
    BY <1>4, OnAirStays
       DEF StateSteps, OnAir, SetFreq, NoSignal, Signal, QualityThere, NotSettled, Station, EndPass, Wait, Restart,
           Handle, radio, position, result
  <2> QED
    BY <2>1 DEF ScanTypes, BandKnown
<1>5. CASE StateSteps /\ state # "on_air"
  <2>1. freq # None /\ bgBand \in Bands /\ IsBand(Conf[bgBand]) /\ freq \in Nat
    BY <1>5, NextFreqType DEF BandKnown
  <2>2. queue' = queue /\ bgBand' = bgBand
    BY <1>5 DEF StateSteps, OnAir, SetFreq, NoSignal, Signal, QualityThere, NotSettled, Station, EndPass, Wait,
                Restart, Handle, position
  <2>3. state' \in Scanning \cup {"wait"}
    BY <1>5 DEF StateSteps, OnAir, SetFreq, NoSignal, Signal, QualityThere, NotSettled, Station, EndPass, Wait,
                Restart, Handle, NextState, Scanning, Judging
  <2>4. freq' \in Nat /\ startFreq' \in Nat
    <3>1. CASE SetFreq
      BY <2>1, <3>1, NextFreqType DEF SetFreq, ScanTypes
    <3>2. CASE Restart
      <4>1. IsBand(Conf[IF bgBand = FM THEN FM ELSE Default])
        BY BgAssumption
      <4> QED
        BY <3>2, <4>1 DEF Restart, IsBand
    <3>3. CASE EndPass
      BY <3>3 DEF EndPass, ScanTypes
    <3> QED
      BY <1>5, <2>1, <3>1, <3>2, <3>3
         DEF StateSteps, OnAir, NoSignal, Signal, QualityThere, NotSettled, Station, Wait, position, ScanTypes
  <2>5. found' \in Nat /\ list' \in Seq(Nat)
    <3>1. CASE Station
      BY <2>1, <3>1, AppendProperties DEF Station, Listed, ScanTypes
    <3>2. CASE Restart
      BY <3>2 DEF Restart, NoneFound, EmptyList
    <3> QED
      BY <1>5, <3>1, <3>2
         DEF StateSteps, OnAir, SetFreq, NoSignal, Signal, QualityThere, NotSettled, EndPass, Wait, result, ScanTypes
  <2> QED
    BY <1>0, <2>1, <2>2, <2>3, <2>4, <2>5 DEF ScanTypes, BandKnown
<1> QED
  BY <1>1, <1>2, <1>3, <1>4, <1>5 DEF BgNext, Application, BgThread, StateSteps

(* The steps that begin a pass and those that leave it as it is. *)
Elsewhere == UNCHANGED <<state, position, result, fresh>>

LEMMA ScanSteps ==
  ASSUME [BgNext]_bgVars
  PROVE  \/ Elsewhere \/ TakeOpened \/ TakeStart \/ TakeStop
         \/ StateSteps
BY DEF BgNext, Application, BgThread, StateSteps, OpenRadio, BgStart, BgStop, Send, CloseRadio, TuneSecondary, Call,
       ServiceOpens, GiveList, TakeNothing, Elsewhere, bgVars

LEMMA OnBandNext ==
  ASSUME ScanTypes, BandKnown, OnBand, [BgNext]_bgVars
  PROVE  OnBand'
<1> SUFFICES ASSUME fresh'
             PROVE  bgBand' \in Bands /\ startFreq' \in Grid(Conf[bgBand']) /\ freq' \in Grid(Conf[bgBand'])
  BY DEF OnBand
<1>1. CASE Elsewhere
  BY <1>1 DEF Elsewhere, position, OnBand
<1>2. CASE TakeOpened
  BY <1>2 DEF TakeOpened
<1>3. CASE TakeStart
  <2>1. queue # <<>> /\ Head(queue) \in Messages /\ Head(queue).cmd = "start"
    BY <1>3, HeadTailProperties DEF TakeStart, TakeMessage, ScanTypes
  <2>2. Head(queue).band \in Bands /\ freq \in Nat
    BY <2>1, MessageFields DEF BandKnown
  <2>3. Align(Conf[Head(queue).band], freq, FALSE) \in Grid(Conf[Head(queue).band])
    BY <2>2, BgAssumption, AlignOnGrid
  <2> QED
    BY <1>3, <2>2, <2>3 DEF TakeStart
<1>4. CASE TakeStop
  BY <1>4 DEF TakeStop, OnBand
<1>5. CASE StateSteps
  <2>1. CASE Restart
    <3>1. freq # None
      BY <2>1 DEF Restart, Handle, BandKnown
    <3>2. bgBand \in Bands /\ Conf[IF bgBand = FM THEN FM ELSE Default] = Conf[bgBand] /\ IsBand(Conf[bgBand])
      BY <3>1, BgAssumption DEF BandKnown
    <3>3. bgBand' = bgBand /\ freq' = Conf[bgBand].start /\ startFreq' = Conf[bgBand].start
      BY <2>1, <3>2 DEF Restart
    <3> QED
      BY <3>2, <3>3, StartOnGrid
  <2>2. CASE SetFreq
    <3>1. fresh /\ bgBand' = bgBand /\ startFreq' = startFreq /\ freq' = NextFreq(Conf[bgBand], freq, FALSE)
      BY <2>2 DEF SetFreq
    <3>2. bgBand \in Bands /\ startFreq \in Grid(Conf[bgBand]) /\ freq \in Grid(Conf[bgBand])
      BY <3>1 DEF OnBand
    <3> QED
      BY <3>1, <3>2, BgAssumption, NextFreqOnGrid
  <2>3. CASE EndPass
    BY <2>3 DEF EndPass, OnBand
  <2> QED
    BY <1>5, <2>1, <2>2, <2>3
       DEF StateSteps, OnAir, NoSignal, Signal, QualityThere, NotSettled, Station, Wait, position, OnBand
<1> QED
  BY <1>1, <1>2, <1>3, <1>4, <1>5, ScanSteps

(* With the station at hand the list is still one of the band's stations,  *)
(* each once. *)
LEMMA ListedOnce ==
  ASSUME ScanTypes, ListSoFar, OnBand, fresh, state = "chk", freq # None, BandKnown
  PROVE  LET l == Append(list, freq) IN
         /\ l \in Seq(Nat) /\ Len(l) = Len(list) + 1 /\ DOMAIN l = 1 .. Len(list) + 1
         /\ \A j \in DOMAIN l : l[j] = freq \/ Behind(startFreq, freq, l[j])
         /\ IsInjective(l) /\ ToSet(l) \subseteq Grid(Conf[bgBand])
         /\ l[Len(l)] = freq
<1> DEFINE l == Append(list, freq)
<1>1. /\ freq \in Nat /\ startFreq \in Nat /\ list \in Seq(Nat) /\ freq \in Grid(Conf[bgBand])
      /\ Len(list) \in Nat /\ DOMAIN list = 1 .. Len(list)
  BY LenProperties DEF ScanTypes, BandKnown, OnBand
<1>2. /\ l \in Seq(Nat) /\ Len(l) = Len(list) + 1 /\ DOMAIN l = 1 .. Len(list) + 1
      /\ l[Len(list) + 1] = freq /\ \A j \in 1 .. Len(list) : l[j] = list[j]
  BY <1>1, AppendProperties, LenProperties
<1>3. /\ IsInjective(list) /\ ToSet(list) \subseteq Grid(Conf[bgBand])
      /\ \A j \in DOMAIN list : Behind(startFreq, freq, list[j])
  BY DEF ListSoFar, Judging
<1>4. \A j \in 1 .. Len(list) : list[j] # freq
  BY <1>1, <1>3, ElementOfSeq DEF Behind
<1>5. IsInjective(l)
  BY <1>1, <1>2, <1>3, <1>4 DEF IsInjective
<1>6. ToSet(l) \subseteq Grid(Conf[bgBand])
  BY <1>1, <1>2, <1>3 DEF ToSet
<1>7. \A j \in DOMAIN l : l[j] = freq \/ Behind(startFreq, freq, l[j])
  BY <1>1, <1>2, <1>3
<1> QED
  BY <1>2, <1>5, <1>6, <1>7

LEMMA ListSoFarNext ==
  ASSUME ScanTypes, BandKnown, OnBand, ListSoFar, [BgNext]_bgVars
  PROVE  ListSoFar'
<1> DEFINE Orderly == /\ IsInjective(list') /\ ToSet(list') \subseteq Grid(Conf[bgBand'])
                      /\ state' = "start" => list' = <<>>
                      /\ state' = "set_freq" =>
                           /\ freq' # startFreq'
                           /\ \A j \in DOMAIN list' : list'[j] = freq' \/ Behind(startFreq', freq', list'[j])
                      /\ state' \in Judging => \A j \in DOMAIN list' : Behind(startFreq', freq', list'[j])
<1> SUFFICES ASSUME fresh' PROVE Orderly
  BY DEF ListSoFar
<1>0. list = <<>> => IsInjective(list) /\ ToSet(list) = {} /\ DOMAIN list = {}
  BY DEF IsInjective, ToSet
<1>1. CASE Elsewhere
  <2>1. fresh /\ UNCHANGED <<state, list, freq, startFreq, bgBand>>
    BY <1>1 DEF Elsewhere, position, result
  <2> QED
    BY <2>1 DEF ListSoFar
<1>2. CASE TakeOpened
  BY <1>2 DEF TakeOpened
<1>3. CASE TakeStart \/ Restart
  <2>1. list' = <<>> /\ state' = "start"
    BY <1>3 DEF TakeStart, Restart, Handle, EmptyList, StartState
  <2>2. IsInjective(list') /\ ToSet(list') = {}
    BY <2>1 DEF IsInjective, ToSet
  <2> QED
    BY <2>1, <2>2 DEF Judging
<1>4. CASE TakeStop
  <2>1. fresh /\ UNCHANGED <<list, bgBand>> /\ state' = "on_air"
    BY <1>4 DEF TakeStop, StoppedState, result
  <2> QED
    BY <2>1 DEF ListSoFar, Judging
<1>5. CASE EndPass \/ Wait \/ OnAir
  <2>1. fresh /\ UNCHANGED <<list, bgBand>> /\ state' \in {"on_air", "wait"}
    BY <1>5 DEF EndPass, Wait, OnAir, Handle, result, position
  <2> QED
    BY <2>1 DEF ListSoFar, Judging
<1>6. CASE Signal \/ QualityThere \/ NotSettled
  <2>1. fresh /\ UNCHANGED <<list, bgBand, freq, startFreq>> /\ state \in Judging /\ state' \in Judging
    BY <1>6 DEF Signal, QualityThere, NotSettled, Handle, result, position, Judging
  <2> QED
    BY <2>1 DEF ListSoFar, Judging
<1>7. CASE SetFreq
  <2>1. /\ fresh /\ UNCHANGED <<list, bgBand, startFreq>> /\ state' = "prechk"
        /\ state \in {"start", "set_freq"} /\ freq' = NextFreq(Conf[bgBand], freq, FALSE)
    BY <1>7 DEF SetFreq, Handle, result
  <2>2. /\ IsBand(Conf[bgBand]) /\ startFreq \in Grid(Conf[bgBand]) /\ freq \in Grid(Conf[bgBand])
        /\ IsInjective(list) /\ ToSet(list) \subseteq Grid(Conf[bgBand])
    BY <2>1, BgAssumption DEF OnBand, ListSoFar
  <2>3. \A j \in DOMAIN list : list[j] \in Grid(Conf[bgBand])
    BY <2>2 DEF ToSet
  <2>4. ASSUME NEW j \in DOMAIN list PROVE Behind(startFreq, freq', list[j])
    <3>1. state = "set_freq"
      BY <1>0, <2>1, <2>4 DEF ListSoFar
    <3>2. freq # startFreq /\ (list[j] = freq \/ Behind(startFreq, freq, list[j]))
      BY <2>1, <2>4, <3>1 DEF ListSoFar
    <3> QED
      BY <2>1, <2>2, <2>3, <3>2, RoundGoesOn
  <2> QED
    BY <2>1, <2>2, <2>4
<1>8. CASE NoSignal
  <2>1. /\ fresh /\ UNCHANGED <<list, bgBand, freq, startFreq>> /\ state \in Judging
        /\ state' = NextState
    BY <1>8 DEF NoSignal, Handle, result, position, Judging
  <2>2. state' \notin Judging /\ state' # "start" /\ (state' = "set_freq" => freq # startFreq)
    BY <2>1 DEF NextState, Judging
  <2> QED
    BY <2>1, <2>2 DEF ListSoFar
<1>9. CASE Station
  <2>1. /\ fresh /\ UNCHANGED <<bgBand, freq, startFreq>> /\ state = "chk"
        /\ state' = NextState /\ (list' = list \/ list' = Append(list, freq))
    BY <1>9 DEF Station, Handle, position, Listed
  <2>2. state' \notin Judging /\ state' # "start" /\ (state' = "set_freq" => freq # startFreq)
    BY <2>1 DEF NextState, Judging
  <2>3. freq # None
    BY <2>1 DEF BandKnown
  <2>4. CASE list' = list
    BY <2>1, <2>2, <2>4 DEF ListSoFar, Judging
  <2>5. CASE list' = Append(list, freq)
    BY <2>1, <2>2, <2>3, <2>5, ListedOnce
  <2> QED
    BY <2>1, <2>4, <2>5
<1> QED
  BY <1>1, <1>2, <1>3, <1>4, <1>5, <1>6, <1>7, <1>8, <1>9, ScanSteps DEF StateSteps

LEMMA FoundSoFarNext ==
  ASSUME ScanTypes, BandKnown, OnBand, ListSoFar, FoundSoFar, [BgNext]_bgVars
  PROVE  FoundSoFar'
<1> SUFFICES ASSUME fresh'
             PROVE  /\ Len(list') <= STATIONS
                    /\ state' \in Scanning \ {"stop"} => CountsList(list', found')
                    /\ CountsList(list', found') \/ (found' = Len(list') - 1 /\ Last(list') = startFreq')
  BY DEF FoundSoFar
<1>1. CASE Elsewhere
  <2>1. fresh /\ UNCHANGED <<state, list, found, startFreq>>
    BY <1>1 DEF Elsewhere, position, result
  <2> QED
    BY <2>1 DEF FoundSoFar
<1>2. CASE TakeOpened
  BY <1>2 DEF TakeOpened
<1>3. CASE TakeStart \/ Restart
  <2>1. list' = <<>> /\ found' = 0
    BY <1>3 DEF TakeStart, Restart, EmptyList, NoneFound
  <2>2. Len(list') = 0
    BY <2>1, EmptySeq
  <2> QED
    BY <2>1, <2>2, BgAssumption DEF CountsList
<1>4. CASE TakeStop
  BY <1>4 DEF TakeStop, StoppedState, result, FoundSoFar, Scanning, Judging
<1>5. CASE EndPass \/ Wait \/ OnAir
  <2>1. fresh /\ UNCHANGED <<list, found, startFreq>> /\ state' \in {"on_air", "wait"}
    BY <1>5 DEF EndPass, Wait, OnAir, Handle, result, position
  <2> QED
    BY <2>1 DEF FoundSoFar, Scanning, Judging
<1>6. CASE Signal \/ QualityThere \/ NotSettled \/ SetFreq \/ NoSignal
  <2>1. /\ fresh /\ UNCHANGED <<list, found, startFreq>> /\ state \in Scanning \ {"stop"}
        /\ state' \in Scanning
    BY <1>6 DEF Signal, QualityThere, NotSettled, SetFreq, NoSignal, NextState, Handle, result, position,
                Scanning, Judging
  <2> QED
    BY <2>1 DEF FoundSoFar
<1>7. CASE Station
  <2>1. /\ fresh /\ startFreq' = startFreq /\ state = "chk" /\ state' = NextState /\ list' = Listed
        /\ found' = IF freq = startFreq \/ found = FOUND THEN found ELSE found + 1
    BY <1>7 DEF Station, Handle, position
  <2>2. CountsList(list, found) /\ Len(list) <= STATIONS /\ found \in Nat /\ Len(list) \in Nat
    BY <2>1, LenProperties DEF FoundSoFar, Scanning, Judging, ScanTypes
  <2>3. STATIONS \in Nat /\ FOUND \in Nat /\ FOUND >= STATIONS
    BY BgAssumption
  <2>4. freq # startFreq => state' # "stop"
    BY <2>1 DEF NextState
  <2>5. CASE Len(list) = STATIONS
    <3>1. list' = list
      BY <2>1, <2>3, <2>5 DEF Listed
    <3>2. found' \in {found, found + 1}
      BY <2>1
    <3>3. CountsList(list', found')
      BY <2>2, <2>3, <2>5, <3>1, <3>2 DEF CountsList
    <3> QED
      BY <2>3, <2>5, <3>1, <3>3
  <2>6. CASE Len(list) < STATIONS
    <3>1. freq # None
      BY <2>1 DEF BandKnown
    <3> DEFINE l == Append(list, freq)
    <3>2. Len(l) = Len(list) + 1 /\ l[Len(l)] = freq
      BY <2>1, <3>1, ListedOnce
    <3>3. list' = l
      BY <2>1, <2>6 DEF Listed
    <3>4. found = Len(list) /\ found # FOUND
      BY <2>2, <2>3, <2>6 DEF CountsList
    <3> HIDE DEF l
    <3>5. CASE freq = startFreq
      <4>1. found' = found /\ state' = "stop" /\ Last(list') = startFreq' /\ Len(list') = found' + 1
        BY <2>1, <3>2, <3>3, <3>4, <3>5 DEF NextState, Last
      <4>2. found' = Len(list') - 1 /\ Len(list') <= STATIONS
        BY <2>2, <2>3, <2>6, <3>2, <3>3, <4>1
      <4> QED
        BY <4>1, <4>2
    <3>6. CASE freq # startFreq
      <4>1. found' = Len(list')
        BY <2>1, <3>2, <3>3, <3>4, <3>6
      <4>2. Len(list') <= STATIONS
        BY <2>2, <2>3, <2>6, <3>2, <3>3
      <4> QED
        BY <4>1, <4>2 DEF CountsList
    <3> QED
      BY <3>5, <3>6
  <2> QED
    BY <2>2, <2>3, <2>5, <2>6
<1> QED
  BY <1>1, <1>2, <1>3, <1>4, <1>5, <1>6, <1>7, ScanSteps DEF StateSteps

(* For all configurations of the two bands, however long the list may be:  *)
(* a pass lists every station once and counts what it lists, and on when   *)
(* the list is full.                                                       *)
THEOREM ScanStationsCounted == BgSpec => []StationsCounted
<1> DEFINE ScanInv == ScanTypes /\ BandKnown /\ OnBand /\ ListSoFar /\ FoundSoFar
<1>1. BgInit => ScanInv
  BY ScanInit
<1>2. ScanInv /\ [BgNext]_bgVars => ScanInv'
  BY BandKnownNext, OnBandNext, ListSoFarNext, FoundSoFarNext
<1>3. ScanInv => StationsCounted
  BY DEF ListSoFar, FoundSoFar, CountsList, StationsCounted
<1> HIDE DEF ScanInv
<1> QED
  BY <1>1, <1>2, <1>3, PTL DEF BgSpec

(* The list is in the order of the round: from the station after the start  *)
(* up, over the end of the band, to the start itself.                       *)
InOrder == fresh => \A i, j \in DOMAIN list : i < j => Behind(startFreq, list[j], list[i])

LEMMA InOrderNext ==
  ASSUME ScanTypes, BandKnown, OnBand, ListSoFar, InOrder, [BgNext]_bgVars
  PROVE  InOrder'
<1> SUFFICES ASSUME fresh'
             PROVE  \A i, j \in DOMAIN list' : i < j => Behind(startFreq', list'[j], list'[i])
  BY DEF InOrder
<1>1. CASE fresh /\ UNCHANGED <<list, startFreq>>
  BY <1>1 DEF InOrder
<1>2. CASE list' = <<>>
  BY <1>2
<1>3. CASE Elsewhere \/ SetFreq \/ NoSignal \/ Signal \/ QualityThere \/ NotSettled \/ EndPass \/ Wait \/ OnAir \/ TakeStop
  <2>1. fresh /\ UNCHANGED <<list, startFreq>>
    BY <1>3 DEF Elsewhere, SetFreq, NoSignal, Signal, QualityThere, NotSettled, EndPass, Wait, OnAir, TakeStop,
                Handle, result, position
  <2> QED
    BY <1>1, <2>1
<1>4. CASE TakeOpened
  BY <1>4 DEF TakeOpened
<1>5. CASE TakeStart \/ Restart
  BY <1>2, <1>5 DEF TakeStart, Restart, Handle, EmptyList, StartState
<1>6. CASE Station
  <2>1. fresh /\ startFreq' = startFreq /\ state = "chk" /\ (list' = list \/ list' = Append(list, freq))
    BY <1>6 DEF Station, Handle, position, Listed
  <2>2. CASE list' = Append(list, freq)
    <3>1. freq \in Nat /\ list \in Seq(Nat) /\ Len(list) \in Nat /\ DOMAIN list = 1 .. Len(list)
      BY <2>1, LenProperties DEF ScanTypes, BandKnown
    <3>2. /\ DOMAIN list' = 1 .. Len(list) + 1
          /\ list'[Len(list) + 1] = freq /\ \A j \in 1 .. Len(list) : list'[j] = list[j]
      BY <2>2, <3>1, AppendProperties, LenProperties
    <3>3. /\ \A j \in 1 .. Len(list) : Behind(startFreq, freq, list[j])
          /\ \A i, j \in 1 .. Len(list) : i < j => Behind(startFreq, list[j], list[i])
      BY <2>1, <3>1 DEF ListSoFar, Judging, InOrder
    <3>4. ASSUME NEW i \in 1 .. Len(list) + 1, NEW j \in 1 .. Len(list) + 1, i < j
          PROVE  Behind(startFreq, list'[j], list'[i])
      <4>1. i \in 1 .. Len(list)
        BY <3>1, <3>4
      <4>2. CASE j = Len(list) + 1
        BY <3>2, <3>3, <4>1, <4>2
      <4>3. CASE j \in 1 .. Len(list)
        BY <3>2, <3>3, <3>4, <4>1, <4>3
      <4> QED
        BY <3>1, <4>2, <4>3
    <3> QED
      BY <2>1, <3>2, <3>4
  <2> QED
    BY <1>1, <2>1, <2>2
<1> QED
  BY <1>3, <1>4, <1>5, <1>6, ScanSteps DEF StateSteps

THEOREM ScanListsInOrder == BgSpec => []InOrder
<1> DEFINE ScanInv == ScanTypes /\ BandKnown /\ OnBand /\ ListSoFar /\ InOrder
<1>1. BgInit => ScanInv
  BY ScanInit DEF BgInit, InOrder
<1>2. ScanInv /\ [BgNext]_bgVars => ScanInv'
  BY BandKnownNext, OnBandNext, ListSoFarNext, InOrderNext
<1> HIDE DEF ScanInv
<1>3. ScanInv => InOrder
  BY DEF ScanInv
<1> QED
  BY <1>1, <1>2, <1>3, PTL DEF BgSpec

-----------------------------------------------------------------------------
(* The manager of the sub-core: what the service's notifications say of    *)
(* its band.                                                               *)

Notices == [what : {"Open", "OpenFailed", "SetTune", "SetTuneSecondary", "SetSeek", "SeekQuality",
                    "SetHdrAudioMode", "HdrData"},
            band : Wavebands \cup {Nothing}, right : BOOLEAN, list : BOOLEAN]

SubTypes ==
  /\ cmds \in Seq(Requests) /\ notes \in Seq(Notices)
  /\ svcBand \in Wavebands \cup {Nothing} /\ isOpen \in BOOLEAN

(* The last notification that tells the service's band tells the one it has. *)
NoWord(q)      == \A j \in DOMAIN q : ~TellsBand(q[j])
LastWord(q, b) == \A j \in DOMAIN q :
                    TellsBand(q[j]) /\ (\A k \in DOMAIN q : k > j => ~TellsBand(q[k])) => q[j].band = b

BandInv == \/ unsaid
           \/ /\ LastWord(notes, svcBand)
              /\ svcBand # Nothing /\ ~misled /\ NoWord(notes) => curBand = svcBand

LEMMA WordAdded ==
  ASSUME NEW T, NEW q \in Seq(T), NEW n \in T
  PROVE  LET r == q \o <<n>> IN
         /\ r \in Seq(T)
         /\ TellsBand(n) => LastWord(r, n.band) /\ ~NoWord(r)
         /\ ~TellsBand(n) => /\ \A b : LastWord(q, b) => LastWord(r, b)
                             /\ NoWord(r) => NoWord(q)
<1> DEFINE r == q \o <<n>>
           m == Len(q) + 1
<1>1. /\ r \in Seq(T) /\ Len(q) \in Nat /\ DOMAIN q = 1 .. Len(q)
      /\ DOMAIN r = 1 .. m /\ r[m] = n /\ \A i \in 1 .. Len(q) : r[i] = q[i]
  <2>1. <<n>> \in Seq(T) /\ Len(<<n>>) = 1 /\ <<n>>[1] = n
    OBVIOUS
  <2>2. Len(q) \in Nat /\ DOMAIN q = 1 .. Len(q)
    BY LenProperties
  <2>3. /\ r \in Seq(T) /\ Len(r) = m
        /\ \A i \in 1 .. m : r[i] = IF i <= Len(q) THEN q[i] ELSE <<n>>[i - Len(q)]
    BY <2>1, <2>2, ConcatProperties
  <2>4. DOMAIN r = 1 .. m
    BY <2>3, LenProperties
  <2> QED
    BY <2>1, <2>2, <2>3, <2>4
<1>2. ASSUME TellsBand(n) PROVE LastWord(r, n.band) /\ ~NoWord(r)
  <2>1. ~NoWord(r)
    BY <1>1, <1>2 DEF NoWord
  <2>2. LastWord(r, n.band)
    <3> SUFFICES ASSUME NEW j \in DOMAIN r, \A k \in DOMAIN r : k > j => ~TellsBand(r[k])
                 PROVE  r[j].band = n.band
      BY DEF LastWord
    <3>1. j = m
      BY <1>1, <1>2
    <3> QED
      BY <1>1, <3>1
  <2> QED
    BY <2>1, <2>2
<1>3. ASSUME ~TellsBand(n), NEW b, LastWord(q, b) PROVE LastWord(r, b)
  <2> SUFFICES ASSUME NEW j \in DOMAIN r, TellsBand(r[j]), \A k \in DOMAIN r : k > j => ~TellsBand(r[k])
               PROVE  r[j].band = b
    BY DEF LastWord
  <2>1. j \in DOMAIN q /\ r[j] = q[j]
    BY <1>1, <1>3
  <2>2. \A k \in DOMAIN q : k > j => ~TellsBand(q[k])
    BY <1>1
  <2> QED
    BY <1>3, <2>1, <2>2 DEF LastWord
<1>4. NoWord(r) => NoWord(q)
  BY <1>1 DEF NoWord
<1> QED
  BY <1>1, <1>2, <1>3, <1>4

LEMMA WordTaken ==
  ASSUME NEW T, NEW q \in Seq(T), q # <<>>
  PROVE  /\ \A b : LastWord(q, b) => LastWord(Tail(q), b)
         /\ NoWord(Tail(q)) => \/ NoWord(q) /\ ~TellsBand(Head(q))
                               \/ TellsBand(Head(q)) /\ \A b : LastWord(q, b) => Head(q).band = b
<1>1. /\ Len(q) \in Nat \ {0} /\ DOMAIN q = 1 .. Len(q)
      /\ DOMAIN Tail(q) = 1 .. Len(q) - 1 /\ Head(q) = q[1]
      /\ \A i \in 1 .. Len(q) - 1 : Tail(q)[i] = q[i + 1]
  BY EmptySeq, LenProperties, HeadTailProperties
<1>2. ASSUME NEW b, LastWord(q, b) PROVE LastWord(Tail(q), b)
  <2> SUFFICES ASSUME NEW j \in DOMAIN Tail(q), TellsBand(Tail(q)[j]),
                      \A k \in DOMAIN Tail(q) : k > j => ~TellsBand(Tail(q)[k])
               PROVE  Tail(q)[j].band = b
    BY DEF LastWord
  <2>1. j + 1 \in DOMAIN q /\ Tail(q)[j] = q[j + 1]
    BY <1>1
  <2>2. ASSUME NEW k \in DOMAIN q, k > j + 1 PROVE ~TellsBand(q[k])
    <3>1. k - 1 \in DOMAIN Tail(q) /\ k - 1 > j /\ Tail(q)[k - 1] = q[k]
      BY <1>1, <2>2
    <3> QED
      BY <3>1
  <2> QED
    BY <1>2, <2>1, <2>2 DEF LastWord
<1>3. ASSUME NoWord(Tail(q))
      PROVE  \/ NoWord(q) /\ ~TellsBand(Head(q))
             \/ TellsBand(Head(q)) /\ \A b : LastWord(q, b) => Head(q).band = b
  <2>1. ASSUME NEW k \in DOMAIN q, k > 1 PROVE ~TellsBand(q[k])
    <3>1. k - 1 \in DOMAIN Tail(q) /\ Tail(q)[k - 1] = q[k]
      BY <1>1, <2>1
    <3> QED
      BY <1>3, <3>1 DEF NoWord
  <2>2. CASE TellsBand(Head(q))
    BY <1>1, <2>1, <2>2 DEF LastWord
  <2>3. CASE ~TellsBand(Head(q))
    BY <1>1, <2>1, <2>3 DEF NoWord
  <2> QED
    BY <2>2, <2>3
<1> QED
  BY <1>2, <1>3

LEMMA RequestFields ==
  ASSUME NEW r \in Requests
  PROVE  /\ r.cmd \in Kinds
         /\ r.cmd = "Open" => r.band \in Wavebands
         /\ r.cmd = "SetTune" => r.band \in Wavebands /\ r.primary \in BOOLEAN
         /\ r.cmd = "SetSeek" => r.stop \in BOOLEAN
<1> USE DEF Kinds, AtOnce, ByCallback
<1>1. CASE r \in [cmd : {"Open"}, band : Wavebands]
  BY <1>1
<1>2. CASE r \in [cmd : {"SetTune"}, band : Wavebands, primary : BOOLEAN]
  BY <1>2
<1>3. CASE r \in [cmd : {"SetSeek"}, stop : BOOLEAN]
  BY <1>3
<1>4. CASE r \in [cmd : Kinds \ {"Open", "SetTune", "SetSeek"}]
  BY <1>4
<1> QED
  BY <1>1, <1>2, <1>3, <1>4 DEF Requests

(* What a step does to the notifications. *)
Noticed(n) == notes' = notes \o <<n>> /\ (unsaid /\ ~TellsBand(n) => unsaid')
NewWord(n) == \/ svcBand' = IF TellsBand(n) THEN n.band ELSE svcBand
              \/ unsaid' /\ ~TellsBand(n) /\ svcBand' \in Wavebands

LEMMA ToldOne ==
  ASSUME NEW n, Tell(<<n>>)
  PROVE  Noticed(n)
<1>1. DOMAIN <<n>> = {1} /\ <<n>>[1] = n
  OBVIOUS
<1> QED
  BY <1>1 DEF Tell, Noticed

LEMMA NoticeType ==
  ASSUME NEW w \in {"Open", "OpenFailed", "SetTune", "SetTuneSecondary", "SetSeek", "SeekQuality",
                    "SetHdrAudioMode", "HdrData"},
         NEW b \in Wavebands \cup {Nothing}, NEW right \in BOOLEAN, NEW l \in BOOLEAN
  PROVE  /\ Notice(w, b, right, l) \in Notices
         /\ Notice(w, b, right, l).what = w /\ Notice(w, b, right, l).band = b
         /\ Notice(w, b, right, l).right = right /\ Notice(w, b, right, l).list = l
BY DEF Notice, Notices

LEMMA TuneNotices ==
  ASSUME SubTypes, ServeTune
  PROVE  /\ UNCHANGED <<belief, requested>>
         /\ \E n \in Notices :
              /\ n.what \in {"SetTune", "SetTuneSecondary"} /\ NewWord(n)
              /\ \/ Noticed(n) /\ (seeking => seeking')
                 \/ notes' = (notes \o <<SeekStopped(svcBand, FALSE)>>) \o <<n>>
<1> DEFINE r == Head(cmds)
<1>1. PICK ok \in {FALSE, isOpen} :
        LET stops == seeking /\ r.primary IN
        /\ SvcTakes("SetTune")
        /\ seeking' = (seeking /\ ~stops)
        /\ svcBand' = IF ok /\ r.primary THEN r.band ELSE svcBand
        /\ Tell((IF stops THEN <<SeekStopped(svcBand, FALSE)>> ELSE <<>>)
                  \o <<Notice(IF r.primary THEN "SetTune" ELSE "SetTuneSecondary", r.band, ok, FALSE)>>)
        /\ UNCHANGED isOpen
  BY DEF ServeTune
<1>2. cmds # <<>> /\ r.cmd = "SetTune" /\ UNCHANGED <<belief, requested>>
  BY <1>1 DEF SvcTakes, manager
<1>3. r \in Requests
  BY <1>2, HeadTailProperties DEF SubTypes
<1>4. r.band \in Wavebands /\ r.primary \in BOOLEAN
  BY <1>2, <1>3, RequestFields
<1>5. ok \in BOOLEAN
  BY Zenon DEF SubTypes
<1> DEFINE w == IF r.primary THEN "SetTune" ELSE "SetTuneSecondary"
           n == Notice(w, r.band, ok, FALSE)
           m == SeekStopped(svcBand, FALSE)
<1>6. /\ w \in {"SetTune", "SetTuneSecondary"} /\ n \in Notices
      /\ n.what = w /\ n.band = r.band /\ n.right = ok
  <2>1. w \in {"SetTune", "SetTuneSecondary"}
    OBVIOUS
  <2> HIDE DEF w
  <2>2. /\ w \in {"Open", "OpenFailed", "SetTune", "SetTuneSecondary", "SetSeek", "SeekQuality",
                 "SetHdrAudioMode", "HdrData"}
        /\ r.band \in Wavebands \cup {Nothing} /\ FALSE \in BOOLEAN
    BY <1>4, <2>1
  <2> HIDE DEF r
  <2> QED
    BY <1>5, <2>1, <2>2 DEF Notice, Notices
<1>7. m \in Notices
  BY NoticeType DEF SeekStopped, SubTypes
<1>8. NewWord(n)
  <2>1. CASE ok /\ r.primary
    BY <1>1, <1>6, <2>1 DEF NewWord, TellsBand
  <2>2. CASE ~(ok /\ r.primary)
    BY <1>1, <1>6, <2>2 DEF NewWord, TellsBand
  <2> QED
    BY <2>1, <2>2
<1>9. <<m>> \in Seq(Notices) /\ <<n>> \in Seq(Notices) /\ notes \in Seq(Notices)
  <2> HIDE DEF m, n
  <2> QED
    BY <1>6, <1>7 DEF SubTypes
<1>10. CASE seeking /\ r.primary
  <2>1. notes' = notes \o (<<m>> \o <<n>>)
    BY <1>1, <1>10 DEF Tell
  <2>2. notes' = (notes \o <<m>>) \o <<n>>
    BY <1>9, <2>1, ConcatAssociative
  <2> QED
    BY <1>2, <1>6, <1>8, <2>2
<1>11. CASE ~(seeking /\ r.primary)
  <2>1. notes' = notes \o (<<>> \o <<n>>) /\ (seeking => seeking')
    BY <1>1, <1>11 DEF Tell
  <2>2. <<>> \o <<n>> = <<n>>
    BY <1>9, ConcatEmptySeq
  <2>3. Noticed(n)
    <3> HIDE DEF n
    <3> QED
      BY <1>1, <1>11, <2>2, ToldOne DEF n
  <2> QED
    BY <1>2, <1>6, <1>8, <2>1, <2>3
<1> QED
  BY <1>10, <1>11

LEMMA OpenNotices ==
  ASSUME SubTypes, ServeOpen \/ OpenWithoutHd \/ RefuseOpen
  PROVE  \E n \in Notices : /\ n.what \in {"Open", "OpenFailed"}
                            /\ Noticed(n) /\ NewWord(n) /\ seeking' = seeking
<1>1. CASE ServeOpen
  <2>1. cmds # <<>> /\ Head(cmds).cmd = "Open"
    BY <1>1 DEF ServeOpen, SvcTakes
  <2>2. Head(cmds) \in Requests
    BY <2>1, HeadTailProperties DEF SubTypes
  <2>3. Head(cmds).band \in Wavebands
    BY <2>1, <2>2, RequestFields
  <2> DEFINE n == Notice("Open", Head(cmds).band, TRUE, FALSE)
  <2>4. n \in Notices /\ n.what = "Open" /\ n.band = Head(cmds).band
    BY <2>3 DEF Notice, Notices
  <2>5. Noticed(n) /\ svcBand' = Head(cmds).band /\ seeking' = seeking
    BY <1>1, ToldOne DEF ServeOpen
  <2>6. TellsBand(n)
    BY DEF TellsBand, Notice
  <2> QED
    BY <2>4, <2>5, <2>6 DEF NewWord
<1>2. CASE RefuseOpen
  <2> DEFINE w == IF isOpen THEN "Open" ELSE "OpenFailed"
             n == Notice(w, "FM", FALSE, FALSE)
  <2>1. w \in {"Open", "OpenFailed"}
    OBVIOUS
  <2>2. Noticed(n) /\ svcBand' = svcBand /\ seeking' = seeking
    BY <1>2, ToldOne DEF RefuseOpen
  <2> HIDE DEF w
  <2>3. n \in Notices /\ n.what = w /\ ~TellsBand(n)
    BY <2>1 DEF Notice, Notices, Wavebands, TellsBand
  <2> QED
    BY <2>1, <2>2, <2>3 DEF NewWord
<1>3. CASE OpenWithoutHd
  <2>1. PICK w \in {"Open", "OpenFailed"} :
          LET b == Head(cmds).band
              n == Notice(w, "FM", w = "Open" /\ b = "FM", FALSE) IN
          /\ SvcTakes("Open") /\ svcBand' = b /\ notes' = Append(notes, n)
          /\ unsaid' = ((unsaid \/ svcBand # b) /\ ~n.right) /\ seeking' = seeking
    BY <1>3 DEF OpenWithoutHd
  <2>2. Head(cmds).band \in Wavebands
    BY <2>1, HeadTailProperties, RequestFields DEF SvcTakes, SubTypes
  <2> DEFINE b == Head(cmds).band
             right == w = "Open" /\ b = "FM"
             n == Notice(w, "FM", right, FALSE)
  <2>3. right \in BOOLEAN /\ (right <=> w = "Open" /\ b = "FM")
    OBVIOUS
  <2>4. /\ svcBand' = b /\ notes' = Append(notes, n) /\ seeking' = seeking
        /\ unsaid' = ((unsaid \/ svcBand # b) /\ ~n.right)
    BY <2>1
  <2> HIDE DEF right
  <2>5. n \in Notices /\ n.what = w /\ n.band = "FM" /\ n.right = right
    BY <2>3 DEF Notice, Notices, Wavebands
  <2> HIDE DEF n
  <2>6. TellsBand(n) <=> right
    BY <2>3, <2>5 DEF TellsBand
  <2>7. notes' = notes \o <<n>>
    BY <2>4, <2>5, AppendIsConcat DEF SubTypes
  <2>8. Noticed(n)
    BY <2>4, <2>5, <2>6, <2>7 DEF Noticed
  <2>9. NewWord(n)
    BY <2>2, <2>3, <2>4, <2>5, <2>6 DEF NewWord
  <2> QED
    BY <2>4, <2>5, <2>8, <2>9
<1> QED
  BY <1>1, <1>2, <1>3

LEMMA SeekNotices ==
  ASSUME SubTypes, ServeSeek \/ SeekStops
  PROVE  /\ svcBand' = svcBand
         /\ \/ seeking' /\ UNCHANGED <<notes, unsaid>>
            \/ \E n \in Notices : n.what = "SetSeek" /\ Noticed(n) /\ NewWord(n)
<1>1. ASSUME NEW l \in BOOLEAN, Tell(<<SeekStopped(svcBand, l)>>), svcBand' = svcBand
      PROVE  \E n \in Notices : n.what = "SetSeek" /\ Noticed(n) /\ NewWord(n)
  <2> DEFINE n == SeekStopped(svcBand, l)
  <2>1. n \in Notices /\ n.what = "SetSeek" /\ n.band = svcBand
    BY <1>1 DEF SeekStopped, Notice, Notices, SubTypes
  <2> QED
    BY <1>1, <2>1, ToldOne DEF NewWord
<1>2. CASE ServeSeek
  BY <1>1, <1>2 DEF ServeSeek, toApp
<1>3. CASE SeekStops
  BY <1>1, <1>3 DEF SeekStops
<1> QED
  BY <1>2, <1>3

LEMMA OtherNotices ==
  ASSUME SubTypes
  PROVE  /\ SeekGoesOn => /\ svcBand' = svcBand /\ seeking' = seeking
                          /\ \/ UNCHANGED <<notes, unsaid>>
                             \/ \E n \in Notices : n.what = "SeekQuality" /\ Noticed(n) /\ NewWord(n)
         /\ HdConfirms => \E n \in Notices : n.what = "SetHdrAudioMode" /\ Noticed(n) /\ NewWord(n)
         /\ HdTells => \E n \in Notices : n.what = "HdrData" /\ Noticed(n) /\ NewWord(n)
<1>1. ASSUME NEW w \in {"SeekQuality", "SetHdrAudioMode", "HdrData"}, NEW b \in Wavebands \cup {Nothing},
             Tell(<<Notice(w, b, FALSE, FALSE)>>), svcBand' = svcBand
      PROVE  \E n \in Notices : n.what = w /\ Noticed(n) /\ NewWord(n)
  <2> DEFINE n == Notice(w, b, FALSE, FALSE)
  <2>1. n \in Notices /\ n.what = w /\ ~TellsBand(n)
    BY <1>1 DEF Notice, Notices, TellsBand
  <2> QED
    BY <1>1, <2>1, ToldOne DEF NewWord
<1>2. SeekGoesOn => /\ svcBand' = svcBand /\ seeking' = seeking
                    /\ \/ UNCHANGED <<notes, unsaid>>
                       \/ \E n \in Notices : n.what = "SeekQuality" /\ Noticed(n) /\ NewWord(n)
  <2> SUFFICES ASSUME SeekGoesOn PROVE /\ svcBand' = svcBand /\ seeking' = seeking
                    /\ \/ UNCHANGED <<notes, unsaid>>
                       \/ \E n \in Notices : n.what = "SeekQuality" /\ Noticed(n) /\ NewWord(n)
    OBVIOUS
  <2>1. /\ svcBand' = svcBand /\ seeking' = seeking
        /\ UNCHANGED <<notes, unsaid>> \/ Tell(<<Notice("SeekQuality", svcBand, FALSE, FALSE)>>)
    BY DEF SeekGoesOn, toApp
  <2>2. svcBand \in Wavebands \cup {Nothing}
    BY DEF SubTypes
  <2> QED
    BY <1>1, <2>1, <2>2
<1>3. Nothing \in Wavebands \cup {Nothing}
  OBVIOUS
<1>4. HdConfirms => \E n \in Notices : n.what = "SetHdrAudioMode" /\ Noticed(n) /\ NewWord(n)
  BY <1>1, <1>3 DEF HdConfirms
<1>5. HdTells => \E n \in Notices : n.what = "HdrData" /\ Noticed(n) /\ NewWord(n)
  BY <1>1, <1>3 DEF HdTells
<1> QED
  BY <1>2, <1>4, <1>5

(* The steps that neither take nor add a notification. *)
QuietSteps ==
  \/ TakeDeinit \/ TakeOpen \/ TakeClose \/ TakeSetTune \/ TakeSetSeek \/ TakeSetHdrAudioMode \/ TakeOther
  \/ MgrHead \/ MgrBody \/ MgrSend \/ NoCommand \/ ServeDeinit \/ SvcHead \/ SvcBody \/ SvcSend \/ RoundEnds

NoticeSteps == ServeOpen \/ OpenWithoutHd \/ RefuseOpen \/ ServeSeek \/ SeekGoesOn \/ SeekStops \/ HdConfirms \/ HdTells

LEMMA SubSteps ==
  ASSUME [SubNext]_subVars
  PROVE  TakeInit \/ Callback \/ ServeTune \/ NoticeSteps \/ QuietSteps \/ UNCHANGED subVars
BY DEF SubNext, MainThread, SvcThread, NoticeSteps, QuietSteps

LEMMA QuietStep ==
  ASSUME QuietSteps \/ UNCHANGED subVars
  PROVE  UNCHANGED <<notes, unsaid, svcBand, belief>>
BY DEF QuietSteps, toApp, subVars, serviceVars, TakeDeinit, TakeOpen, TakeClose, TakeSetTune, TakeSetSeek,
       TakeSetHdrAudioMode, TakeOther, Take, MgrHead, MgrBody, MgrSend, MgrGoes, NoCommand, ServeDeinit, SvcTakes,
       SvcHead, SvcBody, SvcSend, SvcGoes, RoundEnds

LEMMA NoticeStep ==
  ASSUME SubTypes, NoticeSteps
  PROVE  /\ belief' = belief
         /\ \/ UNCHANGED <<notes, unsaid, svcBand>>
            \/ \E n \in Notices : Noticed(n) /\ NewWord(n)
<1>1. belief' = belief
  BY DEF NoticeSteps, ServeOpen, OpenWithoutHd, RefuseOpen, ServeSeek, SvcTakes, SeekGoesOn, SeekStops, HdConfirms, HdTells
<1>2. CASE ServeOpen \/ OpenWithoutHd \/ RefuseOpen
  BY <1>1, <1>2, OpenNotices
<1>3. CASE ServeSeek \/ SeekStops
  BY <1>1, <1>3, SeekNotices
<1>4. CASE SeekGoesOn \/ HdConfirms \/ HdTells
  BY <1>1, <1>4, OtherNotices
<1> QED
  BY <1>2, <1>3, <1>4 DEF NoticeSteps

(* What a request that is taken does to the commands: nothing, or it is    *)
(* queued. *)
Queues(kind) == \/ cmds' = cmds
                \/ \E r \in Requests : r.cmd = kind /\ cmds' = Append(cmds, r)

LEMMA CommandQueued ==
  /\ TakeDeinit => Queues("Deinit")
  /\ TakeOpen => Queues("Open")
  /\ TakeSetTune => Queues("SetTune")
  /\ TakeSetSeek => Queues("SetSeek")
<1>1. TakeDeinit => Queues("Deinit")
  <2> DEFINE r == [cmd |-> "Deinit"]
  <2>1. r \in Requests /\ r.cmd = "Deinit"
    BY DEF Requests, Kinds, AtOnce, ByCallback
  <2> QED
    BY <2>1 DEF TakeDeinit, Queue, Queues
<1>2. TakeOpen => Queues("Open")
  <2> SUFFICES ASSUME TakeOpen PROVE Queues("Open")
    OBVIOUS
  <2>1. PICK b \in Wavebands : cmds' = cmds \/ cmds' = Append(cmds, [cmd |-> "Open", band |-> b])
    BY DEF TakeOpen, Queue
  <2>2. [cmd |-> "Open", band |-> b] \in Requests
    BY DEF Requests
  <2> QED
    BY <2>1, <2>2 DEF Queues
<1>3. TakeSetTune => Queues("SetTune")
  <2> SUFFICES ASSUME TakeSetTune PROVE Queues("SetTune")
    OBVIOUS
  <2>1. PICK b \in Wavebands, p \in BOOLEAN :
          cmds' = cmds \/ cmds' = Append(cmds, [cmd |-> "SetTune", band |-> b, primary |-> p])
    BY DEF TakeSetTune, Queue
  <2>2. [cmd |-> "SetTune", band |-> b, primary |-> p] \in Requests
    BY DEF Requests
  <2> QED
    BY <2>1, <2>2 DEF Queues
<1>4. TakeSetSeek => Queues("SetSeek")
  <2> SUFFICES ASSUME TakeSetSeek PROVE Queues("SetSeek")
    OBVIOUS
  <2>1. PICK stop \in BOOLEAN : cmds' = cmds \/ cmds' = Append(cmds, [cmd |-> "SetSeek", stop |-> stop])
    BY DEF TakeSetSeek, Queue
  <2>2. [cmd |-> "SetSeek", stop |-> stop] \in Requests
    BY DEF Requests
  <2> QED
    BY <2>1, <2>2 DEF Queues
<1> QED
  BY <1>1, <1>2, <1>3, <1>4

LEMMA SubTypesInit == SubInit => SubTypes
<1> SUFFICES ASSUME SubInit PROVE SubTypes
  OBVIOUS
<1>1. cmds \in Seq(Requests) /\ notes \in Seq(Notices)
  BY DEF SubInit
<1>2. svcBand \in Wavebands \cup {Nothing}
  BY DEF SubInit
<1>3. isOpen \in BOOLEAN
  BY Zenon DEF SubInit
<1> QED
  BY <1>1, <1>2, <1>3 DEF SubTypes

LEMMA SubTypesNext == SubTypes /\ [SubNext]_subVars => SubTypes'
<1> SUFFICES ASSUME SubTypes, [SubNext]_subVars PROVE SubTypes'
  OBVIOUS
<1>1. cmds' \in Seq(Requests)
  <2>1. \/ cmds' = cmds
        \/ cmds # <<>> /\ cmds' = Tail(cmds)
        \/ TakeDeinit \/ TakeOpen \/ TakeSetTune \/ TakeSetSeek
    BY DEF SubNext, MainThread, SvcThread, subVars, serviceVars, TakeInit, TakeClose, TakeSetHdrAudioMode, TakeOther,
           MgrHead, MgrBody, MgrSend, MgrGoes, NoCommand, ServeOpen, OpenWithoutHd, RefuseOpen, ServeTune, ServeSeek, ServeDeinit,
           SvcTakes, SeekGoesOn, SeekStops, Callback, SvcHead, SvcBody, SvcSend, SvcGoes, RoundEnds, HdConfirms,
           HdTells
  <2>2. \/ cmds' = cmds
        \/ cmds # <<>> /\ cmds' = Tail(cmds)
        \/ \E r \in Requests : cmds' = Append(cmds, r)
    BY <2>1, CommandQueued DEF Queues
  <2> QED
    BY <2>2, QueueStep DEF SubTypes
<1>2. isOpen' \in BOOLEAN
  <2>1. isOpen' = isOpen \/ isOpen' = TRUE \/ isOpen' = FALSE
    BY DEF SubNext, MainThread, SvcThread, subVars, flags, TakeInit, TakeDeinit, TakeOpen, TakeClose, TakeSetTune,
           TakeSetSeek, TakeSetHdrAudioMode, TakeOther, MgrHead, MgrBody, MgrSend, MgrGoes, NoCommand, ServeOpen,
           OpenWithoutHd, RefuseOpen, ServeTune, ServeSeek, ServeDeinit, SeekGoesOn, SeekStops, Callback, SvcHead, SvcBody, SvcSend,
           SvcGoes, RoundEnds, HdConfirms, HdTells
  <2> QED
    BY <2>1, Zenon DEF SubTypes
<1>3. ASSUME NEW n \in Notices, NewWord(n) PROVE svcBand' \in Wavebands \cup {Nothing}
  BY <1>3 DEF NewWord, Notices, SubTypes
<1>4. notes' \in Seq(Notices) /\ svcBand' \in Wavebands \cup {Nothing}
  <2>1. CASE UNCHANGED <<notes, unsaid, svcBand>>
    BY <2>1 DEF SubTypes
  <2>2. CASE \E n \in Notices : Noticed(n) /\ NewWord(n)
    BY <1>3, <2>2, WordAdded DEF Noticed, SubTypes
  <2>3. CASE ServeTune
    <3>1. PICK n \in Notices :
            /\ NewWord(n)
            /\ Noticed(n) \/ notes' = (notes \o <<SeekStopped(svcBand, FALSE)>>) \o <<n>>
      BY <2>3, TuneNotices
    <3>2. SeekStopped(svcBand, FALSE) \in Notices
      BY DEF SeekStopped, Notice, Notices, SubTypes
    <3>3. notes \o <<SeekStopped(svcBand, FALSE)>> \in Seq(Notices)
      BY <3>2, WordAdded DEF SubTypes
    <3>4. CASE Noticed(n)
      BY <1>3, <3>1, <3>4, WordAdded DEF Noticed, SubTypes
    <3>5. CASE notes' = (notes \o <<SeekStopped(svcBand, FALSE)>>) \o <<n>>
      BY <1>3, <3>1, <3>3, <3>5, WordAdded
    <3> QED
      BY <3>1, <3>4, <3>5
  <2>4. CASE Callback
    BY <2>4, HeadTailProperties DEF Callback, SubTypes
  <2>5. CASE TakeInit
    BY <2>5 DEF TakeInit, Take, toApp, SubTypes
  <2> QED
    BY <2>1, <2>2, <2>3, <2>4, <2>5, SubSteps, QuietStep, NoticeStep
<1> QED
  BY <1>1, <1>2, <1>4 DEF SubTypes

LEMMA BandInvNext == SubTypes /\ BandInv /\ [SubNext]_subVars => BandInv'
<1> SUFFICES ASSUME SubTypes, BandInv, [SubNext]_subVars PROVE BandInv'
  OBVIOUS
<1>0. notes \in Seq(Notices) /\ svcBand \in Wavebands \cup {Nothing}
  BY DEF SubTypes
<1>1. CASE UNCHANGED <<notes, unsaid, svcBand, belief>>
  <2>1. unsaid' \/ /\ LastWord(notes', svcBand')
                   /\ svcBand' # Nothing /\ ~misled' /\ NoWord(notes') => curBand' = svcBand'
    BY <1>1 DEF BandInv, belief
  <2> QED
    BY <2>1 DEF BandInv, LastWord, NoWord
<1>2. ASSUME NEW q \in Seq(Notices), NEW n \in Notices, notes' = q \o <<n>>, NewWord(n), belief' = belief,
             ~TellsBand(n) /\ ~unsaid' =>
               /\ LastWord(q, svcBand)
               /\ svcBand # Nothing /\ ~misled /\ NoWord(q) => curBand = svcBand
      PROVE  BandInv'
  <2>1. CASE TellsBand(n)
    <3>1. LastWord(notes', svcBand') /\ ~NoWord(notes')
      BY <1>2, <2>1, WordAdded DEF NewWord
    <3> QED
      BY <3>1 DEF BandInv, LastWord, NoWord
  <2>2. CASE ~TellsBand(n) /\ ~unsaid'
    <3>1. svcBand' = svcBand /\ LastWord(q, svcBand)
      BY <1>2, <2>2, Zenon DEF NewWord
    <3>2. LastWord(notes', svcBand') /\ (NoWord(notes') => NoWord(q))
      <4> DEFINE r == q \o <<n>>
      <4>1. (LastWord(q, svcBand) => LastWord(r, svcBand)) /\ (NoWord(r) => NoWord(q))
        BY <2>2, WordAdded
      <4>2. notes' = r
        BY <1>2
      <4> HIDE DEF r
      <4> QED
        BY <3>1, <4>1, <4>2
    <3>3. svcBand' # Nothing /\ ~misled' /\ NoWord(notes') => curBand' = svcBand'
      BY <1>2, <2>2, <3>1, <3>2 DEF belief
    <3> QED
      BY <3>2, <3>3 DEF BandInv, LastWord, NoWord
  <2>3. CASE unsaid'
    BY <2>3 DEF BandInv
  <2> QED
    BY <2>1, <2>2, <2>3
<1>3. ASSUME NEW n \in Notices, Noticed(n), NewWord(n), belief' = belief PROVE BandInv'
  <2>1. /\ notes' = notes \o <<n>>
        /\ ~TellsBand(n) /\ ~unsaid' =>
             /\ LastWord(notes, svcBand)
             /\ svcBand # Nothing /\ ~misled /\ NoWord(notes) => curBand = svcBand
    BY <1>3 DEF BandInv, Noticed
  <2> QED
    BY <1>0, <1>2, <1>3, <2>1
<1>4. CASE NoticeSteps
  BY <1>1, <1>3, <1>4, NoticeStep
<1>5. CASE ServeTune
  <2>1. PICK n \in Notices :
          /\ NewWord(n) /\ belief' = belief
          /\ Noticed(n) \/ notes' = (notes \o <<SeekStopped(svcBand, FALSE)>>) \o <<n>>
    BY <1>5, TuneNotices
  <2>2. CASE Noticed(n)
    BY <1>3, <2>1, <2>2
  <2>3. CASE notes' = (notes \o <<SeekStopped(svcBand, FALSE)>>) \o <<n>>
    <3> DEFINE m == SeekStopped(svcBand, FALSE)
               q == notes \o <<m>>
    <3>1. m \in Notices /\ TellsBand(m) /\ m.band = svcBand
      BY <1>0 DEF SeekStopped, Notice, Notices, TellsBand
    <3>2. q \in Seq(Notices) /\ LastWord(q, svcBand) /\ ~NoWord(q)
      BY <1>0, <3>1, WordAdded
    <3> HIDE DEF q
    <3> QED
      BY <1>2, <2>1, <2>3, <3>2 DEF q
  <2> QED
    BY <2>1, <2>2, <2>3
<1>6. CASE Callback
  <2>1. /\ notes # <<>> /\ notes' = Tail(notes) /\ svcBand' = svcBand /\ unsaid' = unsaid
        /\ \/ Moves(Head(notes)) /\ curBand' = Head(notes).band /\ misled' = ~Head(notes).right
           \/ ~Moves(Head(notes)) /\ UNCHANGED belief
    BY <1>6 DEF Callback
  <2>2. CASE unsaid
    BY <2>1, <2>2 DEF BandInv
  <2>3. CASE ~unsaid
    <3>1. LastWord(notes', svcBand')
      BY <1>0, <2>1, <2>3, WordTaken DEF BandInv
    <3>2. ASSUME svcBand' # Nothing, ~misled', NoWord(notes') PROVE curBand' = svcBand'
      <4>1. \/ NoWord(notes) /\ ~TellsBand(Head(notes))
            \/ TellsBand(Head(notes)) /\ Head(notes).band = svcBand
        BY <1>0, <2>1, <2>3, <3>2, WordTaken DEF BandInv
      <4>2. Moves(Head(notes)) <=> Head(notes).what \in {"Open", "SetTune", "SetSeek"}
        BY DEF Moves
      <4>3. CASE Moves(Head(notes))
        BY <2>1, <3>2, <4>1, <4>2, <4>3 DEF TellsBand
      <4>4. CASE ~Moves(Head(notes))
        BY <2>1, <2>3, <3>2, <4>1, <4>2, <4>4 DEF TellsBand, BandInv, belief
      <4> QED
        BY <4>3, <4>4
    <3> QED
      BY <3>1, <3>2 DEF BandInv, LastWord, NoWord
  <2> QED
    BY <2>2, <2>3
<1>7. CASE TakeInit
  <2>1. /\ UNCHANGED <<notes, unsaid, svcBand>> /\ curBand' = "FM"
        /\ misled' = (svcBand \notin {Nothing, "FM"})
    BY <1>7 DEF TakeInit, Take, toApp
  <2>2. unsaid' \/ LastWord(notes', svcBand')
    BY <2>1 DEF BandInv
  <2>3. ASSUME svcBand' # Nothing, ~misled' PROVE curBand' = svcBand'
    BY <2>1, <2>3
  <2> QED
    BY <2>2, <2>3 DEF BandInv, LastWord, NoWord
<1> QED
  BY <1>1, <1>4, <1>5, <1>6, <1>7, SubSteps, QuietStep

(* However requests, notifications and seeks interleave, and however many: *)
(* the manager knows the service's band or is about to be told it.         *)
THEOREM ManagerBandFollows == SubSpec => []BandFollows
<1>1. SubInit => BandInv
  BY DEF SubInit, BandInv, LastWord
<1>2. BandInv => BandFollows
  BY DEF BandInv, BandFollows, NoWord, TellsBand, ToSet
<1> QED
  BY <1>1, <1>2, SubTypesInit, SubTypesNext, BandInvNext, PTL DEF SubSpec

-----------------------------------------------------------------------------
(* The manager of the sub-core: one answer to each request.                *)

(* The message a notification becomes. *)
ReplyOf(n) == CASE n.what = "OpenFailed"       -> "Open"
                [] n.what = "SetTuneSecondary" -> "SetTune"
                [] OTHER                       -> n.what

(* Where the answer to a request of kind k may be. *)
Asked(k)   == {r \in Requests : r.cmd = k}
Telling(k) == {n \in Notices : ReplyOf(n) = k}
Gives(k)   == giver.pc \in {"head", "body", "send"} /\ Reply = k
Answering(k) == mgr.pc # "idle" /\ mgr.kind = k
Due(k)     == IF k = "SetHdrAudioMode" THEN audioDue ELSE 0

Tracked == AtOnce \cup ByCallback

InCmds(k)  == Count(cmds, Asked(k))
InNotes(k) == Count(notes, Telling(k))
InHand(k)  == One(Answering(k))
InGift(k)  == One(Gives(k))

Balance(k) == requested[k] = sent[k] + InCmds(k) + InNotes(k) + InGift(k) + InHand(k) + Due(k)

Balanced == \A k \in Tracked : Balance(k)

(* A seek that was asked for has an end still to be told. *)
EndOwed == \/ sent["SetSeek"] > 0 \/ seeking
           \/ InCmds("SetSeek") > 0 \/ InNotes("SetSeek") > 0
           \/ Gives("SetSeek") \/ Answering("SetSeek")

SeekEnding == requested["SetSeek"] > 0 => EndOwed

(* The threads do not compose over one another. *)
Apart ==
  /\ mgr.pc \in {"body", "send"} /\ mgr.kind # "Fader" => txHead = mgr.kind /\ ~Underway(giver)
  /\ mgr.pc = "send" => ~Underway(giver) /\ (mgr.kind = "Fader" => txHead \in {Nothing, "Fader"})
  /\ Underway(giver) => txHead = Reply

NotBegun == ~isInit /\ requested["Deinit"] = 0 => giver.pc = "off"

Givers == [pc : {"off", "receive", "seek", "tell", "head", "body", "send"}, given : Int]

AnswerTypes ==
  /\ requested \in [Kinds -> Nat] /\ sent \in [Kinds -> Nat] /\ audioDue \in Nat /\ isInit \in BOOLEAN
  /\ mgr \in [pc : {"idle", "head", "body", "send"}, kind : Kinds \cup {Nothing}]
  /\ mgr.pc # "idle" => mgr.kind \in Kinds
  /\ giver \in Givers

AnswersInv == /\ AnswerTypes /\ NotBegun
              /\ ~blurred => Apart /\ Balanced /\ SeekEnding

LEMMA KindsOf ==
  /\ Tracked = {"Init", "Close", "Other", "Open", "SetTune", "SetHdrAudioMode"}
  /\ Kinds = Tracked \cup {"Deinit", "SetSeek", "Fader", "Unsupported"}
BY DEF Tracked, Kinds, AtOnce, ByCallback

LEMMA NoticeReply ==
  ASSUME NEW n \in Notices
  PROVE  /\ n.what \in {"Open", "OpenFailed"} => ReplyOf(n) = "Open"
         /\ n.what \in {"SetTune", "SetTuneSecondary"} => ReplyOf(n) = "SetTune"
         /\ n.what \notin {"OpenFailed", "SetTuneSecondary"} => ReplyOf(n) = n.what
BY DEF ReplyOf

LEMMA ReplyIs == Reply = ReplyOf(note)
BY DEF Reply, ReplyOf

LEMMA CountsTyped ==
  ASSUME SubTypes, NEW k
  PROVE  Count(cmds, Asked(k)) \in Nat /\ Count(notes, Telling(k)) \in Nat
BY PlacesFinite DEF SubTypes

LEMMA NoticeCounted ==
  ASSUME NEW q \in Seq(Notices), NEW n \in Notices, NEW k
  PROVE  q \o <<n>> \in Seq(Notices) /\ Count(q \o <<n>>, Telling(k)) = Count(q, Telling(k)) + One(ReplyOf(n) = k)
<1>1. q \o <<n>> = Append(q, n) /\ Append(q, n) \in Seq(Notices)
  BY AppendIsConcat, AppendProperties
<1>2. n \in Telling(k) <=> ReplyOf(n) = k
  BY DEF Telling
<1>3. Count(Append(q, n), Telling(k)) = Count(q, Telling(k)) + One(n \in Telling(k))
  BY CountAppend
<1>4. One(n \in Telling(k)) = One(ReplyOf(n) = k)
  BY <1>2 DEF One
<1> QED
  BY <1>1, <1>3, <1>4

LEMMA NoticeTaken ==
  ASSUME NEW q \in Seq(Notices), q # <<>>, NEW k
  PROVE  Head(q) \in Notices /\ Count(q, Telling(k)) = One(ReplyOf(Head(q)) = k) + Count(Tail(q), Telling(k))
<1>1. Head(q) \in Notices
  BY HeadTailProperties
<1>2. Head(q) \in Telling(k) <=> ReplyOf(Head(q)) = k
  BY <1>1 DEF Telling
<1> QED
  BY <1>1, <1>2, CountTail DEF One

LEMMA RequestCounted ==
  ASSUME NEW r \in Requests, NEW k, SubTypes
  PROVE  Count(Append(cmds, r), Asked(k)) = Count(cmds, Asked(k)) + One(r.cmd = k)
<1>1. r \in Asked(k) <=> r.cmd = k
  BY DEF Asked
<1> QED
  BY <1>1, CountAppend DEF One, SubTypes

LEMMA RequestTaken ==
  ASSUME SubTypes, NEW kind, SvcTakes(kind), NEW k
  PROVE  Count(cmds, Asked(k)) = One(kind = k) + Count(cmds', Asked(k))
<1>1. cmds \in Seq(Requests) /\ cmds # <<>> /\ Head(cmds).cmd = kind /\ cmds' = Tail(cmds)
  BY DEF SvcTakes, SubTypes
<1>2. Head(cmds) \in Requests
  BY <1>1, HeadTailProperties
<1>3. Head(cmds) \in Asked(k) <=> kind = k
  BY <1>1, <1>2 DEF Asked
<1> QED
  BY <1>1, <1>3, CountTail DEF One

(* A request comes: what the middleware accepts is queued, or is due. *)
Queued == {"Open", "SetTune", "SetSeek", "Deinit"}

Comes(kind, ok) ==
  /\ Take(kind, ok) /\ kind \in Kinds /\ ok \in BOOLEAN
  /\ \/ kind \in Queued /\ ok /\ audioDue' = audioDue /\ \E r \in Requests : r.cmd = kind /\ cmds' = Append(cmds, r)
     \/ kind \in Queued /\ ~ok /\ audioDue' = audioDue /\ cmds' = cmds
     \/ kind = "SetHdrAudioMode" /\ cmds' = cmds /\ audioDue' = audioDue + One(ok)
     \/ kind \in {"Init", "Close", "Other", "Fader", "Unsupported"} /\ cmds' = cmds /\ audioDue' = audioDue

TakeSteps == TakeInit \/ TakeDeinit \/ TakeOpen \/ TakeClose \/ TakeSetTune \/ TakeSetSeek
               \/ TakeSetHdrAudioMode \/ TakeOther


LEMMA TakeComes ==
  ASSUME SubTypes, isInit \in BOOLEAN, audioDue \in Nat, TakeSteps
  PROVE  \E kind \in Kinds, ok \in BOOLEAN :
           /\ Comes(kind, ok)
           /\ kind # "Deinit" => (isInit' = isInit \/ isInit')
           /\ giver' = giver \/ (~isInit /\ giver' = Round("receive", 0) /\ isInit')
<1>0. isOpen \in BOOLEAN /\ FALSE \in BOOLEAN /\ TRUE \in BOOLEAN
  BY Zenon DEF SubTypes
<1>1. CASE TakeInit
  <2> DEFINE ok == ~isInit
  <2>1. Take("Init", ok) /\ isInit' /\ cmds' = cmds /\ audioDue' = audioDue
    BY <1>1, Zenon DEF TakeInit
  <2>2. giver' = giver \/ (~isInit /\ giver' = Round("receive", 0))
    BY <1>1, Zenon DEF TakeInit
  <2>3. "Init" \in Kinds /\ ok \in BOOLEAN
    BY DEF Kinds, AtOnce
  <2>4. Comes("Init", ok)
    BY <2>1, <2>3, Zenon DEF Comes
  <2> QED
    BY <2>1, <2>2, <2>3, <2>4, Zenon
<1>2. CASE TakeDeinit
  <2>1. Take("Deinit", isInit) /\ Queue([cmd |-> "Deinit"], isInit) /\ audioDue' = audioDue /\ giver' = giver
    BY <1>2, Zenon DEF TakeDeinit
  <2>2. [cmd |-> "Deinit"] \in Requests /\ [cmd |-> "Deinit"].cmd = "Deinit" /\ "Deinit" \in Kinds
    BY DEF Requests, Kinds, AtOnce, ByCallback
  <2>3. "Deinit" \in Queued
    BY DEF Queued
  <2>4. (isInit /\ cmds' = Append(cmds, [cmd |-> "Deinit"])) \/ (~isInit /\ cmds' = cmds)
    BY <2>1, Zenon DEF Queue
  <2>5. Comes("Deinit", isInit)
    BY <2>1, <2>2, <2>3, <2>4, Zenon DEF Comes
  <2> QED
    BY <2>1, <2>2, <2>5, Zenon
<1>3. CASE TakeOpen
  <2> DEFINE ok == isInit /\ ~isOpen
  <2>1. PICK b \in Wavebands : Queue([cmd |-> "Open", band |-> b], ok)
    BY <1>3, Zenon DEF TakeOpen
  <2>2. Take("Open", ok) /\ audioDue' = audioDue /\ giver' = giver /\ isInit' = isInit
    BY <1>3, Zenon DEF TakeOpen, flags
  <2> DEFINE r == [cmd |-> "Open", band |-> b]
  <2>3. r \in Requests /\ r.cmd = "Open" /\ "Open" \in Kinds /\ "Open" \in Queued
    BY DEF Requests, Kinds, AtOnce, ByCallback, Queued
  <2>4. (ok /\ cmds' = Append(cmds, r)) \/ (~ok /\ cmds' = cmds)
    BY <2>1, Zenon DEF Queue
  <2>5. ok \in BOOLEAN
    BY Zenon
  <2> HIDE DEF ok, r
  <2>6. Comes("Open", ok)
    BY <2>2, <2>3, <2>4, <2>5, Zenon DEF Comes
  <2> QED
    BY <2>2, <2>3, <2>5, <2>6, Zenon
<1>4. CASE TakeClose
  <2>1. Take("Close", isOpen) /\ UNCHANGED <<isInit, cmds, giver, audioDue>>
    BY <1>4 DEF TakeClose
  <2>2. "Close" \in Kinds
    BY DEF Kinds, AtOnce
  <2>3. cmds' = cmds /\ audioDue' = audioDue /\ giver' = giver /\ isInit' = isInit
    BY <2>1
  <2>4. Comes("Close", isOpen)
    BY <1>0, <2>1, <2>2, <2>3, Zenon DEF Comes
  <2> QED
    BY <1>0, <2>2, <2>3, <2>4, Zenon
<1>5. CASE TakeSetTune
  <2>1. PICK ok \in {FALSE, isOpen}, b \in Wavebands, p \in BOOLEAN :
          /\ Take("SetTune", ok)
          /\ Queue([cmd |-> "SetTune", band |-> b, primary |-> p], ok)
          /\ UNCHANGED <<flags, giver, audioDue, belief>>
    BY <1>5 DEF TakeSetTune
  <2> DEFINE r == [cmd |-> "SetTune", band |-> b, primary |-> p]
  <2>2. r \in Requests /\ r.cmd = "SetTune" /\ "SetTune" \in Kinds /\ "SetTune" \in Queued
    BY DEF Requests, Kinds, AtOnce, ByCallback, Queued
  <2>3. ok \in BOOLEAN
    BY <1>0, Zenon
  <2>4. (ok /\ cmds' = Append(cmds, r)) \/ (~ok /\ cmds' = cmds)
    BY <2>1, Zenon DEF Queue
  <2>5. audioDue' = audioDue /\ giver' = giver /\ isInit' = isInit
    BY <2>1 DEF flags
  <2> HIDE DEF r
  <2>6. Comes("SetTune", ok)
    BY <2>1, <2>2, <2>3, <2>4, <2>5, Zenon DEF Comes
  <2> QED
    BY <2>2, <2>3, <2>5, <2>6, Zenon
<1>6. CASE TakeSetSeek
  <2>1. PICK stop \in BOOLEAN :
          /\ Take("SetSeek", isOpen)
          /\ Queue([cmd |-> "SetSeek", stop |-> stop], isOpen)
          /\ UNCHANGED <<flags, giver, audioDue, belief>>
    BY <1>6 DEF TakeSetSeek
  <2> DEFINE r == [cmd |-> "SetSeek", stop |-> stop]
  <2>2. r \in Requests /\ r.cmd = "SetSeek" /\ "SetSeek" \in Kinds /\ "SetSeek" \in Queued
    BY DEF Requests, Kinds, AtOnce, ByCallback, Queued
  <2>4. (isOpen /\ cmds' = Append(cmds, r)) \/ (~isOpen /\ cmds' = cmds)
    BY <2>1, Zenon DEF Queue
  <2>5. audioDue' = audioDue /\ giver' = giver /\ isInit' = isInit
    BY <2>1 DEF flags
  <2> HIDE DEF r
  <2>6. Comes("SetSeek", isOpen)
    BY <1>0, <2>1, <2>2, <2>4, <2>5, Zenon DEF Comes
  <2> QED
    BY <1>0, <2>2, <2>5, <2>6, Zenon
<1>7. CASE TakeSetHdrAudioMode
  <2>1. PICK ok \in {FALSE, isOpen} :
          /\ Take("SetHdrAudioMode", ok)
          /\ audioDue' = IF ok THEN audioDue + 1 ELSE audioDue
          /\ UNCHANGED <<flags, giver, cmds, belief>>
    BY <1>7 DEF TakeSetHdrAudioMode
  <2>2. "SetHdrAudioMode" \in Kinds
    BY DEF Kinds, ByCallback
  <2>3. ok \in BOOLEAN
    BY <1>0, Zenon
  <2>4. audioDue' = audioDue + One(ok)
    <3>1. CASE ok
      BY <2>1, <3>1 DEF One
    <3>2. CASE ~ok
      BY <2>1, <3>2 DEF One
    <3> QED
      BY <3>1, <3>2
  <2>5. cmds' = cmds /\ giver' = giver /\ isInit' = isInit
    BY <2>1 DEF flags
  <2>6. Comes("SetHdrAudioMode", ok)
    BY <2>1, <2>2, <2>3, <2>4, <2>5, Zenon DEF Comes
  <2> QED
    BY <2>2, <2>3, <2>5, <2>6, Zenon
<1>8. CASE TakeOther
  <2>1. PICK kind \in {"Other", "Fader", "Unsupported"} :
          Take(kind, TRUE) /\ UNCHANGED <<flags, giver, cmds, audioDue, belief>>
    BY <1>8 DEF TakeOther
  <2>2. kind \in Kinds
    BY DEF Kinds, AtOnce
  <2>3. cmds' = cmds /\ audioDue' = audioDue /\ giver' = giver /\ isInit' = isInit
    BY <2>1 DEF flags
  <2>4. kind \in {"Init", "Close", "Other", "Fader", "Unsupported"}
    OBVIOUS
  <2>5. Comes(kind, TRUE)
    BY <1>0, <2>1, <2>2, <2>3, <2>4, Zenon DEF Comes
  <2> QED
    BY <1>0, <2>2, <2>3, <2>5, Zenon
<1> QED
  BY <1>1, <1>2, <1>3, <1>4, <1>5, <1>6, <1>7, <1>8, Zenon DEF TakeSteps

(* The manager's own steps with a message, and the service's. *)
Composing == MgrHead \/ MgrBody \/ SvcHead \/ SvcBody

LEMMA AnswerTypesNext == SubTypes /\ AnswerTypes /\ [SubNext]_subVars => AnswerTypes'
<1> SUFFICES ASSUME SubTypes, AnswerTypes, [SubNext]_subVars PROVE AnswerTypes'
  OBVIOUS
<1>0. /\ requested \in [Kinds -> Nat] /\ sent \in [Kinds -> Nat] /\ audioDue \in Nat /\ isInit \in BOOLEAN
      /\ mgr \in [pc : {"idle", "head", "body", "send"}, kind : Kinds \cup {Nothing}]
      /\ (mgr.pc # "idle" => mgr.kind \in Kinds)
      /\ giver \in Givers
  BY DEF AnswerTypes
<1> DEFINE MgrTyped   == /\ mgr' \in [pc : {"idle", "head", "body", "send"}, kind : Kinds \cup {Nothing}]
                         /\ mgr'.pc # "idle" => mgr'.kind \in Kinds
           GiverTyped == giver' \in Givers
<1>1. ASSUME NEW at \in {"off", "receive", "seek", "tell", "head", "body", "send"}, NEW n \in Int
      PROVE  Round(at, n) \in Givers
  BY DEF Round, Givers
<1>2. giver.given \in Int /\ 0 \in Int /\ giver.given + 1 \in Int
  BY <1>0 DEF Givers
<1>3. CASE TakeSteps
  <2>1. PICK kind \in Kinds, ok \in BOOLEAN :
          /\ Comes(kind, ok)
          /\ kind # "Deinit" => (isInit' = isInit \/ isInit')
          /\ giver' = giver \/ (~isInit /\ giver' = Round("receive", 0) /\ isInit')
    BY <1>0, <1>3, TakeComes
  <2>2. /\ Take(kind, ok)
        /\ audioDue' = audioDue \/ audioDue' = audioDue + One(ok)
    BY <2>1 DEF Comes
  <2>3. audioDue' \in Nat
    BY <1>0, <2>2 DEF One
  <2>4. requested' \in [Kinds -> Nat] /\ sent' \in [Kinds -> Nat]
    BY <1>0, <2>2 DEF Take, message
  <2>5. MgrTyped
    BY <1>0, <2>2 DEF Take, At
  <2>6. GiverTyped
    BY <1>0, <1>1, <1>2, <2>1
  <2>7. isInit' \in BOOLEAN
    <3>1. isInit' = isInit \/ isInit' = TRUE \/ isInit' = FALSE
      BY <1>3 DEF TakeSteps, TakeInit, TakeDeinit, TakeOpen, TakeClose, TakeSetTune, TakeSetSeek,
                  TakeSetHdrAudioMode, TakeOther, flags
    <3> QED
      BY <1>0, <3>1, Zenon
  <2> QED
    BY <2>3, <2>4, <2>5, <2>6, <2>7 DEF AnswerTypes
<1>4. CASE MgrHead \/ MgrBody \/ MgrSend
  <2>1. UNCHANGED <<requested, isInit, giver, audioDue>>
    BY <1>4 DEF MgrHead, MgrBody, MgrSend, MgrGoes, flags, serviceVars, hd
  <2>2. MgrTyped
    BY <1>0, <1>4 DEF MgrHead, MgrBody, MgrSend, MgrGoes, At
  <2>3. sent' \in [Kinds -> Nat]
    BY <1>0, <1>4 DEF MgrHead, MgrBody, MgrSend, WriteHead, WriteBody, GiveToDevice
  <2> QED
    BY <1>0, <2>1, <2>2, <2>3 DEF AnswerTypes
<1>5. CASE SvcHead \/ SvcBody \/ SvcSend
  <2>1. UNCHANGED <<requested, isInit, mgr, audioDue>>
    BY <1>5 DEF SvcHead, SvcBody, SvcSend, SvcGoes, flags, manager, hd
  <2>2. \E at \in {"tell", "head", "body", "send"} : giver' = Round(at, giver.given)
    BY <1>5 DEF SvcHead, SvcBody, SvcSend, SvcGoes
  <2>3. GiverTyped
    BY <1>1, <1>2, <2>2
  <2>4. sent' \in [Kinds -> Nat]
    <3>1. sent' = sent \/ GiveToDevice
      BY <1>5 DEF SvcHead, SvcBody, SvcSend, WriteHead, WriteBody
    <3> QED
      BY <1>0, <3>1 DEF GiveToDevice
  <2> QED
    BY <1>0, <2>1, <2>3, <2>4 DEF AnswerTypes
<1>6. CASE \/ NoCommand \/ ServeOpen \/ OpenWithoutHd \/ RefuseOpen \/ ServeTune \/ ServeSeek \/ ServeDeinit
           \/ SeekGoesOn \/ SeekStops \/ Callback \/ RoundEnds
  <2>1. UNCHANGED <<requested, isInit, mgr, audioDue, sent>>
    BY <1>6 DEF NoCommand, ServeOpen, OpenWithoutHd, RefuseOpen, ServeTune, ServeSeek, ServeDeinit, SvcTakes, SeekGoesOn, SeekStops,
                Callback, RoundEnds, flags, manager, hd, message
  <2>2. \/ \E at \in {"off", "receive", "seek", "tell"} : giver' = Round(at, 0)
        \/ giver' = Round("head", giver.given + 1)
    BY <1>6 DEF NoCommand, ServeOpen, OpenWithoutHd, RefuseOpen, ServeTune, ServeSeek, ServeDeinit, SvcTakes, SeekGoesOn, SeekStops,
                Callback, RoundEnds
  <2>3. GiverTyped
    BY <1>1, <1>2, <2>2
  <2> QED
    BY <1>0, <2>1, <2>3 DEF AnswerTypes
<1>7. CASE HdConfirms \/ HdTells \/ UNCHANGED subVars
  <2>1. UNCHANGED <<requested, isInit, mgr, sent, giver>> /\ (audioDue' = audioDue \/ (audioDue > 0 /\ audioDue' = audioDue - 1))
    BY <1>7 DEF HdConfirms, HdTells, subVars, flags, manager, hd, message, serviceVars
  <2>2. audioDue' \in Nat
    BY <1>0, <2>1
  <2> QED
    BY <1>0, <2>1, <2>2 DEF AnswerTypes
<1> QED
  BY <1>3, <1>4, <1>5, <1>6, <1>7 DEF SubNext, MainThread, SvcThread, TakeSteps

LEMMA NotBegunNext ==
  ASSUME SubTypes, AnswerTypes, NotBegun, [SubNext]_subVars
  PROVE  NotBegun'
<1>1. CASE TakeSteps
  <2>1. PICK kind \in Kinds, ok \in BOOLEAN :
          /\ Comes(kind, ok)
          /\ kind # "Deinit" => (isInit' = isInit \/ isInit')
          /\ giver' = giver \/ (~isInit /\ giver' = Round("receive", 0) /\ isInit')
    BY <1>1, TakeComes DEF AnswerTypes
  <2>2. /\ requested["Deinit"] = 0
        /\ requested' = [requested EXCEPT ![kind] = @ + 1] /\ requested \in [Kinds -> Nat]
        /\ "Deinit" \in Kinds
    BY <2>1, KindsOf DEF Comes, Take, AnswerTypes
  <2>3. kind = "Deinit" => requested'["Deinit"] # 0
    BY <2>2
  <2>4. kind # "Deinit" => requested'["Deinit"] = requested["Deinit"]
    BY <2>2
  <2> QED
    BY <2>1, <2>2, <2>3, <2>4 DEF NotBegun
<1>2. CASE ~TakeSteps
  <2>1. requested' = requested /\ isInit' = isInit /\ (giver.pc = "off" => giver' = giver)
    BY <1>2 DEF SubNext, MainThread, SvcThread, TakeSteps, subVars, manager, flags, serviceVars,
           MgrHead, MgrBody, MgrSend, MgrGoes, NoCommand, ServeOpen, OpenWithoutHd, RefuseOpen, ServeTune, ServeSeek, ServeDeinit,
           SvcTakes, SeekGoesOn, SeekStops, Callback, SvcHead, SvcBody, SvcSend, SvcGoes, RoundEnds, HdConfirms,
           HdTells
  <2> QED
    BY <2>1 DEF NotBegun
<1> QED
  BY <1>1, <1>2

(* What is blurred stays so; a message composed over another is. *)
LEMMA BlurredBy ==
  /\ MgrHead /\ ~blurred' => ~blurred /\ ~Underway(giver)
  /\ MgrBody /\ ~blurred' => ~blurred /\ ~Underway(giver) /\ txHead \in {mgr.kind, Nothing}
  /\ SvcHead /\ ~blurred' => ~blurred /\ ~Underway(mgr)
  /\ SvcBody /\ ~blurred' => ~blurred /\ ~Underway(mgr)
  /\ [SubNext]_subVars /\ ~Composing => blurred' = blurred
<1>1. MgrHead /\ ~blurred' => ~blurred /\ ~Underway(giver)
  BY Zenon DEF MgrHead, WriteHead
<1>2. MgrBody /\ ~blurred' => ~blurred /\ ~Underway(giver) /\ txHead \in {mgr.kind, Nothing}
  BY Zenon DEF MgrBody, WriteBody
<1>3. SvcHead /\ ~blurred' => ~blurred /\ ~Underway(mgr)
  BY Zenon DEF SvcHead, WriteHead
<1>4. SvcBody /\ ~blurred' => ~blurred /\ ~Underway(mgr)
  BY Zenon DEF SvcBody, WriteBody
<1>5. [SubNext]_subVars /\ ~Composing => blurred' = blurred
  BY DEF Composing, SubNext, MainThread, SvcThread, subVars, message,
         TakeInit, TakeDeinit, TakeOpen, TakeClose, TakeSetTune, TakeSetSeek, TakeSetHdrAudioMode, TakeOther, Take,
         MgrSend, SvcSend, GiveToDevice, NoCommand, ServeOpen, OpenWithoutHd, RefuseOpen, ServeTune, ServeSeek, ServeDeinit,
         SvcTakes, SeekGoesOn, SeekStops, Callback, RoundEnds, HdConfirms, HdTells
<1> QED
  BY <1>1, <1>2, <1>3, <1>4, <1>5

LEMMA ApartNext ==
  ASSUME SubTypes, AnswerTypes, NotBegun, Apart, ~blurred', [SubNext]_subVars
  PROVE  Apart'
<1>1. mgr \in [pc : {"idle", "head", "body", "send"}, kind : Kinds \cup {Nothing}]
  BY DEF AnswerTypes
<1>2. CASE TakeSteps
  <2>1. PICK kind \in Kinds, ok \in BOOLEAN :
          /\ Comes(kind, ok)
          /\ giver' = giver \/ (~isInit /\ giver' = Round("receive", 0) /\ isInit')
    BY <1>2, TakeComes DEF AnswerTypes
  <2>2. /\ UNCHANGED <<txHead, note>> /\ mgr.pc = "idle"
        /\ mgr' = mgr \/ mgr' = At("head", kind) \/ (mgr' = At("body", kind) /\ kind = "Fader")
    BY <2>1 DEF Comes, Take, message
  <2>3. Reply' = Reply /\ (Underway(giver') => giver' = giver)
    BY <2>1, <2>2 DEF Reply, Underway, Round
  <2>4. /\ ~(mgr'.pc \in {"body", "send"} /\ mgr'.kind # "Fader") /\ mgr'.pc # "send"
    BY <2>2 DEF At
  <2> QED
    BY <2>2, <2>3, <2>4 DEF Apart
<1>3. CASE MgrHead
  <2>1. mgr' = At("body", mgr.kind) /\ txHead' = mgr.kind /\ giver' = giver /\ ~Underway(giver)
    BY <1>3, BlurredBy DEF MgrHead, MgrGoes, WriteHead, serviceVars
  <2>2. mgr'.pc = "body" /\ mgr'.kind = mgr.kind /\ ~Underway(giver')
    BY <2>1 DEF At
  <2> QED
    BY <2>1, <2>2 DEF Apart
<1>4. CASE MgrBody
  <2>1. /\ mgr' = At("send", mgr.kind) /\ mgr.pc = "body" /\ txHead' = txHead /\ giver' = giver
        /\ ~Underway(giver) /\ txHead \in {mgr.kind, Nothing}
    BY <1>4, BlurredBy DEF MgrBody, MgrGoes, WriteBody, serviceVars
  <2>2. mgr'.pc = "send" /\ mgr'.kind = mgr.kind /\ ~Underway(giver')
    BY <2>1 DEF At
  <2> QED
    BY <2>1, <2>2 DEF Apart
<1>5. CASE MgrSend
  <2>1. mgr'.pc = "idle" /\ UNCHANGED <<txHead, giver, note>>
    BY <1>5 DEF MgrSend, MgrGoes, GiveToDevice, serviceVars, At
  <2>2. Reply' = Reply /\ (Underway(giver') <=> Underway(giver))
    BY <2>1 DEF Reply
  <2> QED
    BY <2>1, <2>2 DEF Apart
<1>6. CASE SvcHead \/ SvcBody
  <2>1. /\ ~Underway(mgr) /\ mgr' = mgr /\ note' = note
        /\ txHead' = Reply \/ (giver.pc = "body" /\ txHead' = txHead)
    BY <1>6, BlurredBy DEF SvcHead, SvcBody, SvcGoes, WriteHead, WriteBody, manager
  <2>2. Reply' = Reply
    BY <2>1 DEF Reply
  <2>3. mgr'.pc \notin {"body", "send"} /\ (giver.pc = "body" => txHead = Reply)
    BY <2>1 DEF Underway, Apart
  <2> QED
    BY <2>1, <2>2, <2>3 DEF Apart
<1>7. CASE \/ SvcSend \/ NoCommand \/ ServeOpen \/ OpenWithoutHd \/ RefuseOpen \/ ServeTune \/ ServeSeek \/ ServeDeinit
           \/ SeekGoesOn \/ SeekStops \/ Callback \/ RoundEnds
  <2>1. /\ UNCHANGED <<mgr, txHead>>
        /\ giver'.pc \in {"off", "receive", "seek", "tell", "head"}
    <3>1. CASE SvcSend
      <4>1. GiveToDevice /\ (SvcGoes("send", "head") \/ SvcGoes("send", "tell"))
        BY <3>1, Zenon DEF SvcSend
      <4> QED
        BY <4>1 DEF SvcGoes, GiveToDevice, manager, Round
    <3>2. CASE ServeOpen \/ OpenWithoutHd \/ RefuseOpen \/ ServeTune \/ ServeSeek \/ ServeDeinit
      <4>1. \E cmd : SvcTakes(cmd)
        BY <3>2 DEF ServeOpen, OpenWithoutHd, RefuseOpen, ServeTune, ServeSeek, ServeDeinit
      <4> QED
        BY <4>1 DEF SvcTakes, manager, message, Round
    <3>3. CASE NoCommand \/ SeekGoesOn \/ SeekStops \/ Callback \/ RoundEnds
      BY <3>3 DEF NoCommand, SeekGoesOn, SeekStops, Callback, RoundEnds, manager, message, Round
    <3> QED
      BY <1>7, <3>1, <3>2, <3>3
  <2>2. ~Underway(giver')
    BY <2>1 DEF Underway
  <2> QED
    BY <2>1, <2>2 DEF Apart
<1>8. CASE HdConfirms \/ HdTells \/ UNCHANGED subVars
  <2>1. UNCHANGED <<mgr, txHead, giver, note>>
    BY <1>8 DEF HdConfirms, HdTells, subVars, manager, message, serviceVars
  <2>2. Reply' = Reply
    BY <2>1 DEF Reply
  <2> QED
    BY <2>1, <2>2 DEF Apart
<1> QED
  BY <1>2, <1>3, <1>4, <1>5, <1>6, <1>7, <1>8 DEF SubNext, MainThread, SvcThread, TakeSteps

-----------------------------------------------------------------------------
(* What a step does to the parts of the balance.                           *)

(* A step that takes a command and tells of it once. *)
LEMMA TaskTold ==
  ASSUME SubTypes, AnswerTypes, NEW kind \in {"Open", "SetTune"}, SvcTakes(kind), NEW k \in Kinds,
         NEW n \in Notices, ReplyOf(n) = kind,
         \/ notes' = notes \o <<n>>
         \/ \E m \in Notices : ReplyOf(m) = "SetSeek" /\ notes' = (notes \o <<m>>) \o <<n>>
  PROVE  k # "SetSeek" => InCmds(k) + InNotes(k) = InCmds(k)' + InNotes(k)'
<1> SUFFICES ASSUME k # "SetSeek"
             PROVE  InCmds(k) + InNotes(k) = InCmds(k)' + InNotes(k)'
  OBVIOUS
<1>1. /\ InCmds(k) = One(kind = k) + InCmds(k)'
      /\ InCmds(k) \in Nat /\ InNotes(k) \in Nat
  BY RequestTaken, CountsTyped DEF InCmds, InNotes, InGift, InHand
<1>2. InCmds(k)' \in Nat
  <2>1. cmds' \in Seq(Requests)
    BY HeadTailProperties DEF SvcTakes, SubTypes
  <2> QED
    BY <2>1, PlacesFinite DEF InCmds, InNotes, InGift, InHand
<1>3. One(kind = k) \in {0, 1} /\ notes \in Seq(Notices)
  BY DEF One, SubTypes
<1>4. InNotes(k)' = InNotes(k) + One(kind = k)
  <2>1. CASE notes' = notes \o <<n>>
    BY <1>3, <2>1, NoticeCounted DEF InCmds, InNotes, InGift, InHand
  <2>2. ASSUME NEW m \in Notices, ReplyOf(m) = "SetSeek", notes' = (notes \o <<m>>) \o <<n>>
        PROVE  InNotes(k)' = InNotes(k) + One(kind = k)
    <3>1. /\ notes \o <<m>> \in Seq(Notices)
          /\ Count(notes \o <<m>>, Telling(k)) = InNotes(k) + One("SetSeek" = k)
      BY <1>3, <2>2, NoticeCounted DEF InCmds, InNotes, InGift, InHand
    <3>2. One("SetSeek" = k) = 0
      BY DEF One
    <3> DEFINE q == notes \o <<m>>
    <3>3. q \in Seq(Notices)
      BY <3>1
    <3> HIDE DEF q
    <3>4. Count(q \o <<n>>, Telling(k)) = Count(q, Telling(k)) + One(kind = k)
      BY <3>3, NoticeCounted
    <3> QED
      BY <1>1, <1>3, <2>2, <3>1, <3>2, <3>4 DEF q, InCmds, InNotes, InGift, InHand
  <2> QED
    BY <2>1, <2>2
<1> QED
  BY <1>1, <1>2, <1>3, <1>4

(* A balance none of whose parts moves. *)
LEMMA BalanceKept ==
  ASSUME NEW k \in Kinds, Balance(k), UNCHANGED <<requested, sent, audioDue>>,
         InCmds(k) = InCmds(k)', InNotes(k) = InNotes(k)',
         Gives(k)' <=> Gives(k), Answering(k)' <=> Answering(k)
  PROVE  Balance(k)'
<1>1. InGift(k)' = InGift(k) /\ InHand(k)' = InHand(k) /\ Due(k)' = Due(k)
  BY DEF One, Due, InCmds, InNotes, InGift, InHand
<1> QED
  BY <1>1 DEF Balance

(* A balance of which a part goes on from a request to its notification. *)
LEMMA BalanceShifted ==
  ASSUME NEW k \in Kinds, SubTypes, AnswerTypes, Balance(k), UNCHANGED <<requested, sent, mgr>>, (SubTypes /\ AnswerTypes)',
         InCmds(k) + InNotes(k) + InGift(k) + Due(k) = InCmds(k)' + InNotes(k)' + InGift(k)' + Due(k)'
  PROVE  Balance(k)'
<1>1. InHand(k)' = InHand(k) /\ requested'[k] = requested[k] /\ sent'[k] = sent[k]
  BY DEF InHand, Answering
<1>2. /\ sent[k] \in Nat /\ InCmds(k) \in Nat /\ InNotes(k) \in Nat /\ Due(k) \in Nat
      /\ InGift(k) \in Nat /\ InHand(k) \in Nat
  BY CountsTyped DEF AnswerTypes, InCmds, InNotes, Due, InGift, InHand, One
<1>3. /\ InCmds(k)' \in Nat /\ InNotes(k)' \in Nat /\ Due(k)' \in Nat /\ InGift(k)' \in Nat
  <2>1. cmds' \in Seq(Requests) /\ notes' \in Seq(Notices) /\ audioDue' \in Nat
    BY DEF SubTypes, AnswerTypes
  <2> QED
    BY <2>1, PlacesFinite DEF InCmds, InNotes, Due, InGift, One
<1>4. requested[k] = sent[k] + InCmds(k) + InNotes(k) + InGift(k) + InHand(k) + Due(k)
  BY DEF Balance
<1>5. requested[k] = sent[k] + InCmds(k)' + InNotes(k)' + InGift(k)' + InHand(k) + Due(k)'
  BY <1>2, <1>3, <1>4
<1> QED
  BY <1>1, <1>5 DEF Balance

LEMMA OneMore ==
  \A s, c, n, g, d, c2, h2, d2 \in Nat :
    c2 + h2 + d2 = c + d + 1 => (s + c + n + g + 0 + d) + 1 = s + c2 + n + g + h2 + d2
OBVIOUS

(* The steps that leave the balance alone, and those that move a part.     *)
LEMMA BalanceNext ==
  ASSUME SubTypes, AnswerTypes, NotBegun, Apart, [SubNext]_subVars, NEW k \in Tracked, Balance(k)
  PROVE  Balance(k)'
<1>0. /\ requested \in [Kinds -> Nat] /\ sent \in [Kinds -> Nat] /\ audioDue \in Nat
      /\ k \in Kinds /\ k \notin {"Deinit", "SetSeek", "Fader", "Unsupported"}
      /\ requested[k] \in Nat /\ sent[k] \in Nat
      /\ InCmds(k) \in Nat /\ InNotes(k) \in Nat
      /\ notes \in Seq(Notices) /\ cmds \in Seq(Requests)
      /\ Due(k) \in Nat
  BY KindsOf, CountsTyped DEF AnswerTypes, SubTypes, Due, InCmds, InNotes, InGift, InHand
<1>b. One(TRUE) = 1 /\ One(FALSE) = 0 /\ \A b \in BOOLEAN : One(b) \in {0, 1}
  BY DEF One
<1>t. Gives(k) \in BOOLEAN /\ Answering(k) \in BOOLEAN /\ InGift(k) \in {0, 1} /\ InHand(k) \in {0, 1}
  BY DEF Gives, Answering, One, InCmds, InNotes, InGift, InHand
<1>1. CASE TakeSteps
  <2>1. PICK kind \in Kinds, ok \in BOOLEAN :
          /\ Comes(kind, ok)
          /\ giver' = giver \/ (~isInit /\ giver' = Round("receive", 0) /\ isInit')
    BY <1>1, TakeComes DEF AnswerTypes
  <2>2. /\ mgr.pc = "idle" /\ requested["Deinit"] = 0
        /\ requested' = [requested EXCEPT ![kind] = @ + 1]
        /\ mgr' = IF Answered(kind, ok) THEN At(IF kind = "Fader" THEN "body" ELSE "head", kind) ELSE mgr
        /\ UNCHANGED <<sent, note, notes>>
    BY <2>1 DEF toApp, Comes, Take, message
  <2>3. Gives(k)' <=> Gives(k)
    <3>1. CASE giver' = giver
      BY <2>2, <3>1 DEF Gives, Reply
    <3>2. CASE ~isInit /\ giver' = Round("receive", 0)
      <4>1. giver.pc = "off" /\ giver'.pc = "receive"
        BY <2>2, <3>2 DEF NotBegun, Round
      <4> QED
        BY <4>1 DEF Gives
    <3> QED
      BY <2>1, <3>1, <3>2
  <2>4. ~Answering(k)
    BY <2>2 DEF Answering
  <2>5. Answering(k)' <=> Answered(kind, ok) /\ kind = k
    <3>1. CASE Answered(kind, ok)
      BY <2>2, <3>1 DEF Answering, At
    <3>2. CASE ~Answered(kind, ok)
      BY <2>2, <3>2 DEF Answering
    <3> QED
      BY <3>1, <3>2
  <2>6. InGift(k)' = InGift(k) /\ InHand(k) = 0
        /\ InHand(k)' = One(Answered(kind, ok) /\ kind = k)
    BY <2>3, <2>4, <2>5 DEF One, InCmds, InNotes, InGift, InHand
  <2>7. CASE kind # k
    <3>1. InCmds(k)' = InCmds(k)
      <4>1. ASSUME NEW r \in Requests, r.cmd = kind, cmds' = Append(cmds, r)
            PROVE  InCmds(k)' = InCmds(k)
        <5>1. InCmds(k)' = InCmds(k) + One(r.cmd = k)
          BY <4>1, RequestCounted DEF InCmds, InNotes, InGift, InHand
        <5>2. One(r.cmd = k) = 0
          BY <2>7, <4>1 DEF One
        <5> QED
          BY <1>0, <5>1, <5>2
      <4> QED
        BY <2>1, <4>1 DEF Comes, InCmds, InNotes, InGift, InHand
    <3>2. Due(k)' = Due(k)
      BY <2>1, <2>7 DEF Comes, Due
    <3>3. requested'[k] = requested[k] /\ sent'[k] = sent[k]
      BY <1>0, <2>2, <2>7
    <3>4. Answering(k)' <=> Answering(k)
      BY <2>4, <2>5, <2>7
    <3>5. InHand(k)' = InHand(k)
      BY <3>4 DEF One, InCmds, InNotes, InGift, InHand
    <3> QED
      BY <2>2, <2>6, <3>1, <3>2, <3>3, <3>5 DEF Balance, InCmds, InNotes, InGift, InHand
  <2>8. CASE kind = k
    <3>1. requested'[k] = requested[k] + 1 /\ sent'[k] = sent[k]
      BY <1>0, <2>2, <2>8
    <3>2. InCmds(k)' + InHand(k)' + Due(k)' = InCmds(k) + Due(k) + 1
      <4>1. CASE k \in {"Init", "Close", "Other"}
        <5>1. Answered(kind, ok)
          BY <2>8, <4>1 DEF Answered, AtOnce
        <5>2. cmds' = cmds /\ Due(k)' = Due(k)
          BY <2>1, <2>8, <4>1 DEF Comes, Due, Queued
        <5>3. InHand(k)' = 1
          BY <2>5, <2>8, <5>1 DEF One, InCmds, InNotes, InGift, InHand
        <5> QED
          BY <1>0, <5>2, <5>3 DEF InCmds, InNotes, InGift, InHand
      <4>2. CASE k \in {"Open", "SetTune"} /\ ok
        <5>1. ~Answered(kind, ok)
          BY <2>8, <4>2 DEF Answered, AtOnce, ByCallback
        <5>2. Due(k)' = Due(k) /\ \E r \in Requests : r.cmd = kind /\ cmds' = Append(cmds, r)
          BY <2>1, <2>8, <4>2 DEF Comes, Due, Queued
        <5>3. InCmds(k)' = InCmds(k) + 1
          <6>1. PICK r \in Requests : r.cmd = kind /\ cmds' = Append(cmds, r)
            BY <5>2
          <6>2. One(r.cmd = k) = 1
            BY <2>8, <6>1 DEF One
          <6> QED
            BY <6>1, <6>2, RequestCounted DEF InCmds, InNotes, InGift, InHand
        <5>4. InHand(k)' = 0
          BY <2>5, <5>1 DEF One, InCmds, InNotes, InGift, InHand
        <5> QED
          BY <1>0, <5>2, <5>3, <5>4
      <4>3. CASE k \in {"Open", "SetTune", "SetHdrAudioMode"} /\ ~ok
        <5>1. Answered(kind, ok)
          BY <2>8, <4>3 DEF Answered, ByCallback
        <5>2. cmds' = cmds /\ Due(k)' = Due(k)
          <6>1. One(ok) = 0
            BY <4>3 DEF One
          <6> QED
            BY <1>0, <2>1, <2>8, <4>3, <6>1 DEF Comes, Due, Queued
        <5>3. InHand(k)' = 1
          BY <2>5, <2>8, <5>1 DEF One, InCmds, InNotes, InGift, InHand
        <5> QED
          BY <1>0, <5>2, <5>3 DEF InCmds, InNotes, InGift, InHand
      <4>4. CASE k = "SetHdrAudioMode" /\ ok
        <5>1. ~Answered(kind, ok)
          BY <2>8, <4>4 DEF Answered, AtOnce, ByCallback
        <5>2. cmds' = cmds /\ audioDue' = audioDue + One(ok)
          BY <2>1, <2>8, <4>4 DEF Comes, Queued
        <5>3. One(ok) = 1
          BY <4>4 DEF One
        <5>4. Due(k) = audioDue /\ Due(k)' = audioDue'
          BY <4>4 DEF Due
        <5>5. InHand(k)' = 0
          BY <2>5, <5>1 DEF One, InCmds, InNotes, InGift, InHand
        <5> QED
          BY <1>0, <5>2, <5>3, <5>4, <5>5 DEF InCmds, InNotes, InGift, InHand
      <4> QED
        BY KindsOf, <4>1, <4>2, <4>3, <4>4
    <3>3. InHand(k)' \in {0, 1} /\ InCmds(k)' \in Nat /\ Due(k)' \in Nat
      <4>1. (SubTypes /\ AnswerTypes)'
        BY SubTypesNext, AnswerTypesNext
      <4>2. cmds' \in Seq(Requests) /\ audioDue' \in Nat
        BY <4>1 DEF SubTypes, AnswerTypes
      <4> QED
        BY <4>2, PlacesFinite DEF One, Due, InCmds, InNotes, InGift, InHand
    <3>4. InNotes(k)' = InNotes(k)
      BY <2>2 DEF InCmds, InNotes, InGift, InHand
    <3>5. /\ requested[k] = sent[k] + InCmds(k) + InNotes(k)
                               + InGift(k) + InHand(k) + Due(k)
      BY DEF Balance
    <3>6. requested'[k] = sent'[k] + InCmds(k)' + InNotes(k)'
                               + InGift(k)' + InHand(k)' + Due(k)'
      <4>1. InGift(k)' = InGift(k) /\ InHand(k) = 0
        BY <2>6
      <4>2. /\ requested[k] \in Nat /\ sent[k] \in Nat /\ InCmds(k) \in Nat /\ InNotes(k) \in Nat /\ Due(k) \in Nat
            /\ InGift(k) \in Nat /\ InCmds(k)' \in Nat /\ Due(k)' \in Nat /\ InHand(k)' \in Nat
        BY <1>0, <1>t, <3>3
      <4>3. QED
        <5>1. requested'[k] = requested[k] + 1 /\ sent'[k] = sent[k]
          BY <3>1
        <5>2. requested[k] = sent[k] + InCmds(k) + InNotes(k) + InGift(k) + 0 + Due(k)
          BY <3>5, <4>1
        <5>3. requested[k] + 1 = sent[k] + InCmds(k)' + InNotes(k) + InGift(k) + InHand(k)' + Due(k)'
          BY <3>2, <4>2, <5>2, OneMore
        <5> QED
          BY <3>4, <4>1, <5>1, <5>3
    <3> QED
      BY <3>6 DEF Balance
  <2> QED
    BY <2>7, <2>8
<1>2. CASE MgrHead \/ MgrBody
  <2>1. /\ UNCHANGED <<requested, sent, audioDue, cmds, notes, giver, note>>
        /\ mgr' = At("body", mgr.kind) \/ mgr' = At("send", mgr.kind)
        /\ mgr.pc # "idle"
    BY <1>2 DEF toApp, MgrHead, MgrBody, MgrGoes, WriteHead, WriteBody, serviceVars, hd
  <2>2. Gives(k)' <=> Gives(k)
    BY <2>1 DEF Gives, Reply
  <2>3. Answering(k)' <=> Answering(k)
    BY <2>1 DEF Answering, At
  <2> QED
    BY <1>0, <2>1, <2>2, <2>3, BalanceKept DEF InCmds, InNotes, InGift, InHand
<1>3. CASE MgrSend
  <2>1. /\ UNCHANGED <<requested, audioDue, cmds, notes, giver, note>>
        /\ mgr.pc = "send" /\ mgr' = At("idle", Nothing)
        /\ GiveToDevice
    BY <1>3 DEF toApp, MgrSend, MgrGoes, serviceVars, hd
  <2>2. Gives(k)' <=> Gives(k)
    BY <2>1 DEF Gives, Reply
  <2>3. ~Answering(k)' /\ (Answering(k) <=> mgr.kind = k)
    BY <2>1 DEF Answering, At
  <2>4. sent'[k] = sent[k] + One(mgr.kind = k)
    <3>1. CASE mgr.kind = "Fader"
      <4>1. txHead \in {Nothing, "Fader"} /\ mgr.kind # k
        BY <1>0, <2>1, <3>1 DEF Apart
      <4>2. sent'[k] = sent[k]
        BY <1>0, <2>1, <4>1, KindsOf DEF GiveToDevice, Nothing
      <4> QED
        BY <1>0, <4>1, <4>2 DEF One
    <3>2. CASE mgr.kind # "Fader"
      <4>1. txHead = mgr.kind /\ mgr.kind \in Kinds
        BY <2>1, <3>2 DEF Apart, AnswerTypes
      <4>2. sent' = [sent EXCEPT ![mgr.kind] = @ + 1]
        BY <2>1, <4>1 DEF GiveToDevice
      <4> QED
        BY <1>0, <4>1, <4>2 DEF One
    <3> QED
      BY <3>1, <3>2
  <2>5. /\ InGift(k)' = InGift(k) /\ InHand(k)' = 0
        /\ InHand(k) = One(mgr.kind = k) /\ Due(k)' = Due(k)
    BY <2>1, <2>2, <2>3 DEF One, Due, InCmds, InNotes, InGift, InHand
  <2>6. One(mgr.kind = k) \in {0, 1} /\ requested'[k] = requested[k]
        /\ InCmds(k)' = InCmds(k) /\ InNotes(k)' = InNotes(k)
    BY <2>1 DEF One, InCmds, InNotes, InGift, InHand
  <2>7. requested[k] = sent[k] + InCmds(k) + InNotes(k)
                               + InGift(k) + InHand(k) + Due(k)
    BY DEF Balance
  <2>8. requested'[k] = sent'[k] + InCmds(k)' + InNotes(k)'
                               + InGift(k)' + InHand(k)' + Due(k)'
    BY <1>0, <1>t, <2>4, <2>5, <2>6, <2>7
  <2> QED
    BY <2>8 DEF Balance
<1>4. CASE SvcHead \/ SvcBody
  <2>1. /\ UNCHANGED <<requested, sent, audioDue, cmds, notes, mgr, note>>
        /\ giver' = Round("body", giver.given) \/ giver' = Round("send", giver.given)
        /\ giver.pc \in {"head", "body"}
    BY <1>4 DEF toApp, SvcHead, SvcBody, SvcGoes, WriteHead, WriteBody, manager, hd
  <2>2. Gives(k)' <=> Gives(k)
    BY <2>1 DEF Gives, Reply, Round
  <2>3. Answering(k)' <=> Answering(k)
    BY <2>1 DEF Answering
  <2> QED
    BY <1>0, <2>1, <2>2, <2>3, BalanceKept DEF InCmds, InNotes, InGift, InHand
<1>5. CASE SvcSend
  <2>1. /\ UNCHANGED <<requested, audioDue, cmds, notes, mgr>>
        /\ giver.pc = "send" /\ GiveToDevice
        /\ \/ giver'.pc = "head" /\ note' = Notice("List", curBand, FALSE, FALSE)
           \/ giver'.pc = "tell"
    <3>1. /\ GiveToDevice
          /\ \/ SvcGoes("send", "head") /\ note' = Notice("List", curBand, FALSE, FALSE)
             \/ SvcGoes("send", "tell")
      BY <1>5, Zenon DEF SvcSend
    <3>2. CASE SvcGoes("send", "head") /\ note' = Notice("List", curBand, FALSE, FALSE)
      BY <3>1, <3>2 DEF toApp, SvcGoes, manager, hd, Round
    <3>3. CASE SvcGoes("send", "tell")
      BY <3>1, <3>3 DEF toApp, SvcGoes, manager, hd, Round
    <3> QED
      BY <3>1, <3>2, <3>3
  <2>2. txHead = Reply
    BY <2>1 DEF Apart, Underway
  <2>3. ~Gives(k)' /\ (Gives(k) <=> Reply = k)
    <3>1. "List" # k
      BY KindsOf
    <3>2. CASE giver'.pc = "head" /\ note' = Notice("List", curBand, FALSE, FALSE)
      BY <2>1, <3>1, <3>2 DEF Gives, Reply, Notice
    <3>3. CASE giver'.pc = "tell"
      BY <2>1, <3>3 DEF Gives
    <3> QED
      BY <2>1, <3>2, <3>3 DEF Gives
  <2>4. sent'[k] = sent[k] + One(Reply = k)
    <3>1. CASE Reply \in Kinds
      <4>1. sent' = [sent EXCEPT ![Reply] = @ + 1]
        BY <2>1, <2>2, <3>1 DEF GiveToDevice
      <4> QED
        BY <1>0, <3>1, <4>1 DEF One
    <3>2. CASE Reply \notin Kinds
      <4>1. sent' = sent /\ Reply # k
        BY <1>0, <2>1, <2>2, <3>2 DEF GiveToDevice
      <4> QED
        BY <1>0, <4>1 DEF One
    <3> QED
      BY <3>1, <3>2
  <2>5. /\ InGift(k)' = 0 /\ InGift(k) = One(Reply = k)
        /\ InHand(k)' = InHand(k) /\ Due(k)' = Due(k)
    <3>1. Answering(k)' <=> Answering(k)
      BY <2>1 DEF Answering
    <3> QED
      BY <2>1, <2>3, <3>1 DEF One, Due, InCmds, InNotes, InGift, InHand
  <2>6. One(Reply = k) \in {0, 1} /\ requested'[k] = requested[k]
        /\ InCmds(k)' = InCmds(k) /\ InNotes(k)' = InNotes(k)
    BY <2>1 DEF One, InCmds, InNotes, InGift, InHand
  <2>7. requested[k] = sent[k] + InCmds(k) + InNotes(k)
                               + InGift(k) + InHand(k) + Due(k)
    BY DEF Balance
  <2>8. requested'[k] = sent'[k] + InCmds(k)' + InNotes(k)'
                               + InGift(k)' + InHand(k)' + Due(k)'
    BY <1>0, <1>t, <2>4, <2>5, <2>6, <2>7
  <2> QED
    BY <2>8 DEF Balance
<1>6. (SubTypes /\ AnswerTypes)'
  BY SubTypesNext, AnswerTypesNext
<1>7. CASE ServeOpen \/ OpenWithoutHd \/ RefuseOpen \/ ServeTune
  <2>1. \E kind \in {"Open", "SetTune"}, n \in Notices :
          /\ SvcTakes(kind) /\ ReplyOf(n) = kind
          /\ \/ notes' = notes \o <<n>>
             \/ \E m \in Notices : ReplyOf(m) = "SetSeek" /\ notes' = (notes \o <<m>>) \o <<n>>
    <3>1. CASE ServeOpen \/ OpenWithoutHd \/ RefuseOpen
      <4>1. PICK n \in Notices : n.what \in {"Open", "OpenFailed"} /\ Noticed(n)
        BY <3>1, OpenNotices
      <4>2. ReplyOf(n) = "Open" /\ SvcTakes("Open") /\ notes' = notes \o <<n>>
        BY <3>1, <4>1, NoticeReply DEF ServeOpen, OpenWithoutHd, RefuseOpen, Noticed
      <4> QED
        BY <4>2
    <3>2. CASE ServeTune
      <4>1. PICK n \in Notices :
              /\ n.what \in {"SetTune", "SetTuneSecondary"}
              /\ \/ Noticed(n)
                 \/ notes' = (notes \o <<SeekStopped(svcBand, FALSE)>>) \o <<n>>
        BY <3>2, TuneNotices
      <4>2. ReplyOf(n) = "SetTune" /\ SvcTakes("SetTune")
        BY <3>2, <4>1, NoticeReply DEF ServeTune
      <4>3. SeekStopped(svcBand, FALSE) \in Notices /\ SeekStopped(svcBand, FALSE).what = "SetSeek"
        BY DEF SeekStopped, Notice, Notices, SubTypes
      <4>4. ReplyOf(SeekStopped(svcBand, FALSE)) = "SetSeek"
        BY <4>3, NoticeReply
      <4> QED
        BY <4>1, <4>2, <4>3, <4>4 DEF Noticed
    <3> QED
      BY <1>7, <3>1, <3>2
  <2>2. PICK kind \in {"Open", "SetTune"}, n \in Notices :
          /\ SvcTakes(kind) /\ ReplyOf(n) = kind
          /\ \/ notes' = notes \o <<n>>
             \/ \E m \in Notices : ReplyOf(m) = "SetSeek" /\ notes' = (notes \o <<m>>) \o <<n>>
    BY <2>1
  <2>3. InCmds(k) + InNotes(k) = InCmds(k)' + InNotes(k)'
    BY <1>0, <2>2, TaskTold
  <2>4. /\ UNCHANGED <<requested, sent, mgr, audioDue>>
        /\ giver.pc = "receive" /\ giver'.pc = "seek"
    BY <2>2 DEF SvcTakes, manager, message, hd, Round
  <2>5. InGift(k) = 0 /\ InGift(k)' = 0 /\ Due(k)' = Due(k)
    BY <2>4 DEF InGift, Gives, One, Due
  <2>6. InCmds(k)' \in Nat /\ InNotes(k)' \in Nat /\ InCmds(k) \in Nat /\ InNotes(k) \in Nat
    <3>1. cmds' \in Seq(Requests) /\ notes' \in Seq(Notices)
      BY <1>6 DEF SubTypes
    <3> QED
      BY <1>0, <3>1, PlacesFinite DEF InCmds, InNotes
  <2>7. InCmds(k) + InNotes(k) + InGift(k) + Due(k) = InCmds(k)' + InNotes(k)' + InGift(k)' + Due(k)'
    BY <1>0, <2>3, <2>5, <2>6
  <2> QED
    BY <1>0, <1>6, <2>4, <2>7, BalanceShifted
<1>8. CASE ServeSeek \/ SeekStops \/ SeekGoesOn \/ HdTells \/ NoCommand \/ ServeDeinit \/ RoundEnds
  <2>1. /\ UNCHANGED <<requested, sent, mgr, audioDue, note>>
        /\ \/ giver' = giver
           \/ giver.pc \notin {"head", "body", "send"} /\ giver'.pc \notin {"head", "body", "send"}
    <3>1. CASE ServeSeek \/ ServeDeinit
      <4>1. SvcTakes("SetSeek") \/ SvcTakes("Deinit")
        BY <3>1 DEF ServeSeek, ServeDeinit
      <4> QED
        BY <4>1 DEF SvcTakes, manager, message, hd, Round
    <3>2. CASE HdTells
      BY <3>2 DEF HdTells, manager, message
    <3>3. CASE NoCommand \/ SeekGoesOn \/ SeekStops
      BY <3>3 DEF NoCommand, SeekGoesOn, SeekStops, manager, message, hd, Round
    <3>4. CASE RoundEnds
      <4>1. giver' = Round("off", 0) \/ giver' = Round("receive", 0)
        BY <3>4, Zenon DEF RoundEnds
      <4> QED
        BY <3>4, <4>1 DEF RoundEnds, manager, message, hd, Round
    <3> QED
      BY <1>8, <3>1, <3>2, <3>3, <3>4
  <2>2. Gives(k)' <=> Gives(k)
    BY <2>1 DEF Gives, Reply
  <2>3. Answering(k)' <=> Answering(k)
    BY <2>1 DEF Answering
  <2>4. InCmds(k) = InCmds(k)'
    <3>1. CASE cmds' = cmds
      BY <3>1 DEF InCmds
    <3>2. ASSUME NEW kind \in {"SetSeek", "Deinit"}, SvcTakes(kind)
          PROVE  InCmds(k) = InCmds(k)'
      <4>1. InCmds(k) = One(kind = k) + Count(cmds', Asked(k))
        BY <3>2, RequestTaken DEF InCmds
      <4>2. One(kind = k) = 0 /\ Count(cmds', Asked(k)) \in Nat
        <5>1. cmds' \in Seq(Requests)
          BY <1>6 DEF SubTypes
        <5> QED
          BY <1>0, <5>1, PlacesFinite DEF One
      <4> QED
        BY <4>1, <4>2 DEF InCmds
    <3> QED
      BY <1>8, <3>1, <3>2 DEF ServeSeek, SeekStops, SeekGoesOn, HdTells, NoCommand, ServeDeinit, RoundEnds
  <2>5. InNotes(k) = InNotes(k)'
    <3>1. CASE notes' = notes
      BY <3>1 DEF InNotes
    <3>2. ASSUME NEW n \in Notices, n.what \in {"SetSeek", "SeekQuality", "HdrData"}, Noticed(n)
          PROVE  InNotes(k) = InNotes(k)'
      <4>1. ReplyOf(n) = n.what
        BY <3>2, NoticeReply
      <4>2. ReplyOf(n) # k
        BY <3>2, <4>1, KindsOf
      <4>3. Count(notes', Telling(k)) = Count(notes, Telling(k)) + One(ReplyOf(n) = k)
        BY <1>0, <3>2, NoticeCounted DEF Noticed
      <4>4. One(ReplyOf(n) = k) = 0
        BY <4>2 DEF One
      <4> QED
        BY <1>0, <4>3, <4>4 DEF InNotes
    <3>3. CASE ServeSeek \/ SeekStops
      BY <3>1, <3>2, <3>3, SeekNotices
    <3>4. CASE SeekGoesOn \/ HdTells
      BY <3>1, <3>2, <3>4, OtherNotices
    <3>5. CASE NoCommand \/ ServeDeinit \/ RoundEnds
      BY <3>1, <3>5 DEF toApp, NoCommand, ServeDeinit, RoundEnds
    <3> QED
      BY <1>8, <3>3, <3>4, <3>5
  <2> QED
    BY <1>0, <2>1, <2>2, <2>3, <2>4, <2>5, BalanceKept
<1>9. CASE Callback
  <2>1. /\ UNCHANGED <<requested, sent, mgr, audioDue, cmds>>
        /\ notes # <<>> /\ note' = Head(notes) /\ notes' = Tail(notes)
        /\ giver.pc = "tell" /\ giver'.pc = "head"
    BY <1>9 DEF Callback, manager, message, hd, Round
  <2>2. Reply' = ReplyOf(Head(notes))
    BY <2>1 DEF Reply, ReplyOf
  <2>3. InGift(k) = 0 /\ InGift(k)' = One(ReplyOf(Head(notes)) = k)
    <3>1. ~Gives(k) /\ (Gives(k)' <=> ReplyOf(Head(notes)) = k)
      BY <2>1, <2>2 DEF Gives
    <3> QED
      BY <3>1 DEF InGift, One
  <2>4. InNotes(k) = One(ReplyOf(Head(notes)) = k) + InNotes(k)'
    BY <1>0, <2>1, NoticeTaken DEF InNotes
  <2>5. InCmds(k)' = InCmds(k) /\ Due(k)' = Due(k)
    BY <2>1 DEF InCmds, Due
  <2>6. InNotes(k)' \in Nat /\ InGift(k)' \in Nat /\ InCmds(k) \in Nat /\ Due(k) \in Nat
    <3>1. notes' \in Seq(Notices)
      BY <1>6 DEF SubTypes
    <3> QED
      BY <1>0, <3>1, PlacesFinite DEF InNotes, InCmds, InGift, One
  <2>7. InNotes(k) = InGift(k)' + InNotes(k)'
    BY <2>3, <2>4
  <2>8. InCmds(k) + InNotes(k) + InGift(k) + Due(k) = InCmds(k)' + InNotes(k)' + InGift(k)' + Due(k)'
    <3>1. InGift(k) = 0
      BY <2>3
    <3> QED
      BY <2>5, <2>6, <2>7, <3>1
  <2> QED
    BY <1>0, <1>6, <2>1, <2>8, BalanceShifted
<1>10. CASE HdConfirms
  <2>1. /\ UNCHANGED <<requested, sent, mgr, cmds, giver, note>>
        /\ audioDue > 0 /\ audioDue' = audioDue - 1
    BY <1>10 DEF HdConfirms, manager, message
  <2>2. PICK n \in Notices : n.what = "SetHdrAudioMode" /\ Noticed(n)
    BY <1>10, OtherNotices
  <2>3. ReplyOf(n) = "SetHdrAudioMode"
    BY <2>2, NoticeReply
  <2>4. InNotes(k)' = InNotes(k) + One(ReplyOf(n) = k)
    BY <1>0, <2>2, NoticeCounted DEF Noticed, InNotes
  <2>5. Due(k) = Due(k)' + One(ReplyOf(n) = k)
    BY <1>0, <2>1, <2>3 DEF Due, One
  <2>6. InGift(k)' = InGift(k) /\ InCmds(k)' = InCmds(k)
    <3>1. Gives(k)' <=> Gives(k)
      BY <2>1 DEF Gives, Reply
    <3> QED
      BY <2>1, <3>1 DEF InGift, InCmds, One
  <2>7. /\ One(ReplyOf(n) = k) \in Nat /\ InCmds(k) \in Nat /\ InNotes(k) \in Nat /\ Due(k)' \in Nat
        /\ InGift(k) \in Nat
    <3>1. audioDue' \in Nat
      BY <1>6 DEF AnswerTypes
    <3> QED
      BY <1>0, <3>1 DEF One, InCmds, InNotes, Due, InGift
  <2> DEFINE more == One(ReplyOf(n) = k)
  <2>8. InCmds(k) + InNotes(k) + InGift(k) + Due(k) = InCmds(k)' + InNotes(k)' + InGift(k)' + Due(k)'
    <3>1. InNotes(k)' = InNotes(k) + more /\ Due(k) = Due(k)' + more /\ more \in Nat
      BY <2>4, <2>5, <2>7
    <3> HIDE DEF more
    <3> QED
      BY <2>6, <2>7, <3>1
  <2> QED
    BY <1>0, <1>6, <2>1, <2>8, BalanceShifted
<1>11. CASE UNCHANGED subVars
  <2>1. UNCHANGED <<requested, sent, audioDue, cmds, notes, giver, note, mgr>>
    BY <1>11 DEF toApp, subVars, manager, message, serviceVars, hd
  <2>2. (Gives(k)' <=> Gives(k)) /\ (Answering(k)' <=> Answering(k))
    BY <2>1 DEF Gives, Answering, Reply
  <2> QED
    BY <1>0, <2>1, <2>2, BalanceKept DEF InCmds, InNotes
<1> QED
  BY <1>1, <1>2, <1>3, <1>4, <1>5, <1>7, <1>8, <1>9, <1>10, <1>11 DEF SubNext, MainThread, SvcThread, TakeSteps

(* The parts that only grow. *)
LEMMA OwedStays ==
  ASSUME EndOwed, SubTypes, AnswerTypes, (SubTypes /\ AnswerTypes)',
         sent'["SetSeek"] >= sent["SetSeek"], seeking => seeking',
         InCmds("SetSeek")' >= InCmds("SetSeek"), InNotes("SetSeek")' >= InNotes("SetSeek"),
         Gives("SetSeek") => Gives("SetSeek")', Answering("SetSeek") => Answering("SetSeek")'
  PROVE  EndOwed'
<1>1. /\ sent["SetSeek"] \in Nat /\ InCmds("SetSeek") \in Nat /\ InNotes("SetSeek") \in Nat
      /\ sent'["SetSeek"] \in Nat /\ InCmds("SetSeek")' \in Nat /\ InNotes("SetSeek")' \in Nat
  <2>1. "SetSeek" \in Kinds
    BY KindsOf
  <2>2. sent \in [Kinds -> Nat] /\ sent' \in [Kinds -> Nat]
    BY DEF AnswerTypes
  <2>3. /\ cmds \in Seq(Requests) /\ notes \in Seq(Notices)
        /\ cmds' \in Seq(Requests) /\ notes' \in Seq(Notices)
    BY DEF SubTypes
  <2> QED
    BY <2>1, <2>2, <2>3, PlacesFinite DEF InCmds, InNotes
<1>2. /\ sent["SetSeek"] > 0 => sent'["SetSeek"] > 0
      /\ InCmds("SetSeek") > 0 => InCmds("SetSeek")' > 0
      /\ InNotes("SetSeek") > 0 => InNotes("SetSeek")' > 0
  BY <1>1
<1> QED
  BY <1>2, Zenon DEF EndOwed

(* A notification more; one of the end of a seek. *)
LEMMA OneMoreTold ==
  ASSUME SubTypes, NEW n \in Notices, Noticed(n)
  PROVE  /\ InNotes("SetSeek")' >= InNotes("SetSeek")
         /\ n.what = "SetSeek" => InNotes("SetSeek")' > 0
<1>1. notes \in Seq(Notices) /\ notes' = notes \o <<n>> /\ InNotes("SetSeek") \in Nat
  BY CountsTyped DEF SubTypes, Noticed, InNotes
<1>2. InNotes("SetSeek")' = InNotes("SetSeek") + One(ReplyOf(n) = "SetSeek")
  BY <1>1, NoticeCounted DEF InNotes
<1>3. One(ReplyOf(n) = "SetSeek") \in {0, 1} /\ (n.what = "SetSeek" => One(ReplyOf(n) = "SetSeek") = 1)
  BY NoticeReply DEF One
<1> HIDE DEF One
<1> QED
  BY <1>1, <1>2, <1>3

LEMMA SentGrows ==
  ASSUME AnswerTypes, GiveToDevice, NEW k \in Kinds
  PROVE  sent'[k] >= sent[k] /\ (txHead = k => sent'[k] > 0)
<1>1. sent \in [Kinds -> Nat]
  BY DEF AnswerTypes
<1>2. CASE txHead = k
  <2>1. sent' = [sent EXCEPT ![k] = @ + 1]
    BY <1>2 DEF GiveToDevice
  <2> QED
    BY <1>1, <2>1
<1>3. CASE txHead \in Kinds /\ txHead # k
  <2>1. sent' = [sent EXCEPT ![txHead] = @ + 1]
    BY <1>3 DEF GiveToDevice
  <2>2. sent'[k] = sent[k]
    BY <1>1, <1>3, <2>1
  <2> QED
    BY <1>1, <1>3, <2>2
<1>4. CASE txHead \notin Kinds
  BY <1>1, <1>4 DEF GiveToDevice
<1> QED
  BY <1>2, <1>3, <1>4

LEMMA SeekEndingNext ==
  ASSUME SubTypes, AnswerTypes, NotBegun, Apart, SeekEnding, [SubNext]_subVars
  PROVE  SeekEnding'
<1> DEFINE k == "SetSeek"
<1> SUFFICES ASSUME requested'[k] > 0 PROVE EndOwed'
  BY DEF SeekEnding
<1>0. (SubTypes /\ AnswerTypes)'
  BY SubTypesNext, AnswerTypesNext
<1>1. /\ requested \in [Kinds -> Nat] /\ sent \in [Kinds -> Nat] /\ k \in Kinds
      /\ requested[k] \in Nat /\ sent[k] \in Nat /\ InCmds(k) \in Nat /\ InNotes(k) \in Nat
      /\ cmds \in Seq(Requests) /\ notes \in Seq(Notices)
  BY KindsOf, CountsTyped DEF AnswerTypes, SubTypes, InCmds, InNotes
<1>2. requested' = requested => EndOwed
  BY DEF SeekEnding
<1>3. CASE TakeSteps
  <2>1. PICK kind \in Kinds, ok \in BOOLEAN :
          /\ Comes(kind, ok)
          /\ giver' = giver \/ (~isInit /\ giver' = Round("receive", 0) /\ isInit')
    BY <1>3, TakeComes DEF AnswerTypes
  <2>2. /\ mgr.pc = "idle" /\ requested["Deinit"] = 0
        /\ requested' = [requested EXCEPT ![kind] = @ + 1]
        /\ mgr' = IF Answered(kind, ok) THEN At(IF kind = "Fader" THEN "body" ELSE "head", kind) ELSE mgr
        /\ UNCHANGED <<sent, note, notes, seeking>>
    BY <2>1 DEF toApp, Comes, Take, message
  <2>3. ASSUME NEW r \in Requests, r.cmd = kind, cmds' = Append(cmds, r)
        PROVE  InCmds(k)' >= InCmds(k) /\ (kind = k => InCmds(k)' > 0)
    <3>1. InCmds(k)' = InCmds(k) + One(r.cmd = k)
      BY <2>3, RequestCounted DEF InCmds
    <3>2. One(r.cmd = k) \in {0, 1} /\ (kind = k => One(r.cmd = k) = 1)
      BY <2>3 DEF One
    <3> QED
      BY <1>1, <3>1, <3>2
  <2>4. CASE kind = k
    <3>1. CASE ok
      <4>1. \E r \in Requests : r.cmd = kind /\ cmds' = Append(cmds, r)
        BY <2>1, <2>4, <3>1 DEF Comes, Queued
      <4> QED
        BY <2>3, <2>4, <4>1 DEF EndOwed
    <3>2. CASE ~ok
      <4>1. Answered(kind, ok)
        BY <2>4, <3>2 DEF Answered
      <4>2. Answering(k)'
        BY <2>2, <2>4, <4>1 DEF Answering, At
      <4> QED
        BY <4>2 DEF EndOwed
    <3> QED
      BY <3>1, <3>2
  <2>5. CASE kind # k
    <3>1. EndOwed
      <4>1. requested'[k] = requested[k]
        BY <1>1, <2>2, <2>5
      <4> QED
        BY <4>1 DEF SeekEnding
    <3>2. ~Answering(k) /\ InNotes(k)' = InNotes(k)
      BY <2>2 DEF Answering, InNotes
    <3>3. InCmds(k)' >= InCmds(k)
      <4>1. CASE cmds' = cmds
        BY <1>1, <4>1 DEF InCmds
      <4> QED
        BY <2>1, <2>3, <4>1 DEF Comes
    <3>4. Gives(k) => Gives(k)'
      <4>1. CASE giver' = giver
        BY <2>2, <4>1 DEF Gives, Reply
      <4>2. CASE ~isInit
        BY <2>2, <4>2 DEF NotBegun, Gives
      <4> QED
        BY <2>1, <4>1, <4>2
    <3> QED
      BY <1>0, <1>1, <2>2, <3>1, <3>2, <3>3, <3>4, OwedStays
  <2> QED
    BY <2>4, <2>5
<1>4. CASE MgrHead \/ MgrBody \/ SvcHead \/ SvcBody \/ NoCommand \/ RoundEnds \/ UNCHANGED subVars
  <2>1. /\ UNCHANGED <<requested, sent, seeking, cmds, notes, note>>
        /\ mgr' = mgr \/ (mgr'.kind = mgr.kind /\ mgr'.pc # "idle")
        /\ \/ giver' = giver
           \/ giver'.pc \in {"body", "send"}
           \/ giver.pc \notin {"head", "body", "send"}
    <3>1. CASE MgrHead \/ MgrBody
      BY <3>1 DEF toApp, MgrHead, MgrBody, MgrGoes, WriteHead, WriteBody, serviceVars, At
    <3>2. CASE SvcHead \/ SvcBody
      BY <3>2 DEF toApp, SvcHead, SvcBody, SvcGoes, WriteHead, WriteBody, manager, Round
    <3>3. CASE NoCommand \/ RoundEnds
      BY <3>3 DEF toApp, NoCommand, RoundEnds, manager, message
    <3>4. CASE UNCHANGED subVars
      BY <3>4 DEF toApp, subVars, manager, message, serviceVars
    <3> QED
      BY <1>4, <3>1, <3>2, <3>3, <3>4
  <2>2. (Gives(k) => Gives(k)') /\ (Answering(k) => Answering(k)')
    BY <2>1 DEF Gives, Answering, Reply
  <2>3. InCmds(k)' >= InCmds(k) /\ InNotes(k)' >= InNotes(k) /\ sent'[k] >= sent[k]
    BY <1>1, <2>1 DEF InCmds, InNotes
  <2> QED
    BY <1>0, <1>2, <2>1, <2>2, <2>3, OwedStays
<1>5. CASE MgrSend
  <2>1. /\ UNCHANGED <<requested, seeking, cmds, notes, giver, note>>
        /\ mgr.pc = "send" /\ GiveToDevice
    BY <1>5 DEF toApp, MgrSend, MgrGoes, serviceVars
  <2>2. sent'[k] >= sent[k] /\ (Answering(k) => sent'[k] > 0)
    <3>1. Answering(k) => txHead = k
      BY <2>1 DEF Answering, Apart
    <3>3. sent'[k] >= sent[k] /\ (txHead = k => sent'[k] > 0)
      BY <1>1, <2>1, SentGrows
    <3> QED
      BY <3>1, <3>3
  <2>3. Gives(k) => Gives(k)'
    BY <2>1 DEF Gives, Reply
  <2>4. InCmds(k)' >= InCmds(k) /\ InNotes(k)' >= InNotes(k)
    BY <1>1, <2>1 DEF InCmds, InNotes
  <2>5. CASE Answering(k)
    BY <2>2, <2>5 DEF EndOwed
  <2>6. CASE ~Answering(k)
    BY <1>0, <1>2, <2>1, <2>2, <2>3, <2>4, <2>6, OwedStays
  <2> QED
    BY <2>5, <2>6
<1>6. CASE SvcSend
  <2>1. /\ UNCHANGED <<requested, seeking, cmds, notes, mgr>>
        /\ giver.pc = "send" /\ GiveToDevice
    <3>1. GiveToDevice /\ (SvcGoes("send", "head") \/ SvcGoes("send", "tell"))
      BY <1>6, Zenon DEF SvcSend
    <3> QED
      BY <3>1 DEF toApp, SvcGoes, manager
  <2>2. sent'[k] >= sent[k] /\ (Gives(k) => sent'[k] > 0)
    <3>1. txHead = Reply
      BY <2>1 DEF Apart, Underway
    <3>3. sent'[k] >= sent[k] /\ (txHead = k => sent'[k] > 0)
      BY <1>1, <2>1, SentGrows
    <3> QED
      BY <3>1, <3>3 DEF Gives
  <2>3. Answering(k) => Answering(k)'
    BY <2>1 DEF Answering
  <2>4. InCmds(k)' >= InCmds(k) /\ InNotes(k)' >= InNotes(k)
    BY <1>1, <2>1 DEF InCmds, InNotes
  <2>5. CASE Gives(k)
    BY <2>2, <2>5 DEF EndOwed
  <2>6. CASE ~Gives(k)
    BY <1>0, <1>2, <2>1, <2>2, <2>3, <2>4, <2>6, OwedStays
  <2> QED
    BY <2>5, <2>6
<1>7. CASE ServeSeek \/ SeekStops
  BY <1>7, SeekNotices, OneMoreTold DEF EndOwed
<1>8. CASE ServeOpen \/ OpenWithoutHd \/ RefuseOpen \/ ServeTune \/ ServeDeinit
  <2>1. PICK kind \in {"Open", "SetTune", "Deinit"} : SvcTakes(kind)
    BY <1>8 DEF ServeOpen, OpenWithoutHd, RefuseOpen, ServeTune, ServeDeinit
  <2>2. UNCHANGED <<requested, sent, mgr>> /\ giver.pc = "receive"
    BY <2>1 DEF SvcTakes, manager, message
  <2>3. InCmds(k)' >= InCmds(k)
    <3>1. InCmds(k) = One(kind = k) + InCmds(k)'
      BY <2>1, RequestTaken DEF InCmds
    <3>2. One(kind = k) = 0 /\ InCmds(k)' \in Nat
      <4>1. cmds' \in Seq(Requests)
        BY <1>0 DEF SubTypes
      <4> QED
        BY <4>1, PlacesFinite DEF One, InCmds
    <3> QED
      BY <3>1, <3>2
  <2>4. ~Gives(k) /\ (Answering(k) => Answering(k)') /\ sent'[k] >= sent[k]
    BY <1>1, <2>2 DEF Gives, Answering
  <2>5. CASE (seeking => seeking') /\ InNotes(k)' >= InNotes(k)
    BY <1>0, <1>2, <2>2, <2>3, <2>4, <2>5, OwedStays
  <2>6. CASE ServeOpen \/ OpenWithoutHd \/ RefuseOpen
    BY <2>5, <2>6, OpenNotices, OneMoreTold
  <2>7. CASE ServeDeinit
    BY <1>1, <2>5, <2>7 DEF toApp, ServeDeinit, InNotes
  <2>8. CASE ServeTune
    <3>1. PICK n \in Notices :
            \/ Noticed(n) /\ (seeking => seeking')
            \/ notes' = (notes \o <<SeekStopped(svcBand, FALSE)>>) \o <<n>>
      BY <2>8, TuneNotices
    <3>2. CASE Noticed(n) /\ (seeking => seeking')
      BY <2>5, <3>2, OneMoreTold
    <3>3. CASE notes' = (notes \o <<SeekStopped(svcBand, FALSE)>>) \o <<n>>
      <4> DEFINE m == SeekStopped(svcBand, FALSE)
      <4>1. m \in Notices /\ m.what = "SetSeek"
        BY DEF SeekStopped, Notice, Notices, SubTypes
      <4>2. ReplyOf(m) = "SetSeek"
        BY <4>1, NoticeReply
      <4> DEFINE q == notes \o <<m>>
      <4>3. q \in Seq(Notices) /\ Count(q, Telling(k)) = InNotes(k) + One(ReplyOf(m) = k)
        <5> HIDE DEF m
        <5> QED
          BY <1>1, <4>1, NoticeCounted DEF InNotes
      <4>4. One(ReplyOf(m) = k) = 1
        BY <4>2 DEF One
      <4>5. notes' = q \o <<n>>
        BY <3>3
      <4> HIDE DEF m, q
      <4>6. InNotes(k)' = Count(q, Telling(k)) + One(ReplyOf(n) = k)
        BY <4>3, <4>5, NoticeCounted DEF InNotes
      <4>7. One(ReplyOf(n) = k) \in {0, 1}
        BY DEF One
      <4>8. InNotes(k)' > 0
        BY <1>1, <4>3, <4>4, <4>6, <4>7
      <4> QED
        BY <4>8 DEF EndOwed
    <3> QED
      BY <3>1, <3>2, <3>3
  <2> QED
    BY <1>8, <2>6, <2>7, <2>8
<1>9. CASE SeekGoesOn \/ HdConfirms \/ HdTells
  <2>1. /\ UNCHANGED <<requested, sent, mgr, cmds, note, seeking>>
        /\ giver' = giver \/ giver.pc = "seek"
    BY <1>9 DEF SeekGoesOn, HdConfirms, HdTells, manager, message
  <2>2. InNotes(k)' >= InNotes(k)
    <3>1. notes' = notes \/ \E n \in Notices : Noticed(n)
      BY <1>9, OtherNotices
    <3>2. CASE notes' = notes
      BY <1>1, <3>2 DEF InNotes
    <3> QED
      BY <3>1, <3>2, OneMoreTold
  <2>3. (Gives(k) => Gives(k)') /\ (Answering(k) => Answering(k)')
    BY <2>1 DEF Gives, Answering, Reply
  <2>4. InCmds(k)' >= InCmds(k) /\ sent'[k] >= sent[k]
    BY <1>1, <2>1 DEF InCmds
  <2> QED
    BY <1>0, <1>2, <2>1, <2>2, <2>3, <2>4, OwedStays
<1>10. CASE Callback
  <2>1. /\ UNCHANGED <<requested, sent, mgr, cmds, seeking>>
        /\ notes # <<>> /\ note' = Head(notes) /\ notes' = Tail(notes)
        /\ giver.pc = "tell" /\ giver'.pc = "head"
    BY <1>10 DEF Callback, manager, message, Round
  <2>2. Reply' = ReplyOf(Head(notes)) /\ Head(notes) \in Notices
    BY <1>1, <2>1, HeadTailProperties DEF Reply, ReplyOf
  <2>3. InNotes(k) = One(ReplyOf(Head(notes)) = k) + InNotes(k)'
    BY <1>1, <2>1, NoticeTaken DEF InNotes
  <2>4. InNotes(k)' \in Nat
    <3>1. notes' \in Seq(Notices)
      BY <1>0 DEF SubTypes
    <3> QED
      BY <3>1, PlacesFinite DEF InNotes
  <2>5. CASE ReplyOf(Head(notes)) = k
    <3>1. Gives(k)'
      BY <2>1, <2>2, <2>5 DEF Gives
    <3> QED
      BY <3>1 DEF EndOwed
  <2>6. CASE ReplyOf(Head(notes)) # k
    <3>1. One(ReplyOf(Head(notes)) = k) = 0
      BY <2>6 DEF One
    <3>2. InNotes(k)' >= InNotes(k)
      BY <2>3, <2>4, <3>1
    <3>3. ~Gives(k) /\ (Answering(k) => Answering(k)') /\ InCmds(k)' >= InCmds(k) /\ sent'[k] >= sent[k]
      BY <1>1, <2>1 DEF Gives, Answering, InCmds
    <3> QED
      BY <1>0, <1>2, <2>1, <3>2, <3>3, OwedStays
  <2> QED
    BY <2>5, <2>6
<1> QED
  BY <1>3, <1>4, <1>5, <1>6, <1>7, <1>8, <1>9, <1>10 DEF SubNext, MainThread, SvcThread, TakeSteps

LEMMA AnswersInvInit == SubInit => AnswersInv
<1> SUFFICES ASSUME SubInit PROVE AnswersInv
  OBVIOUS
<1>1. /\ requested = [k \in Kinds |-> 0] /\ sent = [k \in Kinds |-> 0]
      /\ mgr = At("idle", Nothing) /\ isInit = FALSE /\ cmds = <<>> /\ notes = <<>>
      /\ giver = Round("off", 0) /\ audioDue = 0
  BY DEF SubInit
<1>2. mgr.pc = "idle" /\ giver.pc = "off"
  BY <1>1 DEF At, Round
<1>3. AnswerTypes
  <2>1. isInit \in BOOLEAN
    BY <1>1, Zenon
  <2>2. giver \in Givers
    BY <1>1 DEF Round, Givers
  <2>3. mgr \in [pc : {"idle", "head", "body", "send"}, kind : Kinds \cup {Nothing}]
    BY <1>1 DEF At
  <2> QED
    BY <1>1, <1>2, <2>1, <2>2, <2>3 DEF AnswerTypes
<1>4. NotBegun /\ Apart
  BY <1>2 DEF NotBegun, Apart, Underway
<1>5. Balanced
  <2> SUFFICES ASSUME NEW k \in Tracked PROVE Balance(k)
    BY DEF Balanced
  <2>1. k \in Kinds
    BY KindsOf
  <2>2. ~Gives(k) /\ ~Answering(k)
    BY <1>2 DEF Gives, Answering
  <2>3. InCmds(k) = 0 /\ InNotes(k) = 0
    BY <1>1, CountEmpty DEF InCmds, InNotes
  <2>4. InGift(k) = 0 /\ InHand(k) = 0 /\ Due(k) = 0
    BY <1>1, <2>2 DEF InGift, InHand, One, Due
  <2>5. requested[k] = 0 /\ sent[k] = 0
    BY <1>1, <2>1
  <2> QED
    BY <2>3, <2>4, <2>5 DEF Balance
<1>6. SeekEnding
  BY <1>1, KindsOf DEF SeekEnding
<1> QED
  BY <1>3, <1>4, <1>5, <1>6 DEF AnswersInv

LEMMA AnswersInvNext == SubTypes /\ AnswersInv /\ [SubNext]_subVars => AnswersInv'
<1> SUFFICES ASSUME SubTypes, AnswersInv, [SubNext]_subVars PROVE AnswersInv'
  OBVIOUS
<1>1. AnswerTypes /\ NotBegun
  BY DEF AnswersInv
<1>2. AnswerTypes' /\ NotBegun'
  BY <1>1, AnswerTypesNext, NotBegunNext
<1>3. ASSUME ~blurred' PROVE Apart' /\ Balanced' /\ SeekEnding'
  <2>1. ~blurred
    BY <1>3, BlurredBy DEF Composing
  <2>2. Apart /\ Balanced /\ SeekEnding
    BY <2>1 DEF AnswersInv
  <2>3. Apart'
    BY <1>1, <1>3, <2>2, ApartNext
  <2>4. SeekEnding'
    BY <1>1, <2>2, SeekEndingNext
  <2>5. ASSUME NEW k \in Tracked PROVE Balance(k)'
    BY <1>1, <2>2, BalanceNext DEF Balanced
  <2> QED
    BY <2>3, <2>4, <2>5 DEF Balanced
<1> QED
  BY <1>2, <1>3 DEF AnswersInv

LEMMA AnsweredAtRest == AnswersInv => EachAnswered
<1> SUFFICES ASSUME AnswersInv, AtRest, ~blurred
             PROVE  /\ \A k \in AtOnce \cup ByCallback : sent[k] = requested[k]
                    /\ requested["SetSeek"] > 0 => sent["SetSeek"] > 0
  BY DEF EachAnswered
<1>1. AnswerTypes /\ Balanced /\ SeekEnding
  BY DEF AnswersInv
<1>2. /\ mgr.pc = "idle" /\ giver.pc \in {"receive", "off"} /\ ~seeking
      /\ cmds = <<>> /\ notes = <<>> /\ audioDue = 0
  BY DEF AtRest
<1>3. ASSUME NEW k
      PROVE  /\ ~Gives(k) /\ ~Answering(k) /\ InCmds(k) = 0 /\ InNotes(k) = 0
             /\ InGift(k) = 0 /\ InHand(k) = 0 /\ Due(k) = 0
  <2>1. ~Gives(k) /\ ~Answering(k)
    BY <1>2 DEF Gives, Answering
  <2>2. InCmds(k) = 0 /\ InNotes(k) = 0
    BY <1>2, CountEmpty DEF InCmds, InNotes
  <2> QED
    BY <1>2, <2>1, <2>2 DEF InGift, InHand, One, Due
<1>4. ASSUME NEW k \in AtOnce \cup ByCallback PROVE sent[k] = requested[k]
  <2>1. Balance(k) /\ sent[k] \in Nat
    BY <1>1, KindsOf DEF Balanced, Tracked, AnswerTypes
  <2>2. requested[k] = sent[k] + InCmds(k) + InNotes(k) + InGift(k) + InHand(k) + Due(k)
    BY <2>1 DEF Balance
  <2> QED
    BY <1>3, <2>1, <2>2
<1>5. ASSUME requested["SetSeek"] > 0 PROVE sent["SetSeek"] > 0
  <2>1. EndOwed
    BY <1>1, <1>5 DEF SeekEnding
  <2>2. ~(InCmds("SetSeek") > 0) /\ ~(InNotes("SetSeek") > 0)
    BY <1>3
  <2> QED
    BY <1>2, <1>3, <2>1, <2>2 DEF EndOwed
<1> QED
  BY <1>4, <1>5

(* When nothing is on its way any more, every request that is answered at  *)
(* once or by callback has had exactly one answer, and a seek an end, for  *)
(* any number of requests and of news: unless the two threads composed     *)
(* their messages over one another. *)
THEOREM ManagerEachAnswered == SubSpec => []EachAnswered
<1>1. SubInit => SubTypes /\ AnswersInv
  BY SubTypesInit, AnswersInvInit
<1>2. (SubTypes /\ AnswersInv) /\ [SubNext]_subVars => (SubTypes /\ AnswersInv)'
  BY SubTypesNext, AnswersInvNext
<1>3. SubTypes /\ AnswersInv => EachAnswered
  BY AnsweredAtRest
<1> QED
  BY <1>1, <1>2, <1>3, PTL DEF SubSpec

(* Nor is there ever an answer to a request that was not made, while queues *)
(* are full of others: the answers of a kind are at most its requests.      *)
NoneUnasked == ~blurred => \A k \in Tracked : sent[k] <= requested[k]

THEOREM ManagerNoneUnasked == SubSpec => []NoneUnasked
<1>1. SubInit => SubTypes /\ AnswersInv
  BY SubTypesInit, AnswersInvInit
<1>2. (SubTypes /\ AnswersInv) /\ [SubNext]_subVars => (SubTypes /\ AnswersInv)'
  BY SubTypesNext, AnswersInvNext
<1>3. SubTypes /\ AnswersInv => NoneUnasked
  <2> SUFFICES ASSUME SubTypes, AnswersInv, ~blurred, NEW k \in Tracked
               PROVE  sent[k] <= requested[k]
    BY DEF NoneUnasked
  <2>1. AnswerTypes /\ Balance(k)
    BY DEF AnswersInv, Balanced
  <2>2. sent[k] \in Nat /\ audioDue \in Nat
    BY <2>1, KindsOf DEF AnswerTypes, Tracked
  <2>3. InCmds(k) \in Nat /\ InNotes(k) \in Nat
    BY CountsTyped DEF InCmds, InNotes
  <2>4. InGift(k) \in Nat /\ InHand(k) \in Nat /\ Due(k) \in Nat
    BY <2>2 DEF InGift, InHand, One, Due
  <2>5. requested[k] = sent[k] + InCmds(k) + InNotes(k) + InGift(k) + InHand(k) + Due(k)
    BY <2>1 DEF Balance
  <2> QED
    BY <2>2, <2>3, <2>4, <2>5
<1> QED
  BY <1>1, <1>2, <1>3, PTL DEF SubSpec
=============================================================================
