--------------------------- MODULE HdMediaProofs ---------------------------
(***************************************************************************)
(* The media of the HD framework for every value of the constants: the     *)
(* audio output and the analog audio input, whose counts are judged by the *)
(* lemmas about the circular buffer, the blending, and the large objects.  *)
(***************************************************************************)
EXTENDS AudioOutput, AnalogAudio, HdLot, HdBlending, CircBuffProofs, SequenceTheorems

-----------------------------------------------------------------------------
(* The output buffer stays sound although every check is made before the   *)
(* mutex is taken, for every size, frame and amount of silence that        *)
(* AudioAssumption allows.  What makes it inductive: a check that passed   *)
(* stays true until its transfer.                                          *)

ChecksHold == /\ blend = "put" => cb.elemCount + FRAME <= SIZE
              /\ play = "take" => cb.elemCount >= FRAME

OutputInv == Good(cb) /\ frame \in 0 .. LAST /\ ChecksHold

LEMMA FrameType ==
  ASSUME NEW n \in 0 .. LAST
  PROVE  Frame(n) \in [1 .. FRAME -> Elements] /\ FRAME \in 0 .. SIZE
  BY AudioAssumption, CircBuffAssumption DEF Frame, Filled

(* Starting afresh leaves silence for a reader and space for a writer. *)
LEMMA RefilledStep ==
  ASSUME Good(cb)
  PROVE  Good(Refilled(cb)) /\ Refilled(cb).elemCount = FILL
<1> DEFINE b == Emptied(cb)
<1>1. Good(b) /\ b.elemCount = 0
  <2>1. cb.data \in [Cells -> Elements]
    BY FieldsOf DEF Good
  <2> QED
    BY <2>1, FreshGood, FieldsOfBuff DEF Emptied
<1>2. FILL \in 0 .. SIZE
  BY AudioAssumption, CircBuffAssumption
<1>3. Filled(Zero, FILL) \in [1 .. FILL -> Elements]
  BY <1>2, FilledType
<1>4. b.elemCount + FILL <= SIZE /\ b.elemCount + FILL = FILL
  BY <1>1, <1>2
<1>5. /\ Good(Put(b, Filled(Zero, FILL)))
      /\ Put(b, Filled(Zero, FILL)).elemCount = b.elemCount + FILL
  BY <1>1, <1>2, <1>3, <1>4, PutStep, FieldsOfBuff
<1> QED
  BY <1>4, <1>5 DEF Refilled

LEMMA OutputInvInit == Init => OutputInv
<1> SUFFICES ASSUME Init PROVE OutputInv
  OBVIOUS
<1>1. [c \in Cells |-> Zero] \in [Cells -> Elements]
  BY CircBuffAssumption
<1>2. Good(cb)
  BY <1>1, FreshGood DEF Init, Fresh
<1> QED
  BY <1>2, AudioAssumption DEF Init, OutputInv, ChecksHold

LEMMA OutputInvNext == OutputInv /\ [Next]_vars => OutputInv'
<1> SUFFICES ASSUME OutputInv, [Next]_vars PROVE OutputInv'
  OBVIOUS
<1>0. /\ Good(cb) /\ frame \in 0 .. LAST /\ ChecksHold
      /\ cb.elemCount \in 0 .. SIZE
  BY FieldsOf DEF OutputInv, Good
<1>a. ASSUME cb' = cb PROVE Good(cb)'
  BY <1>0, <1>a DEF Good, Consistent
<1>b. ASSUME NEW b, Good(b), cb' = b PROVE Good(cb)'
  BY <1>b DEF Good, Consistent
<1>1. CASE BeginOpen \/ BeginClose \/ ClearReady \/ Finish \/ MarkOpen
  <2>1. cb' = cb /\ blend' = blend /\ play' = play /\ frame' = frame
    BY <1>1 DEF BeginOpen, BeginClose, ClearReady, Finish, MarkOpen, blending, playback
  <2> QED
    BY <1>0, <1>a, <2>1 DEF OutputInv, ChecksHold
<1>2. CASE Refill
  <2>1. cb' = Refilled(cb) /\ blend' = blend /\ play' = play /\ frame' = frame
    BY <1>2 DEF Refill, blending, playback
  <2>2. Good(cb)' /\ cb'.elemCount = FILL
    BY <1>0, <1>b, <2>1, RefilledStep
  <2>3. FILL + FRAME <= SIZE /\ FILL >= FRAME
    BY AudioAssumption
  <2> QED
    BY <1>0, <2>1, <2>2, <2>3 DEF OutputInv, ChecksHold
<1>3. CASE RxHandler
  <2>1. cb' = cb /\ blend' # "put" /\ play' = play /\ frame' \in 0 .. LAST
    BY <1>0, <1>3, AudioAssumption DEF RxHandler, playback
  <2> QED
    BY <1>0, <1>a, <2>1 DEF OutputInv, ChecksHold
<1>4. CASE RefillFirst
  <2>1. cb' = Refilled(cb) /\ blend' = "check" /\ play' = play /\ frame' = frame
    BY <1>4 DEF RefillFirst, playback
  <2>2. Good(cb)' /\ cb'.elemCount = FILL
    BY <1>0, <1>b, <2>1, RefilledStep
  <2>3. FILL >= FRAME
    BY AudioAssumption
  <2> QED
    BY <1>0, <2>1, <2>2, <2>3 DEF OutputInv, ChecksHold
<1>5. CASE CheckSpace
  <2>1. /\ cb' = cb /\ play' = play /\ frame' = frame
        /\ blend' = "put" => AvailSpace(cb) >= FRAME
    BY <1>5 DEF CheckSpace, FrameFits, playback
  <2>2. AvailSpace(cb) = SIZE - cb.elemCount
    BY <1>0, CircBuffAssumption DEF AvailSpace, Word
  <2>3. blend' = "put" => cb.elemCount + FRAME <= SIZE
    <3>1. SIZE - cb.elemCount >= FRAME => cb.elemCount + FRAME <= SIZE
      BY <1>0, CircBuffAssumption, AudioAssumption
    <3> QED
      BY <2>1, <2>2, <3>1
  <2> QED
    BY <1>0, <1>a, <2>1, <2>3 DEF OutputInv, ChecksHold
<1>6. CASE PutFrame
  <2>1. /\ cb' = Put(cb, Frame(frame)) /\ blend' = "post"
        /\ play' = play /\ frame' = frame
    BY <1>6 DEF PutFrame, playback
  <2>2. cb.elemCount + FRAME <= SIZE
    BY <1>0, <1>6 DEF PutFrame, ChecksHold
  <2>3. Good(cb)' /\ cb'.elemCount = cb.elemCount + FRAME
    BY <1>0, <1>b, <2>1, <2>2, FrameType, PutStep, FieldsOfBuff
  <2>4. cb.elemCount + FRAME >= FRAME
    BY <1>0, AudioAssumption
  <2> QED
    BY <1>0, <2>1, <2>3, <2>4 DEF OutputInv, ChecksHold
<1>7. CASE PostFrame \/ Overflow
  <2>1. cb' = cb /\ blend' = "idle" /\ play' = play /\ frame' = frame
    BY <1>7 DEF PostFrame, Overflow, playback
  <2> QED
    BY <1>0, <1>a, <2>1 DEF OutputInv, ChecksHold
<1>8. CASE HandleEvent \/ Wait
  <2>1. cb' = cb /\ blend' = blend /\ play' # "take" /\ frame' = frame
    BY <1>8 DEF HandleEvent, Wait, blending
  <2> QED
    BY <1>0, <1>a, <2>1 DEF OutputInv, ChecksHold
<1>9. CASE CheckData
  <2>1. /\ cb' = cb /\ blend' = blend /\ frame' = frame
        /\ play' = "take" => cb.elemCount >= FRAME
    BY <1>9 DEF CheckData, blending
  <2> QED
    BY <1>0, <1>a, <2>1 DEF OutputInv, ChecksHold
<1>10. CASE TakeFrame
  <2>1. /\ cb' = Taken(cb, FRAME) /\ play' = "event"
        /\ blend' = blend /\ frame' = frame
    BY <1>10 DEF TakeFrame, blending
  <2>2. FRAME \in 0 .. SIZE /\ FRAME <= cb.elemCount
    BY <1>0, <1>10, FrameType DEF TakeFrame, ChecksHold
  <2>3. Good(cb)' /\ cb'.elemCount = cb.elemCount - FRAME
    BY <1>0, <1>b, <2>1, <2>2, TakenStep, FieldsOfBuff
  <2>4. cb.elemCount + FRAME <= SIZE => (cb.elemCount - FRAME) + FRAME <= SIZE
    BY <1>0, AudioAssumption
  <2> QED
    BY <1>0, <2>1, <2>3, <2>4 DEF OutputInv, ChecksHold
<1>11. CASE UNCHANGED vars
  BY <1>0, <1>a, <1>11 DEF vars, blending, playback, OutputInv, ChecksHold
<1> QED
  BY <1>1, <1>2, <1>3, <1>4, <1>5, <1>6, <1>7, <1>8, <1>9, <1>10, <1>11 DEF Next

(* No interleaving of the blending thread, the playback thread and the     *)
(* openings and closings makes the count of digitalAudioBuffer leave its   *)
(* range or its indices disagree.                                          *)
THEOREM OutputBufferSound == Spec => []BufferSound
<1>1. OutputInv => BufferSound
  BY FieldsOf DEF OutputInv, Good, BufferSound
<1> QED
  BY <1>1, OutputInvInit, OutputInvNext, PTL DEF Spec

-----------------------------------------------------------------------------
(* The analog buffer, for every size, frame and length of a driver read:   *)
(* its count is right unless a reset came between the check and the read   *)
(* of the blending thread.  The writer's check needs no such proviso,      *)
(* because a reset only makes more space.                                  *)

AnalogSound ==
  /\ Good(analogBuffer)
  /\ chunk \in 0 .. SIZE
  /\ input = "put" => analogBuffer.elemCount + chunk <= SIZE
  /\ blender = "take" => analogBuffer.elemCount >= ANALOG_FRAME

AnalogInv == raced \/ AnalogSound

LEMMA EmptiedGood ==
  ASSUME NEW b, Good(b)
  PROVE  Good(Emptied(b)) /\ Emptied(b).elemCount = 0
<1>1. b.data \in [Cells -> Elements]
  BY FieldsOf DEF Good
<1> QED
  BY <1>1, FreshGood, FieldsOfBuff DEF Emptied

LEMMA AnalogInvInit == AnalogInit => AnalogInv
<1> SUFFICES ASSUME AnalogInit PROVE AnalogSound
  BY DEF AnalogInv
<1>1. [c \in Cells |-> Zero] \in [Cells -> Elements]
  BY CircBuffAssumption
<1>2. Good(analogBuffer)
  BY <1>1, FreshGood DEF AnalogInit, Fresh
<1> QED
  BY <1>2, CircBuffAssumption DEF AnalogInit, AnalogSound

LEMMA AnalogInvNext == AnalogInv /\ [AnalogNext]_analogVars => AnalogInv'
<1> SUFFICES ASSUME AnalogInv, [AnalogNext]_analogVars PROVE AnalogInv'
  OBVIOUS
<1>r. raced => raced'
  BY DEF AnalogNext, Open, Recover, AudinputOpen, AudinputStart, Answer, BeginCloseInput, AudinputClose,
         ReadInput, CheckInputSpace, PutSamples, AudinputReady, WaitBlend, CheckBlendData, TakeAnalogFrame,
         Reset, analogVars
<1> SUFFICES ASSUME ~raced, ~raced' PROVE AnalogSound'
  BY <1>r DEF AnalogInv
<1>0. /\ Good(analogBuffer) /\ chunk \in 0 .. SIZE /\ analogBuffer.elemCount \in 0 .. SIZE
      /\ input = "put" => analogBuffer.elemCount + chunk <= SIZE
      /\ blender = "take" => analogBuffer.elemCount >= ANALOG_FRAME
  <2>1. AnalogSound
    BY DEF AnalogInv
  <2>2. Good(analogBuffer)
    BY <2>1 DEF AnalogSound
  <2>3. analogBuffer.elemCount \in 0 .. SIZE
    BY <2>2, FieldsOf DEF Good
  <2> QED
    BY <2>1, <2>3 DEF AnalogSound
<1>a. ASSUME analogBuffer' = analogBuffer PROVE Good(analogBuffer)'
  BY <1>0, <1>a DEF Good, Consistent
<1>b. ASSUME NEW b, Good(b), analogBuffer' = b PROVE Good(analogBuffer)'
  BY <1>b DEF Good, Consistent
<1>1. CASE Reset /\ UNCHANGED <<input, chunk, blender>>
  <2>1. analogBuffer' = Emptied(analogBuffer) /\ blender # "take"
    BY <1>1 DEF Reset
  <2>2. Good(analogBuffer)' /\ analogBuffer'.elemCount = 0
    BY <1>0, <1>b, <2>1, EmptiedGood
  <2>3. 0 + chunk <= SIZE
    BY <1>0
  <2> QED
    BY <1>0, <1>1, <2>1, <2>2, <2>3 DEF AnalogSound
<1>2. CASE Recover \/ AudinputOpen \/ AudinputClose
  BY <1>1, <1>2 DEF Recover, AudinputOpen, AudinputClose, reading, blendState
<1>3. CASE Open \/ AudinputStart \/ Answer \/ BeginCloseInput \/ AudinputReady
  <2>1. analogBuffer' = analogBuffer /\ input' = input /\ chunk' = chunk /\ blender' = blender
    BY <1>3 DEF Open, AudinputStart, Answer, BeginCloseInput, AudinputReady, reading, blendState
  <2> QED
    BY <1>0, <1>a, <2>1 DEF AnalogSound
<1>4. CASE ReadInput
  <2>1. /\ analogBuffer' = analogBuffer /\ blender' = blender /\ chunk' \in 0 .. SIZE
        /\ input' # "put"
    <3>1. analogBuffer' = analogBuffer /\ blender' = blender /\ input' # "put"
      BY <1>4 DEF ReadInput, reading, blendState
    <3>2. chunk' \in Chunks \/ chunk' = chunk
      BY <1>4 DEF ReadInput, reading
    <3>3. \A c \in Chunks : c \in 1 .. SIZE
      BY AnalogAssumption
    <3>4. \A c \in 1 .. SIZE : c \in 0 .. SIZE
      BY CircBuffAssumption
    <3>5. chunk' \in 0 .. SIZE
      BY <1>0, <3>2, <3>3, <3>4, Zenon
    <3> QED
      BY <3>1, <3>5
  <2> QED
    BY <1>0, <1>a, <2>1 DEF AnalogSound
<1>5. CASE CheckInputSpace
  <2>1. /\ analogBuffer' = analogBuffer /\ chunk' = chunk /\ blender' = blender
        /\ input' = "put" => AvailSpace(analogBuffer) >= chunk
    BY <1>5 DEF CheckInputSpace, ChunkFits, blendState
  <2>2. AvailSpace(analogBuffer) = SIZE - analogBuffer.elemCount
    BY <1>0, CircBuffAssumption DEF AvailSpace, Word
  <2>3. SIZE - analogBuffer.elemCount >= chunk => analogBuffer.elemCount + chunk <= SIZE
    BY <1>0, CircBuffAssumption
  <2> QED
    BY <1>0, <1>a, <2>1, <2>2, <2>3 DEF AnalogSound
<1>6. CASE PutSamples
  <2>1. PICK v \in Samples : analogBuffer' = Put(analogBuffer, Filled(v, chunk))
    BY <1>6 DEF PutSamples
  <2>2. /\ input = "put" /\ input' = "idle" /\ chunk' = chunk /\ blender' = blender
    BY <1>6 DEF PutSamples, blendState
  <2>3. Filled(v, chunk) \in [1 .. chunk -> Elements]
    BY <1>0, AnalogAssumption DEF Filled
  <2>4. Good(analogBuffer)' /\ analogBuffer'.elemCount = analogBuffer.elemCount + chunk
    BY <1>0, <1>b, <2>1, <2>2, <2>3, PutStep, FieldsOfBuff
  <2>5. analogBuffer.elemCount >= ANALOG_FRAME => analogBuffer.elemCount + chunk >= ANALOG_FRAME
    BY <1>0, AnalogAssumption, CircBuffAssumption
  <2> QED
    BY <1>0, <2>2, <2>4, <2>5 DEF AnalogSound
<1>7. CASE WaitBlend \/ CheckBlendData
  <2>1. /\ analogBuffer' = analogBuffer /\ input' = input /\ chunk' = chunk
        /\ blender' = "take" => analogBuffer.elemCount >= ANALOG_FRAME
    BY <1>7 DEF WaitBlend, CheckBlendData, FrameThere, reading
  <2> QED
    BY <1>0, <1>a, <2>1 DEF AnalogSound
<1>8. CASE TakeAnalogFrame
  <2>1. /\ analogBuffer' = Taken(analogBuffer, ANALOG_FRAME) /\ blender = "take" /\ blender' = "wait"
        /\ input' = input /\ chunk' = chunk
    BY <1>8 DEF TakeAnalogFrame, reading
  <2>2. ANALOG_FRAME \in 0 .. SIZE /\ ANALOG_FRAME <= analogBuffer.elemCount
    BY <1>0, <2>1, AnalogAssumption, CircBuffAssumption
  <2>3. Good(analogBuffer)' /\ analogBuffer'.elemCount = analogBuffer.elemCount - ANALOG_FRAME
    BY <1>0, <1>b, <2>1, <2>2, TakenStep, FieldsOfBuff
  <2>4. analogBuffer.elemCount + chunk <= SIZE => (analogBuffer.elemCount - ANALOG_FRAME) + chunk <= SIZE
    BY <1>0, <2>2, CircBuffAssumption
  <2> QED
    BY <1>0, <2>1, <2>3, <2>4 DEF AnalogSound
<1>9. CASE UNCHANGED analogVars
  BY <1>0, <1>a, <1>9 DEF analogVars, reading, blendState, AnalogSound
<1> QED
  BY <1>2, <1>3, <1>4, <1>5, <1>6, <1>7, <1>8, <1>9 DEF AnalogNext

(* The only order of the five threads that spoils the count is a reset     *)
(* between the check and the read of the blending thread.                  *)
THEOREM AnalogCountSound == AnalogSpec => []OnlyResetsRace
<1>1. AnalogInv => OnlyResetsRace
  <2> SUFFICES ASSUME AnalogSound PROVE InRange /\ Consistent(analogBuffer)
    BY DEF AnalogInv, OnlyResetsRace
  <2>1. Good(analogBuffer)
    BY DEF AnalogSound
  <2> QED
    BY <2>1, FieldsOf DEF Good, InRange
<1> QED
  BY <1>1, AnalogInvInit, AnalogInvNext, PTL DEF AnalogSpec

-----------------------------------------------------------------------------
(* The blending.  What a frame's flag may lean on: an AAA that plays goes  *)
(* on from a frame that had the flag or no analog audio (carried), and a   *)
(* success noted for what the AAA found is about the streams as they are.  *)

BlendTypes == /\ stage \in {"message", "align", "adjust", "adjusted", "refused", "out", "tone"}
              /\ aligner \in {"nothing", "offset", "aligned"}

FlagGoesOn ==
  aaaState = "play" => IF stage \in {"message", "align"}
                       THEN carried
                       ELSE stage \in {"out", "tone"} /\ (blendFlag \/ ~hybridProgram)

SuccessStands ==
  aligner # "nothing" /\ stage \notin {"adjust", "refused"} /\ (stage = "adjusted" \/ alignmentSuccess)
    => applied \/ overtaken

OffsetThen == stage = "adjust" => aligner \in {"nothing", "offset"}

BlendInv == BlendTypes /\ FlagGoesOn /\ SuccessStands /\ OffsetThen

LEMMA BlendInvInit == BlendInit => BlendInv
  BY DEF BlendInit, BlendInv, BlendTypes, FlagGoesOn, SuccessStands, OffsetThen

LEMMA BlendInvNext == BlendInv /\ [BlendNext]_blendVars => BlendInv'
<1> SUFFICES ASSUME BlendInv, [BlendNext]_blendVars PROVE BlendInv'
  OBVIOUS
<1> USE DEF BlendInv, BlendTypes, FlagGoesOn, SuccessStands, OffsetThen
<1>1. CASE TakeNextFrame
  BY <1>1 DEF TakeNextFrame, endVars
<1>2. CASE Align
  <2>1. PICK answer \in Answers :
          /\ aligner' = After(answer)
          /\ IF answer = "apply"
             THEN stage' = "adjust" /\ aaaState' = "apply"
             ELSE stage' = "out" /\ UNCHANGED overtaken /\ Decide(answer, aaaState)
    BY <1>2 DEF Align
  <2>2. stage = "align" /\ UNCHANGED <<alignmentSuccess, applied, hybridProgram, carried>>
    BY <1>2 DEF Align, endVars
  <2>3. CASE answer = "apply"
    BY <2>1, <2>2, <2>3 DEF After
  <2>4. CASE answer # "apply"
    <3>1. aligner' \in {"nothing", "aligned"} /\ (aligner' # "nothing" => aligner # "nothing")
      BY <2>1, <2>4 DEF Answers, After
    <3>2. aaaState' = "play" => blendFlag'
      BY <2>1, <2>4 DEF Decide, AfterFalseFlag
    <3> QED
      BY <2>1, <2>2, <2>4, <3>1, <3>2
  <2> QED
    BY <2>3, <2>4
<1>3. CASE Adjust
  BY <1>3 DEF Adjust, endVars
<1>4. CASE NoteSuccess
  BY <1>4 DEF NoteSuccess, Succeeds, endVars
<1>5. CASE Blend \/ PlayTone \/ Test
  <2>1. /\ stage \in {"out", "tone"} /\ stage' = "message" /\ carried' = (blendFlag \/ ~hybridProgram)
        /\ UNCHANGED <<aligner, aaaState, alignmentSuccess, applied, overtaken>>
    BY <1>5 DEF Blend, PlayTone, Test, EndFrame, alignVars
  <2> QED
    BY <2>1
<1>6. CASE FetchTone
  BY <1>6 DEF FetchTone, alignVars
<1>7. CASE SetAudioMode \/ Alert \/ Retune \/ OnAir \/ UNCHANGED blendVars
  BY <1>7 DEF SetAudioMode, Alert, Retune, OnAir, blendVars, alignVars, frameVars, endVars
<1>8. CASE ReacqComplete
  BY <1>8 DEF ReacqComplete, frameVars, endVars
<1>9. CASE AudioAlign
  BY <1>9 DEF AudioAlign, frameVars, endVars
<1> QED
  BY <1>1, <1>2, <1>3, <1>4, <1>5, <1>6, <1>7, <1>8, <1>9 DEF BlendNext

(* Only streams that are aligned as they are now raise the flag of a       *)
(* hybrid program, or a frame before that had it: no order of retunings,   *)
(* realignments and answers of the AAA does otherwise, but a realignment   *)
(* that the success of the last one overtakes.                             *)
THEOREM FlagAlignedOrCarried == BlendSpec => AlignedOrCarried
<1>1. BlendInv /\ [BlendNext]_blendVars
        => [stage = "align" /\ stage' = "out" /\ blendFlag' => applied \/ carried \/ overtaken]_blendVars
  <2> SUFFICES ASSUME BlendInv, BlendNext, stage = "align", stage' = "out", blendFlag'
               PROVE  applied \/ carried \/ overtaken
    OBVIOUS
  <2>1. Align
    BY DEF BlendNext, TakeNextFrame, Adjust, NoteSuccess, Blend, PlayTone, Test, FetchTone, SetAudioMode,
           Alert, Retune, OnAir, ReacqComplete, AudioAlign, frameVars, EndFrame
  <2>2. PICK answer \in Answers : Decide(answer, aaaState)
    BY <2>1 DEF Align
  <2>3. CASE aaaState = "play"
    BY <2>3 DEF BlendInv, FlagGoesOn
  <2>4. CASE aaaState # "play"
    <3>1. answer = "play" /\ alignmentSuccess
      BY <2>2, <2>4 DEF Decide
    <3>2. aligner # "nothing"
      BY <3>1 DEF Answers
    <3> QED
      BY <3>1, <3>2 DEF BlendInv, SuccessStands
  <2> QED
    BY <2>3, <2>4
<1> QED
  BY <1>1, BlendInvInit, BlendInvNext, PTL DEF BlendSpec, AlignedOrCarried

LEMMA AlertKeptNext == AlertKept /\ [BlendNext]_blendVars => AlertKept'
<1> SUFFICES ASSUME AlertKept, [BlendNext]_blendVars PROVE AlertKept'
  OBVIOUS
<1>1. CASE FetchTone \/ Alert
  BY <1>1 DEF FetchTone, Alert, AlertKept
<1>2. CASE PlayTone
  BY <1>2 DEF PlayTone, GoesOn, AlertKept
<1>3. CASE UNCHANGED alertVars
  BY <1>3 DEF AlertKept, alertVars
<1> QED
  BY <1>1, <1>2, <1>3 DEF BlendNext, TakeNextFrame, Align, Adjust, NoteSuccess, Blend, Test, SetAudioMode,
     Retune, OnAir, ReacqComplete, AudioAlign, blendVars

(* An alert is not forgotten while the tone of another plays.              *)
THEOREM AlertsKept == BlendSpec => []AlertKept
<1>1. BlendInit => AlertKept
  BY DEF BlendInit, AlertKept
<1> QED
  BY <1>1, AlertKeptNext, PTL DEF BlendSpec

-----------------------------------------------------------------------------
(* Large objects. *)

Records == [id : Nat, port : Nat, complete : BOOLEAN, given : BOOLEAN]

LotTypes ==
  /\ lot = [mask |-> lot.mask, notify |-> lot.notify, chk |-> lot.chk] /\ lot.chk \in 0 .. LOT
  /\ visit \in Nat \ {0}
  /\ slot \in [ObjectIndices -> [obj : Nat, whole : BOOLEAN]]
  /\ age \in [ObjectIndices -> 0 .. LOT] /\ sent \in 0 .. OBJECTS
  /\ objects \in [Numbers -> SUBSET Records]
  /\ told \in [1 .. OBJECTS -> Nat]
  /\ appQ \in Seq([idx : ObjectIndices, obj : Nat])

(* An id belongs to one object of one service, and one that was not given  *)
(* yet was told to nobody.                                                 *)
ObjectsApart ==
  /\ \A n \in Numbers : \A o \in objects[n] :
       /\ o.id \in 1 .. sent
       /\ ~o.given => told[o.id] = 0
       /\ \A m \in Numbers : \A x \in objects[m] : x.id = o.id => m = n /\ x = o
  /\ \A i \in 1 .. OBJECTS : i > sent => told[i] = 0

(* While the slot is filled, what it is filled with was given to nobody. *)
Filling ==
  /\ pc \in {"body", "end"} => /\ visit \in DOMAIN Visits
                               /\ slot[Current.idx].obj \in 1 .. sent
  /\ pc = "end" => /\ slot[Current.idx].whole
                   /\ \A o \in Here : ~o.given

(* Between two looks a slot that is still young ages with the interval;    *)
(* during a look only the services visited already can have used a slot.   *)
Ageing ==
  IF pc \in {"message", "status", "look"}
    THEN \A i \in ObjectIndices : age[i] + lot.chk >= LOT
    ELSE \A i \in ObjectIndices :
           age[i] = LOT \/ \E v \in DOMAIN Visits : v < visit /\ Visits[v].idx = i

LotInv == LotTypes /\ ObjectsApart /\ ToldOnce /\ Filling /\ Ageing /\ SlotHeld

(* What a visit looks at. *)
LEMMA VisitKnown ==
  /\ DOMAIN Visits = 1 .. Len(Visits) /\ Len(Visits) \in Nat
  /\ \A v \in DOMAIN Visits : Visits[v].svc.num \in Numbers /\ Visits[v].idx \in ObjectIndices
<1> DEFINE S == [svc : Services, idx : Nat]
<1>1. ASSUME NEW t \in {1, 2} PROVE OfType(t) \in Seq(S)
  <2>1. Station[t] \in Seq(ToSet(Station[t]))
    BY LotAssumption
  <2>2. DOMAIN Station[t] = 1 .. Len(Station[t]) /\ Len(Station[t]) \in Nat
    BY <2>1, LenProperties
  <2>3. \A i \in DOMAIN Station[t] : Station[t][i] \in Services
    BY LotAssumption DEF Services, ToSet
  <2>4. OfType(t) \in [1 .. Len(Station[t]) -> S]
    BY <2>2, <2>3 DEF OfType
  <2>5. \E n \in Nat : OfType(t) \in [1 .. n -> S]
    BY <2>2, <2>4
  <2> HIDE DEF S
  <2> QED
    BY <2>5, SeqDef
<1> HIDE DEF S
<1>2. Visits \in Seq(S)
  BY <1>1, ConcatProperties DEF Visits
<1>3. \A v \in DOMAIN Visits : Visits[v] \in S
  BY <1>2, ElementOfSeq, LenProperties
<1>4. DOMAIN Visits = 1 .. Len(Visits) /\ Len(Visits) \in Nat
  BY <1>2, LenProperties
<1>5. \A v \in DOMAIN Visits : Visits[v].svc \in Services
  BY <1>3 DEF S
<1> QED
  BY <1>4, <1>5 DEF Numbers, ObjectIndices

LEMMA NotificationKnown ==
  ASSUME LotTypes
  PROVE  \A k \in DOMAIN appQ : appQ[k].idx \in ObjectIndices
<1> DEFINE Entries == [idx : ObjectIndices, obj : Nat]
<1>1. appQ \in Seq(Entries)
  BY DEF LotTypes
<1>2. \A e \in Entries : e.idx \in ObjectIndices
  OBVIOUS
<1> HIDE DEF Entries
<1>3. DOMAIN appQ = 1 .. Len(appQ)
  BY <1>1, LenProperties
<1>4. \A k \in 1 .. Len(appQ) : appQ[k] \in Entries
  BY <1>1, ElementOfSeq
<1> QED
  BY <1>2, <1>3, <1>4

LEMMA LotInvInit == LotInit => LotInv
<1> SUFFICES ASSUME LotInit PROVE LotInv
  OBVIOUS
<1> USE LotAssumption
<1>1. LotTypes
  BY DEF LotInit, LotTypes, Empty
<1>2. ObjectsApart /\ ToldOnce /\ Filling
  BY DEF LotInit, ObjectsApart, ToldOnce, Filling
<1>3. Ageing /\ SlotHeld
  BY DEF LotInit, Ageing, SlotHeld
<1> QED
  BY <1>1, <1>2, <1>3 DEF LotInv

(* What the steps that only change the objects of a list must keep. *)
LEMMA ObjectsOnly ==
  ASSUME LotInv, objects' \in [Numbers -> SUBSET Records],
         \A n \in Numbers : objects'[n] \subseteq objects[n],
         UNCHANGED <<visit, slot, sent, told>>
  PROVE  /\ ObjectsApart'
         /\ pc \in {"body", "end"} /\ pc' = pc => Filling'
<1>1. ObjectsApart'
  BY DEF LotInv, ObjectsApart
<1>2. ASSUME pc \in {"body", "end"}, pc' = pc PROVE Filling'
  <2>1. visit \in DOMAIN Visits /\ Current.svc.num \in Numbers
    BY <1>2, VisitKnown DEF LotInv, Filling, Current
  <2>2. Current' = Current /\ List' \subseteq List
    BY <2>1 DEF Current, List
  <2>3. Here' \subseteq Here
    BY <2>2 DEF Here
  <2> QED
    BY <1>2, <2>2, <2>3 DEF LotInv, Filling
<1> QED
  BY <1>1, <1>2

(* Steps outside the visits: no slot, no notification, no age changes. *)
LEMMA OutsideNext ==
  ASSUME LotInv, LotTypes', ObjectsApart',
         UNCHANGED <<slot, appQ, age, told>>,
         pc \in {"message", "status", "look"}, pc' \in {"message", "status", "look"},
         lot'.chk = lot.chk
  PROVE  LotInv'
<1>1. Filling'
  BY DEF Filling
<1>2. Ageing'
  BY DEF LotInv, Ageing
<1>3. SlotHeld' /\ ToldOnce'
  BY DEF LotInv, SlotHeld, ToldOnce, Newest, Shared
<1> QED
  BY <1>1, <1>2, <1>3 DEF LotInv

(* Steps of the application and the core during a visit. *)
LEMMA AroundNext ==
  ASSUME LotInv, LotTypes', ObjectsApart', Filling',
         UNCHANGED <<lot, pc, visit, slot, appQ, age, told>>
  PROVE  LotInv'
<1>1. Ageing'
  BY DEF LotInv, Ageing
<1>2. SlotHeld' /\ ToldOnce'
  BY DEF LotInv, SlotHeld, ToldOnce, Newest, Shared
<1> QED
  BY <1>1, <1>2 DEF LotInv

(* The application asks, the core learns the services. *)
LEMMA AskNext ==
  ASSUME LotInv, UNCHANGED <<lot, pc, visit, slot, appQ, objects, sent, told, age>>
  PROVE  LotInv'
<1>1. LotTypes' /\ ObjectsApart'
  BY DEF LotInv, LotTypes, ObjectsApart
<1>2. Filling'
  BY DEF LotInv, Filling, Current, Here, List
<1> QED
  BY <1>1, <1>2, AroundNext

LEMMA SendNext ==
  ASSUME LotInv, NEW s \in Services, NEW c \in ToSet(s.comps), Send(s, c)
  PROVE  LotInv'
<1> DEFINE new == [id |-> sent + 1, port |-> c.channel, complete |-> FALSE, given |-> FALSE]
<1> USE LotAssumption
<1>1. /\ UNCHANGED <<lot, pc, visit, slot, appQ, told, age>>
      /\ sent < OBJECTS /\ sent' = sent + 1
      /\ objects' = [objects EXCEPT ![s.num] = @ \cup {new}]
  BY DEF Send
<1>2. sent \in 0 .. OBJECTS /\ OBJECTS \in Nat /\ s.num \in Numbers
      /\ objects \in [Numbers -> SUBSET Records]
  BY DEF LotInv, LotTypes, Numbers
<1>3. new \in Records
  <2>1. c.channel \in Nat
    OBVIOUS
  <2> QED
    BY <1>2, <2>1 DEF Records
<1>4. new.id = sent + 1 /\ new.given = FALSE
  OBVIOUS
<1> HIDE DEF new
<1>5. LotTypes'
  <2>1. objects' \in [Numbers -> SUBSET Records] /\ sent' \in 0 .. OBJECTS
    <3>1. objects[s.num] \cup {new} \in SUBSET Records
      BY <1>2, <1>3
    <3> QED
      BY <1>1, <1>2, <3>1
  <2> QED
    BY <1>1, <2>1 DEF LotInv, LotTypes
<1>6. \A n \in Numbers : \A o \in objects'[n] : o \in objects[n] \/ (o = new /\ n = s.num)
  BY <1>1, <1>2, Zenon
<1>7. \A n \in Numbers : \A o \in objects[n] : o.id \in 1 .. sent /\ o.id # new.id
  BY <1>2, <1>4 DEF LotInv, ObjectsApart
<1>8. ObjectsApart'
  <2>1. ASSUME NEW n \in Numbers, NEW o \in objects'[n]
        PROVE  /\ o.id \in 1 .. sent'
               /\ ~o.given => told'[o.id] = 0
    BY <1>1, <1>2, <1>4, <1>6, <1>7 DEF LotInv, ObjectsApart
  <2>2. ASSUME NEW n \in Numbers, NEW o \in objects'[n], NEW m \in Numbers, NEW x \in objects'[m],
               x.id = o.id
        PROVE  m = n /\ x = o
    BY <1>6, <1>7, <2>2 DEF LotInv, ObjectsApart
  <2>3. \A i \in 1 .. OBJECTS : i > sent' => told'[i] = 0
    BY <1>1, <1>2 DEF LotInv, ObjectsApart
  <2> QED
    BY <2>1, <2>2, <2>3 DEF ObjectsApart
<1>9. Filling'
  <2>1. CASE pc \in {"body", "end"}
    <3>1. Current' = Current /\ Current.svc.num \in Numbers /\ slot[Current.idx].obj \in 1 .. sent
      BY <1>1, <2>1, VisitKnown DEF LotInv, Filling, Current
    <3>2. \A o \in Here' : o \in Here
      BY <1>1, <1>2, <1>4, <1>6, <3>1 DEF Here, List
    <3>3. slot'[Current'.idx].obj \in 1 .. sent'
      BY <1>1, <1>2, <3>1
    <3> QED
      BY <1>1, <3>1, <3>2, <3>3 DEF LotInv, Filling
  <2>2. CASE pc \notin {"body", "end"}
    BY <1>1, <2>2 DEF Filling
  <2> QED
    BY <2>1, <2>2
<1> QED
  BY <1>1, <1>5, <1>8, <1>9, AroundNext

LEMMA CompleteNext ==
  ASSUME LotInv, NEW n \in Numbers, Complete(n)
  PROVE  LotInv'
<1>1. PICK o \in objects[n] :
         objects' = [objects EXCEPT ![n] = (@ \ {o}) \cup {[o EXCEPT !.complete = TRUE]}]
  BY DEF Complete
<1>2. UNCHANGED <<lot, pc, visit, slot, appQ, sent, told, age>>
  BY DEF Complete
<1> DEFINE new == [o EXCEPT !.complete = TRUE]
<1>3. objects \in [Numbers -> SUBSET Records]
  BY DEF LotInv, LotTypes
<1>4. o \in Records
  BY <1>3
<1>5. new \in Records /\ new.id = o.id /\ new.given = o.given
  BY <1>4 DEF Records
<1> HIDE DEF new
<1>6. objects' = [objects EXCEPT ![n] = (@ \ {o}) \cup {new}]
  BY <1>1 DEF new
<1>7. \A m \in Numbers : \A x \in objects'[m] :
        \/ x \in objects[m] /\ <<m, x>> # <<n, o>>
        \/ m = n /\ x = new
  BY <1>3, <1>6
<1>8. LotTypes'
  <2>1. objects' \in [Numbers -> SUBSET Records]
    BY <1>3, <1>5, <1>6
  <2> QED
    BY <1>2, <2>1 DEF LotInv, LotTypes
<1>9. ObjectsApart'
  <2>1. ASSUME NEW m \in Numbers, NEW x \in objects'[m]
        PROVE  /\ x.id \in 1 .. sent'
               /\ ~x.given => told'[x.id] = 0
    BY <1>1, <1>2, <1>5, <1>7 DEF LotInv, ObjectsApart
  <2>2. ASSUME NEW m \in Numbers, NEW x \in objects'[m], NEW l \in Numbers, NEW y \in objects'[l],
               y.id = x.id
        PROVE  l = m /\ y = x
    BY <1>1, <1>5, <1>7, <2>2 DEF LotInv, ObjectsApart
  <2>3. \A i \in 1 .. OBJECTS : i > sent' => told'[i] = 0
    BY <1>2 DEF LotInv, ObjectsApart
  <2> QED
    BY <2>1, <2>2, <2>3 DEF ObjectsApart
<1>10. Filling'
  <2>1. CASE pc \in {"body", "end"}
    <3>1. Current' = Current /\ Current.svc.num \in Numbers
      BY <1>2, <2>1, VisitKnown DEF LotInv, Filling, Current
    <3>2. \A x \in Here' : x \in Here \/ (x = new /\ o \in Here)
      BY <1>1, <1>2, <1>5, <1>7, <3>1 DEF Here, List
    <3> QED
      BY <1>2, <1>5, <3>1, <3>2 DEF LotInv, Filling
  <2>2. CASE pc \notin {"body", "end"}
    BY <1>2, <2>2 DEF Filling
  <2> QED
    BY <2>1, <2>2
<1> QED
  BY <1>2, <1>8, <1>9, <1>10, AroundNext

LEMMA ExpireNext ==
  ASSUME LotInv, NEW n \in Numbers, Expire(n)
  PROVE  LotInv'
<1>1. UNCHANGED <<lot, pc, visit, slot, appQ, sent, told, age>>
  BY DEF Expire
<1>2. /\ objects' \in [Numbers -> SUBSET Records]
      /\ \A m \in Numbers : objects'[m] \subseteq objects[m]
  BY DEF Expire, LotInv, LotTypes
<1>3. LotTypes' /\ ObjectsApart'
  BY <1>1, <1>2, ObjectsOnly DEF LotInv, LotTypes
<1>4. Filling'
  BY <1>1, <1>2, ObjectsOnly DEF Filling
<1> QED
  BY <1>1, <1>3, <1>4, AroundNext

(* A closed port loses its objects, an opened one has none yet. *)
LEMMA ReassembleKeeps ==
  ASSUME LotInv, NEW mask, NEW en, Reassemble(mask, en)
  PROVE  /\ objects' \in [Numbers -> SUBSET Records]
         /\ \A m \in Numbers : objects'[m] \subseteq objects[m]
<1>1. objects \in [Numbers -> SUBSET Records]
  BY DEF LotInv, LotTypes
<1>2. \/ objects' = objects
      \/ objects' = [n \in Numbers |-> {o \in objects[n] : [svc |-> n, port |-> o.port] \notin PortsOf(mask)}]
  BY DEF Reassemble
<1> QED
  BY <1>1, <1>2


LEMMA RequestNext == LotInv /\ (TakeRequest \/ StatusLook) => LotInv'
<1> SUFFICES ASSUME LotInv, TakeRequest \/ StatusLook PROVE LotInv'
  OBVIOUS
<1>1. /\ UNCHANGED <<visit, slot, appQ, sent, told, age>>
      /\ pc \in {"message", "status"} /\ pc' \in {"status", "look"}
  BY DEF TakeRequest, StatusLook
<1>2. lot' = [mask |-> lot'.mask, notify |-> lot'.notify, chk |-> lot'.chk] /\ lot'.chk = lot.chk
  <2>1. lot = [mask |-> lot.mask, notify |-> lot.notify, chk |-> lot.chk]
    BY DEF LotInv, LotTypes
  <2>2. lot' = lot \/ lot' = [lot EXCEPT !.mask = Head(svcQ).mask, !.notify = Head(svcQ).en]
    BY DEF TakeRequest, StatusLook
  <2> QED
    BY <2>1, <2>2
<1>3. /\ objects' \in [Numbers -> SUBSET Records]
      /\ \A m \in Numbers : objects'[m] \subseteq objects[m]
  <2>1. CASE objects' = objects
    BY <2>1 DEF LotInv, LotTypes
  <2>2. CASE \E mask, en : Reassemble(mask, en)
    BY <2>2, ReassembleKeeps
  <2> QED
    BY <2>1, <2>2 DEF TakeRequest, StatusLook, Retry
<1>4. LotTypes'
  BY <1>1, <1>2, <1>3 DEF LotInv, LotTypes
<1>5. ObjectsApart'
  BY <1>1, <1>3, ObjectsOnly
<1> QED
  BY <1>1, <1>2, <1>4, <1>5, OutsideNext

LEMMA WaitNext == LotInv /\ (NoRequest \/ StatusWait \/ LotWait \/ LotDone) => LotInv'
<1> SUFFICES ASSUME LotInv, NoRequest \/ StatusWait \/ LotWait \/ LotDone PROVE LotInv'
  OBVIOUS
<1> USE LotAssumption
<1>0. /\ lot = [mask |-> lot.mask, notify |-> lot.notify, chk |-> lot.chk] /\ lot.chk \in 0 .. LOT
      /\ age \in [ObjectIndices -> 0 .. LOT]
  BY DEF LotInv, LotTypes
<1>1. CASE NoRequest \/ StatusWait
  <2>1. LotTypes' /\ ObjectsApart'
    BY <1>1 DEF LotInv, LotTypes, ObjectsApart, NoRequest, StatusWait, core
  <2> QED
    BY <1>1, <2>1, OutsideNext DEF NoRequest, StatusWait
<1>2. CASE LotWait \/ LotDone
  <2>1. /\ UNCHANGED <<slot, appQ, objects, sent, told>>
        /\ pc' = "message" /\ age' = Older
    BY <1>2 DEF LotWait, LotDone, core
  <2>2. /\ age' \in [ObjectIndices -> 0 .. LOT]
        /\ \A i \in ObjectIndices : age'[i] < LOT => age'[i] = age[i] + 1
    BY <1>0, <2>1 DEF Older
  <2>3. /\ lot' = [mask |-> lot'.mask, notify |-> lot'.notify, chk |-> lot'.chk]
        /\ lot'.chk \in 0 .. LOT
        /\ visit' \in Nat \ {0}
        /\ \A i \in ObjectIndices : age'[i] + lot'.chk >= LOT
    <3>1. CASE LotWait
      <4>1. lot' = [lot EXCEPT !.chk = IF lot.chk > 0 THEN lot.chk - 1 ELSE 0] /\ visit' = visit
        BY <3>1 DEF LotWait
      <4>2. lot'.chk = IF lot.chk > 0 THEN lot.chk - 1 ELSE 0
        BY <1>0, <4>1
      <4>3. \A i \in ObjectIndices : age[i] + lot.chk >= LOT
        BY <3>1 DEF LotWait, LotInv, Ageing
      <4>4. ASSUME NEW i \in ObjectIndices PROVE age'[i] + lot'.chk >= LOT
        <5>1. /\ age[i] \in 0 .. LOT /\ age'[i] \in 0 .. LOT /\ LOT \in Nat
              /\ age[i] + lot.chk >= LOT
              /\ age'[i] < LOT => age'[i] = age[i] + 1
          BY <1>0, <2>2, <4>3
        <5>2. lot'.chk \in Nat /\ lot'.chk >= lot.chk - 1
          BY <1>0, <4>2
        <5>3. lot.chk \in Nat
          BY <1>0
        <5>4. CASE age'[i] = LOT
          BY <5>1, <5>2, <5>4
        <5>5. CASE age'[i] = age[i] + 1
          <6>1. \A a, x, y, l \in Int : a + x >= l /\ y >= x - 1 => (a + 1) + y >= l
            OBVIOUS
          <6>2. /\ age[i] \in Int /\ lot.chk \in Int /\ lot'.chk \in Int /\ LOT \in Int
                /\ age[i] + lot.chk >= LOT /\ lot'.chk >= lot.chk - 1
            BY <5>1, <5>2, <5>3
          <6>3. (age[i] + 1) + lot'.chk >= LOT
            BY <6>1, <6>2
          <6> QED
            BY <5>5, <6>3
        <5> QED
          BY <5>1, <5>4, <5>5
      <4>5. lot' = [mask |-> lot'.mask, notify |-> lot'.notify, chk |-> lot'.chk]
        BY <1>0, <4>1
      <4> QED
        BY <1>0, <4>1, <4>2, <4>4, <4>5 DEF LotInv, LotTypes
    <3>2. CASE LotDone
      <4>1. lot' = [lot EXCEPT !.chk = LOT - 1] /\ visit' = 1
        BY <3>2 DEF LotDone, Waited
      <4>2. lot'.chk = LOT - 1 /\ LOT \in Nat \ {0}
        BY <1>0, <4>1
      <4>3. lot' = [mask |-> lot'.mask, notify |-> lot'.notify, chk |-> lot'.chk]
        BY <1>0, <4>1
      <4>4. ASSUME NEW i \in ObjectIndices PROVE age'[i] + lot'.chk >= LOT
        <5>1. age[i] \in 0 .. LOT /\ age'[i] \in 0 .. LOT /\ (age'[i] < LOT => age'[i] = age[i] + 1)
          BY <1>0, <2>2
        <5>2. age'[i] >= 1
          BY <4>2, <5>1
        <5> QED
          BY <4>2, <5>1, <5>2
      <4> QED
        BY <4>1, <4>2, <4>3, <4>4
    <3> QED
      BY <1>2, <3>1, <3>2
  <2>4. LotTypes' /\ ObjectsApart' /\ ToldOnce'
    BY <2>1, <2>2, <2>3 DEF LotInv, LotTypes, ObjectsApart, ToldOnce
  <2>5. Filling' /\ Ageing'
    BY <2>1, <2>3 DEF Filling, Ageing
  <2>6. SlotHeld'
    <3>1. \A k \in DOMAIN appQ : appQ[k].idx \in ObjectIndices
      BY NotificationKnown DEF LotInv
    <3>2. \A i \in ObjectIndices : age'[i] < LOT => age[i] < LOT
      BY <1>0, <2>2
    <3> QED
      BY <2>1, <3>1, <3>2 DEF LotInv, SlotHeld, Newest, Shared
  <2> QED
    BY <2>4, <2>5, <2>6 DEF LotInv
<1> QED
  BY <1>1, <1>2

(* The look begins only when every slot is LOT passes old. *)
LEMMA LookNext == LotInv /\ (LotLook \/ VisitNothing \/ NoBody) => LotInv'
<1> SUFFICES ASSUME LotInv, LotLook \/ VisitNothing \/ NoBody PROVE LotInv'
  OBVIOUS
<1> USE LotAssumption
<1>1. /\ UNCHANGED <<lot, slot, appQ, objects, sent, told, age>> /\ pc' = "visit"
  BY DEF LotLook, VisitNothing, NoBody, core
<1>2. visit' \in Nat \ {0}
  BY VisitKnown DEF LotLook, VisitNothing, NoBody, LotInv, LotTypes
<1>3. Ageing'
  <2>1. CASE LotLook
    <3>1. \A i \in ObjectIndices : age[i] + lot.chk >= LOT
      BY <2>1 DEF LotLook, LotInv, Ageing
    <3>2. lot.chk = 0 /\ age \in [ObjectIndices -> 0 .. LOT]
      BY <2>1 DEF LotLook, LotDue, LotInv, LotTypes
    <3>3. \A i \in ObjectIndices : age[i] = LOT
      BY <3>1, <3>2
    <3> QED
      BY <1>1, <3>3 DEF Ageing
  <2>2. CASE VisitNothing \/ NoBody
    <3>1. visit' = visit + 1 /\ pc \notin {"message", "status", "look"} /\ visit \in Nat
      BY <2>2 DEF VisitNothing, NoBody, LotInv, LotTypes
    <3>2. \A v \in DOMAIN Visits : v < visit => v < visit'
      BY <3>1, VisitKnown
    <3> QED
      BY <1>1, <3>1, <3>2 DEF LotInv, Ageing
  <2> QED
    BY <2>1, <2>2
<1>4. LotTypes' /\ ObjectsApart' /\ ToldOnce' /\ Filling'
  BY <1>1, <1>2 DEF LotInv, LotTypes, ObjectsApart, ToldOnce, Filling
<1>5. SlotHeld'
  BY <1>1 DEF LotInv, SlotHeld, Newest, Shared
<1> QED
  BY <1>3, <1>4, <1>5 DEF LotInv

(* The slot of a service that is visited is old, or shared. *)
LEMMA SlotOfVisit ==
  ASSUME LotInv, pc \notin {"message", "status", "look"}, visit \in DOMAIN Visits
  PROVE  /\ Current.idx \in ObjectIndices /\ Current.svc.num \in Numbers
         /\ age[Current.idx] = LOT \/ Shared(Current.idx)
<1>1. Current.idx \in ObjectIndices /\ Current.svc.num \in Numbers
  BY VisitKnown DEF Current
<1>2. ASSUME age[Current.idx] # LOT PROVE Shared(Current.idx)
  <2>1. PICK v \in DOMAIN Visits : v < visit /\ Visits[v].idx = Current.idx
    BY <1>1, <1>2 DEF LotInv, Ageing
  <2>2. v # visit
    BY <2>1, VisitKnown DEF LotInv, LotTypes
  <2> QED
    BY <2>1, <2>2 DEF Shared, Current
<1> QED
  BY <1>1, <1>2

LEMMA FillNext == LotInv /\ (VisitObject \/ CopyBody) => LotInv'
<1> SUFFICES ASSUME LotInv, VisitObject \/ CopyBody PROVE LotInv'
  OBVIOUS
<1> USE LotAssumption
<1> DEFINE c == Current.idx
<1>1. /\ UNCHANGED <<lot, visit, appQ, objects, sent, told, age>>
      /\ pc \in {"visit", "body"} /\ pc' \in {"body", "end"}
      /\ visit \in DOMAIN Visits
  BY VisitKnown DEF VisitObject, CopyBody, core, LotInv, LotTypes, Filling
<1>2. /\ c \in ObjectIndices /\ Current.svc.num \in Numbers
      /\ age[c] = LOT \/ Shared(c)
  BY <1>1, SlotOfVisit
<1>3. Current' = Current /\ List' = List
  BY <1>1 DEF Current, List
<1>4. /\ slot' = [slot EXCEPT ![c] = slot'[c]]
      /\ slot'[c] \in [obj : Nat, whole : BOOLEAN]
      /\ slot'[c].obj \in 1 .. sent
      /\ CopyBody => slot'[c].whole /\ slot'[c].obj = slot[c].obj /\ \A o \in Here : ~o.given
  <2>1. slot \in [ObjectIndices -> [obj : Nat, whole : BOOLEAN]]
    BY DEF LotInv, LotTypes
  <2>2. CASE VisitObject
    <3>1. PICK o \in Completed(List) : slot' = [slot EXCEPT ![c] = [obj |-> o.id, whole |-> FALSE]]
      BY <2>2 DEF VisitObject
    <3>2. o \in List /\ o.id \in 1 .. sent
      BY <1>2, <3>1 DEF Completed, List, LotInv, ObjectsApart
    <3>3. ~CopyBody
      BY <2>2 DEF VisitObject, CopyBody
    <3> DEFINE filled == [obj |-> o.id, whole |-> FALSE]
    <3>4. filled \in [obj : Nat, whole : BOOLEAN] /\ filled.obj = o.id
      BY <3>2
    <3> HIDE DEF filled
    <3>5. slot' = [slot EXCEPT ![c] = filled]
      BY <3>1 DEF filled
    <3>6. slot'[c] = filled
      BY <1>2, <2>1, <3>5
    <3> QED
      BY <3>2, <3>3, <3>4, <3>5, <3>6
  <2>3. CASE CopyBody
    <3>1. PICK o \in Here : ~o.given
      BY <2>3 DEF CopyBody, ToldNow, Given
    <3>2. \A x \in Here : x = o
      BY <1>2, <3>1 DEF Here, List, LotInv, ObjectsApart
    <3>3. slot' = [slot EXCEPT ![c].whole = \A x \in Here : ~Given(x)] /\ pc = "body"
      BY <2>3 DEF CopyBody
    <3>4. (\A x \in Here : ~Given(x)) = TRUE
      BY <3>1, <3>2 DEF Given
    <3>5. slot' = [slot EXCEPT ![c].whole = TRUE]
      BY <3>3, <3>4
    <3>6. slot'[c] = [obj |-> slot[c].obj, whole |-> TRUE] /\ slot[c].obj \in 1 .. sent
      BY <1>2, <2>1, <3>3, <3>5 DEF LotInv, Filling
    <3>7. slot' = [slot EXCEPT ![c] = slot'[c]]
      BY <1>2, <2>1, <3>5, <3>6
    <3> QED
      BY <3>1, <3>2, <3>6, <3>7
  <2> QED
    BY <2>2, <2>3
<1>5. \A i \in ObjectIndices : i # c => slot'[i] = slot[i]
  BY <1>2, <1>4 DEF LotInv, LotTypes
<1>6. LotTypes' /\ ObjectsApart' /\ ToldOnce'
  <2>1. slot' \in [ObjectIndices -> [obj : Nat, whole : BOOLEAN]]
    BY <1>2, <1>4 DEF LotInv, LotTypes
  <2> QED
    BY <1>1, <2>1 DEF LotInv, LotTypes, ObjectsApart, ToldOnce
<1>7. Filling'
  <2>1. pc' = "end" => CopyBody
    BY DEF VisitObject, CopyBody
  <2>2. CopyBody => Here' = Here
    BY <1>3, <1>4 DEF Here
  <2> QED
    BY <1>1, <1>3, <1>4, <2>1, <2>2 DEF Filling
<1>8. Ageing'
  BY <1>1 DEF LotInv, Ageing
<1>9. SlotHeld'
  <2>1. \A k \in DOMAIN appQ : appQ[k].idx \in ObjectIndices
    BY NotificationKnown DEF LotInv
  <2>2. ASSUME NEW k \in DOMAIN appQ, age[appQ[k].idx] < LOT, ~Shared(appQ[k].idx)
        PROVE  appQ[k].idx # c
    BY <1>2, <2>2
  <2> QED
    BY <1>1, <1>5, <2>1, <2>2 DEF LotInv, SlotHeld, Newest, Shared
<1> QED
  BY <1>6, <1>7, <1>8, <1>9 DEF LotInv

LEMMA EndBodyNext == LotInv /\ EndBody => LotInv'
<1> SUFFICES ASSUME LotInv, EndBody PROVE LotInv'
  OBVIOUS
<1> USE LotAssumption
<1> DEFINE c == Current.idx
           n == Current.svc.num
           id == slot[c].obj
<1>1. /\ UNCHANGED <<lot, slot, sent>> /\ visit' = visit + 1
      /\ pc = "end" /\ pc' = "visit" /\ visit \in DOMAIN Visits
  BY DEF EndBody, LotInv, Filling
<1>2. /\ c \in ObjectIndices /\ n \in Numbers /\ id \in 1 .. sent /\ slot[c].whole
      /\ \A o \in Here : ~o.given
  BY <1>1, SlotOfVisit DEF LotInv, Filling
<1>3. visit \in Nat \ {0} /\ visit' \in Nat \ {0} /\ DOMAIN Visits \subseteq Nat
  BY <1>1, VisitKnown DEF LotInv, LotTypes
<1>4. /\ objects \in [Numbers -> SUBSET Records] /\ sent \in 0 .. OBJECTS
      /\ told \in [1 .. OBJECTS -> Nat] /\ age \in [ObjectIndices -> 0 .. LOT]
      /\ appQ \in Seq([idx : ObjectIndices, obj : Nat])
      /\ slot \in [ObjectIndices -> [obj : Nat, whole : BOOLEAN]]
  BY DEF LotInv, LotTypes
<1>5. id \in 1 .. OBJECTS
  BY <1>2, <1>4
<1>6. Filling'
  BY <1>1 DEF Filling
<1>7. CASE Here = {}
  <2>1. UNCHANGED <<appQ, told, age, objects>>
    BY <1>7 DEF EndBody
  <2>2. \A v \in DOMAIN Visits : v < visit => v < visit'
    BY <1>1, <1>3
  <2>3. Ageing'
    BY <1>1, <2>1, <2>2 DEF LotInv, Ageing
  <2>4. LotTypes' /\ ObjectsApart'
    BY <1>1, <1>3, <2>1 DEF LotInv, LotTypes, ObjectsApart
  <2>5. ToldOnce' /\ SlotHeld'
    BY <1>1, <2>1 DEF LotInv, ToldOnce, SlotHeld, Newest, Shared
  <2> QED
    BY <1>6, <2>3, <2>4, <2>5 DEF LotInv
<1>8. CASE Here # {}
  <2> DEFINE news == [idx |-> c, obj |-> id]
  <2>1. /\ appQ' = Append(appQ, news)
        /\ told' = [told EXCEPT ![id] = @ + 1]
        /\ age' = [age EXCEPT ![c] = 0]
        /\ \/ objects' = [objects EXCEPT ![n] = (@ \ Here) \cup {[o EXCEPT !.given = TRUE] : o \in Here}]
           \/ objects' = [objects EXCEPT ![n] = @ \ Here]
    BY <1>8 DEF EndBody
  <2>2. PICK o \in objects[n] : o.id = id /\ ~o.given
    BY <1>2, <1>8 DEF Here, List
  <2>3. Here = {o}
    BY <1>2, <2>2 DEF Here, List, LotInv, ObjectsApart
  <2> DEFINE new == [o EXCEPT !.given = TRUE]
  <2>4. o \in Records
    BY <1>2, <1>4, <2>2
  <2>5. new \in Records /\ new.id = id /\ new.given = TRUE
    BY <2>2, <2>4 DEF Records
  <2>6. {[x EXCEPT !.given = TRUE] : x \in Here} = {new}
    BY <2>3
  <2> HIDE DEF new
  <2>7. \/ objects' = [objects EXCEPT ![n] = (@ \ {o}) \cup {new}]
        \/ objects' = [objects EXCEPT ![n] = @ \ {o}]
    BY <2>1, <2>3, <2>6
  <2>8. /\ objects' \in [Numbers -> SUBSET Records]
        /\ \A m \in Numbers : \A x \in objects'[m] :
             (x \in objects[m] /\ <<m, x>> # <<n, o>>) \/ (m = n /\ x = new)
    <3>1. objects[n] \ {o} \in SUBSET Records /\ (objects[n] \ {o}) \cup {new} \in SUBSET Records
      BY <1>2, <1>4, <2>5
    <3>2. CASE objects' = [objects EXCEPT ![n] = (@ \ {o}) \cup {new}]
      BY <1>2, <1>4, <3>1, <3>2
    <3>3. CASE objects' = [objects EXCEPT ![n] = @ \ {o}]
      BY <1>2, <1>4, <3>1, <3>3
    <3> QED
      BY <2>7, <3>2, <3>3
  <2>9. told' \in [1 .. OBJECTS -> Nat] /\ told[id] = 0
    <3>1. told[id] = 0
      BY <1>2, <2>2 DEF LotInv, ObjectsApart
    <3> QED
      BY <1>4, <1>5, <2>1, <3>1
  <2>10. told'[id] = 1 /\ \A i \in 1 .. OBJECTS : i # id => told'[i] = told[i]
    BY <1>4, <1>5, <2>1, <2>9
  <2>11. ToldOnce'
    <3>1. \A i \in 1 .. OBJECTS : told'[i] = 1 \/ told'[i] = told[i]
      BY <2>10
    <3>2. \A i \in 1 .. OBJECTS : told[i] <= 1
      BY <1>4 DEF LotInv, ToldOnce
    <3>3. DOMAIN told' = 1 .. OBJECTS
      BY <2>9
    <3> QED
      BY <3>1, <3>2, <3>3 DEF ToldOnce
  <2>12. ObjectsApart'
    <3>1. \A m \in Numbers : \A x \in objects[m] : x.id \in 1 .. sent /\ (x.id = id => m = n /\ x = o)
      BY <1>2, <2>2 DEF LotInv, ObjectsApart
    <3>2. \A m \in Numbers : \A x \in objects'[m] :
             (x \in objects[m] /\ x.id # id) \/ (m = n /\ x = new)
      BY <2>8, <3>1
    <3>3. ASSUME NEW m \in Numbers, NEW x \in objects'[m]
          PROVE  x.id \in 1 .. sent' /\ (~x.given => told'[x.id] = 0)
      <4>1. CASE m = n /\ x = new
        BY <1>1, <1>2, <2>5, <4>1
      <4>2. CASE x \in objects[m] /\ x.id # id
        <5>1. x.id \in 1 .. OBJECTS
          BY <1>4, <3>1, <4>2
        <5> QED
          BY <1>1, <2>10, <3>1, <4>2, <5>1 DEF LotInv, ObjectsApart
      <4> QED
        BY <3>2, <4>1, <4>2
    <3>4. ASSUME NEW m \in Numbers, NEW x \in objects'[m], NEW l \in Numbers, NEW y \in objects'[l],
                 y.id = x.id
          PROVE  l = m /\ y = x
      BY <2>5, <3>2, <3>4 DEF LotInv, ObjectsApart
    <3>5. \A i \in 1 .. OBJECTS : i > sent' => told'[i] = 0
      BY <1>1, <1>2, <1>4, <2>10 DEF LotInv, ObjectsApart
    <3> QED
      BY <3>3, <3>4, <3>5 DEF ObjectsApart
  <2>13. news \in [idx : ObjectIndices, obj : Nat] /\ news.idx = c /\ news.obj = id
    BY <1>2, <1>4
  <2> HIDE DEF news
  <2>14. /\ appQ' \in Seq([idx : ObjectIndices, obj : Nat]) /\ Len(appQ') = Len(appQ) + 1
         /\ appQ'[Len(appQ) + 1] = news
         /\ \A k \in 1 .. Len(appQ) : appQ'[k] = appQ[k]
    BY <1>4, <2>1, <2>13, AppendProperties
  <2>15. DOMAIN appQ = 1 .. Len(appQ) /\ DOMAIN appQ' = 1 .. Len(appQ) + 1 /\ Len(appQ) \in Nat
    BY <1>4, <2>14, LenProperties
  <2>16. age' \in [ObjectIndices -> 0 .. LOT] /\ age'[c] = 0
         /\ \A i \in ObjectIndices : i # c => age'[i] = age[i]
    <3>1. 0 \in 0 .. LOT
      OBVIOUS
    <3> QED
      BY <1>2, <1>4, <2>1, <3>1
  <2>17. LotTypes'
    BY <1>1, <1>3, <2>8, <2>9, <2>14, <2>16 DEF LotInv, LotTypes
  <2>18. Ageing'
    <3>1. visit < visit' /\ \A v \in DOMAIN Visits : v < visit => v < visit'
      BY <1>1, <1>3
    <3>2. Visits[visit].idx = c
      BY DEF Current
    <3> QED
      BY <1>1, <2>16, <3>1, <3>2 DEF LotInv, Ageing
  <2>19. SlotHeld'
    <3> SUFFICES ASSUME NEW k \in DOMAIN appQ', age'[appQ'[k].idx] < LOT, Newest(k)', ~Shared(appQ'[k].idx)
                 PROVE  slot[appQ'[k].idx] = [obj |-> appQ'[k].obj, whole |-> TRUE]
      BY <1>1 DEF SlotHeld, Shared
    <3>1. CASE k = Len(appQ) + 1
      <4>1. appQ'[k].idx = c /\ appQ'[k].obj = id
        BY <2>13, <2>14, <3>1
      <4>2. slot[c] = [obj |-> slot[c].obj, whole |-> slot[c].whole] /\ slot[c].whole = TRUE
        BY <1>2, <1>4
      <4> QED
        BY <4>1, <4>2
    <3>2. CASE k # Len(appQ) + 1
      <4>1. k \in 1 .. Len(appQ) /\ Len(appQ) + 1 \in k + 1 .. Len(appQ')
        <5>1. k \in Nat /\ 1 <= k /\ k <= Len(appQ) + 1 /\ k # Len(appQ) + 1
          BY <2>15, <3>2
        <5> QED
          <6>1. Len(appQ) \in Nat /\ Len(appQ') = Len(appQ) + 1
            BY <2>14, <2>15
          <6> QED
            BY <5>1, <6>1
      <4>2. appQ'[k] = appQ[k] /\ appQ[k].idx # c
        BY <2>13, <2>14, <4>1 DEF Newest
      <4>3. appQ[k] \in [idx : ObjectIndices, obj : Nat]
        BY <1>4, <4>1, ElementOfSeq
      <4>4. age[appQ[k].idx] < LOT
        BY <2>16, <4>2, <4>3
      <4>5. Newest(k)
        <5>1. \A j \in k + 1 .. Len(appQ) : j \in 1 .. Len(appQ) /\ j \in k + 1 .. Len(appQ')
          BY <2>14, <2>15, <4>1
        <5> QED
          BY <2>14, <4>2, <5>1 DEF Newest
      <4> QED
        BY <2>15, <4>1, <4>2, <4>4, <4>5 DEF LotInv, SlotHeld
    <3> QED
      BY <3>1, <3>2
  <2> QED
    BY <1>6, <2>11, <2>12, <2>17, <2>18, <2>19 DEF LotInv
<1> QED
  BY <1>7, <1>8

LEMMA FollowNext == LotInv /\ Follow => LotInv'
<1> SUFFICES ASSUME LotInv, Follow PROVE LotInv'
  OBVIOUS
<1> DEFINE Entries == [idx : ObjectIndices, obj : Nat]
<1>1. /\ UNCHANGED <<lot, pc, visit, slot, objects, sent, told, age>>
      /\ appQ # <<>> /\ appQ' = Tail(appQ)
  BY DEF Follow, core
<1>2. appQ \in Seq(Entries)
  BY DEF LotInv, LotTypes
<1> HIDE DEF Entries
<1>3. /\ appQ' \in Seq(Entries) /\ Len(appQ') = Len(appQ) - 1
      /\ \A k \in 1 .. Len(appQ) - 1 : appQ'[k] = appQ[k + 1]
  BY <1>1, <1>2, HeadTailProperties
<1>4. DOMAIN appQ = 1 .. Len(appQ) /\ DOMAIN appQ' = 1 .. Len(appQ) - 1 /\ Len(appQ) \in Nat
  BY <1>2, <1>3, LenProperties
<1>5. LotTypes'
  BY <1>1, <1>3 DEF LotInv, LotTypes, Entries
<1>6. ObjectsApart' /\ ToldOnce' /\ Filling' /\ Ageing'
  BY <1>1 DEF LotInv, ObjectsApart, ToldOnce, Filling, Ageing, Current, Here, List
<1>7. SlotHeld'
  <2> SUFFICES ASSUME NEW k \in DOMAIN appQ', age[appQ'[k].idx] < LOT, Newest(k)', ~Shared(appQ'[k].idx)
               PROVE  slot[appQ'[k].idx] = [obj |-> appQ'[k].obj, whole |-> TRUE]
    BY <1>1 DEF SlotHeld, Shared
  <2>1. k \in Nat /\ 1 <= k /\ k <= Len(appQ) - 1
    BY <1>4
  <2>2. k + 1 \in DOMAIN appQ /\ appQ'[k] = appQ[k + 1]
    BY <1>3, <1>4, <2>1
  <2>3. Newest(k + 1)
    <3>1. ASSUME NEW j \in (k + 1) + 1 .. Len(appQ) PROVE appQ[j].idx # appQ[k + 1].idx
      <4>1. j - 1 \in k + 1 .. Len(appQ') /\ j - 1 \in 1 .. Len(appQ) - 1 /\ (j - 1) + 1 = j
        BY <1>3, <1>4, <2>1
      <4>2. appQ'[j - 1] = appQ[j]
        BY <1>3, <4>1
      <4> QED
        BY <2>2, <4>1, <4>2 DEF Newest
    <3> QED
      BY <3>1 DEF Newest
  <2> QED
    BY <2>2, <2>3 DEF LotInv, SlotHeld
<1> QED
  BY <1>5, <1>6, <1>7 DEF LotInv

LEMMA LotInvNext == LotInv /\ [LotNext]_lotVars => LotInv'
<1> SUFFICES ASSUME LotInv, [LotNext]_lotVars PROVE LotInv'
  OBVIOUS
<1>1. CASE \/ \E mask \in Masks, en \in BOOLEAN : EnableLotNotification(mask, en)
           \/ ReceiveServices
  BY <1>1, AskNext DEF EnableLotNotification, ReceiveServices, core
<1>2. CASE UNCHANGED lotVars
  BY <1>2, AskNext DEF lotVars, core
<1> QED
  BY <1>1, <1>2, SendNext, CompleteNext, ExpireNext, RequestNext, WaitNext, LookNext, FillNext,
     EndBodyNext, FollowNext DEF LotNext, Pass

(* The pointer the application was given leads to the whole object of the  *)
(* notification for LOT passes of the service thread.                      *)
THEOREM SlotsHeld == LotSpec => []SlotHeld
<1>1. LotInv => SlotHeld
  BY DEF LotInv
<1> QED
  BY LotInvInit, LotInvNext, <1>1, PTL DEF LotSpec

(* No object is notified twice. *)
THEOREM ObjectsToldOnce == LotSpec => []ToldOnce
<1>1. LotInv => ToldOnce
  BY DEF LotInv
<1> QED
  BY LotInvInit, LotInvNext, <1>1, PTL DEF LotSpec

-----------------------------------------------------------------------------
(* The frames are played in their order.                                   *)

(* The k-th element there is to read, from 0. *)
Item(b, k) == b.data[Cell(b.rp, k)]
Held(b)    == 0 .. b.elemCount - 1

(* How far from the write index the k-th cell from the read index is. *)
LEMMA FromWriteIndex ==
  ASSUME NEW wp \in Indices, NEW rp \in Indices, NEW n \in 0 .. SIZE, NEW k \in Cells,
         wp - rp - n = 0 \/ wp - rp - n = -SIZE
  PROVE  Cell(rp, k) \in Cells /\ Distance(wp, Cell(rp, k)) = IF k >= n THEN k - n ELSE SIZE - n + k
<1>1. SIZE \in Nat \ {0}
  BY CircBuffAssumption
<1>2. CASE wp - rp - n = 0
  BY <1>1, <1>2 DEF Cell, Distance, Indices, Cells
<1>3. CASE wp - rp - n = -SIZE
  BY <1>1, <1>3 DEF Cell, Distance, Indices, Cells
<1> QED
  BY <1>2, <1>3

LEMMA PutItems ==
  ASSUME NEW b, Good(b), NEW n \in 0 .. SIZE, NEW vals \in [1 .. n -> Elements],
         b.elemCount + n <= SIZE, NEW k \in 0 .. b.elemCount + n - 1
  PROVE  Item(Put(b, vals), k) = IF k < b.elemCount THEN Item(b, k) ELSE vals[k - b.elemCount + 1]
<1>1. /\ b.wp \in Indices /\ b.rp \in Indices /\ b.elemCount \in 0 .. SIZE
      /\ b.wp - b.rp - b.elemCount = 0 \/ b.wp - b.rp - b.elemCount = -SIZE
  BY FieldsOf DEF Good, Consistent
<1>2. /\ Put(b, vals).rp = b.rp /\ Put(b, vals).data = Copied(b.data, b.wp, vals)
  BY PutStep, FieldsOfBuff
<1>3. Len(vals) = n
  OBVIOUS
<1>4. k \in Cells
  BY <1>1, CircBuffAssumption DEF Cells
<1> DEFINE c == Cell(b.rp, k)
<1>5. c \in Cells /\ Distance(b.wp, c) = IF k >= b.elemCount THEN k - b.elemCount ELSE SIZE - b.elemCount + k
  BY <1>1, <1>4, FromWriteIndex
<1>6. Item(Put(b, vals), k) = IF Distance(b.wp, c) < n THEN vals[Distance(b.wp, c) + 1] ELSE b.data[c]
  BY <1>2, <1>3, <1>5 DEF Item, Copied
<1>7. CASE k < b.elemCount
  <2>1. ~(Distance(b.wp, c) < n)
    BY <1>1, <1>5, <1>7, CircBuffAssumption
  <2> QED
    BY <1>6, <1>7, <2>1 DEF Item
<1>8. CASE ~(k < b.elemCount)
  <2>1. Distance(b.wp, c) = k - b.elemCount /\ k - b.elemCount < n
    BY <1>1, <1>5, <1>8
  <2> QED
    BY <1>6, <1>8, <2>1
<1> QED
  BY <1>7, <1>8

LEMMA TakenItems ==
  ASSUME NEW b, Good(b), NEW n \in 0 .. SIZE, n <= b.elemCount, NEW k \in 0 .. b.elemCount - n - 1
  PROVE  Item(Taken(b, n), k) = Item(b, k + n)
<1>1. b.rp \in Indices /\ b.elemCount \in 0 .. SIZE
  BY FieldsOf DEF Good
<1>2. Taken(b, n).rp = Moved(b.rp, n) /\ Taken(b, n).data = b.data
  BY TakenStep, FieldsOfBuff
<1>3. k \in Cells /\ k + n < SIZE
  BY <1>1, CircBuffAssumption DEF Cells
<1>4. Cell(Moved(b.rp, n), k) = Cell(b.rp, k + n)
  BY <1>1, <1>3, CellAfterMove
<1> QED
  BY <1>2, <1>4 DEF Item

LEMMA ItemType ==
  ASSUME NEW b, Good(b), NEW k \in Held(b)
  PROVE  Item(b, k) \in Elements /\ k \in Cells
<1>1. b.rp \in Indices /\ b.elemCount \in 0 .. SIZE /\ b.data \in [Cells -> Elements]
  BY FieldsOf DEF Good
<1>2. k \in Cells
  BY <1>1, CircBuffAssumption DEF Cells, Held
<1>3. Cell(b.rp, k) \in Cells
  BY <1>1, <1>2, CellInside
<1> QED
  BY <1>1, <1>2, <1>3 DEF Item

(* What is held is newer than what was played and not newer than what was  *)
(* handed over; and so among what is held, a frame apart.                  *)
Latest == IF blend \in {"refill", "check", "put"} THEN frame - 1 ELSE frame

Between(b, least, most) ==
  \A k \in Held(b) : Item(b, k) <= most /\ (Item(b, k) # 0 => Item(b, k) > least)

Ascending(b) ==
  \A j, k \in Held(b) : j + FRAME <= k /\ Item(b, j) # 0 /\ Item(b, k) # 0 => Item(b, j) < Item(b, k)

Played(o, n) == o[1] # 0 => n = o[1]

OrderInv == /\ OutputInv
            /\ out \in [1 .. FRAME -> Elements] /\ last \in Nat /\ last <= Latest
            /\ Played(out, last)
            /\ Between(cb, last, Latest) /\ Ascending(cb)

LEMMA FrameBounds == FRAME \in Nat \ {0} /\ FRAME \in 0 .. SIZE /\ Zero = 0 /\ Elements \subseteq Nat
  BY AudioAssumption, CircBuffAssumption

LEMMA RefilledItems ==
  ASSUME Good(cb), NEW k \in Held(Refilled(cb))
  PROVE  Item(Refilled(cb), k) = 0
<1> DEFINE b == Emptied(cb)
<1>1. Good(b) /\ b.elemCount = 0
  BY EmptiedGood
<1>2. FILL \in 0 .. SIZE
  BY AudioAssumption, CircBuffAssumption
<1>3. Filled(Zero, FILL) \in [1 .. FILL -> Elements]
  BY <1>2, FilledType
<1>4. k \in 0 .. b.elemCount + FILL - 1 /\ b.elemCount + FILL <= SIZE /\ ~(k < b.elemCount)
  BY <1>1, <1>2, RefilledStep DEF Held
<1> HIDE DEF b
<1>5. Item(Put(b, Filled(Zero, FILL)), k) = Filled(Zero, FILL)[k - b.elemCount + 1]
  BY <1>1, <1>2, <1>3, <1>4, PutItems
<1>6. k - b.elemCount + 1 \in 1 .. FILL
  BY <1>1, <1>2, <1>4
<1> QED
  BY <1>5, <1>6, FrameBounds DEF Filled, Refilled, b

LEMMA RefilledOrder ==
  ASSUME Good(cb), NEW least \in Nat, NEW most \in Nat
  PROVE  Between(Refilled(cb), least, most) /\ Ascending(Refilled(cb))
<1>1. \A k \in Held(Refilled(cb)) : Item(Refilled(cb), k) = 0
  BY RefilledItems
<1> HIDE DEF Refilled
<1> QED
  BY <1>1 DEF Between, Ascending

LEMMA OrderInvInit == Init => OrderInv
<1> SUFFICES ASSUME Init PROVE OrderInv
  OBVIOUS
<1>1. OutputInv /\ frame = 0 /\ last = 0 /\ blend = "idle" /\ out = Frame(0)
  BY OutputInvInit DEF Init
<1>2. out \in [1 .. FRAME -> Elements] /\ out[1] = 0
  BY <1>1, FrameBounds, AudioAssumption DEF Frame, Filled
<1>3. cb.elemCount = 0
  BY FieldsOfBuff DEF Init, Fresh
<1>4. Held(cb) = {}
  BY <1>3 DEF Held
<1>5. Between(cb, last, Latest) /\ Ascending(cb)
  BY <1>4 DEF Between, Ascending
<1> QED
  BY <1>1, <1>2, <1>5 DEF OrderInv, Played, Latest

LEMMA OrderInvNext == OrderInv /\ [Next]_vars => OrderInv'
<1> SUFFICES ASSUME OrderInv, [Next]_vars PROVE OrderInv'
  OBVIOUS
<1>0. /\ OutputInv /\ OutputInv' /\ Good(cb) /\ frame \in 0 .. LAST
      /\ out \in [1 .. FRAME -> Elements] /\ last \in Nat /\ last <= Latest
      /\ Played(out, last) /\ Between(cb, last, Latest) /\ Ascending(cb)
  BY OutputInvNext DEF OrderInv, OutputInv
<1>t. Latest \in Nat /\ cb.elemCount \in 0 .. SIZE
  <2>1. Latest \in Int
    BY <1>0, AudioAssumption DEF Latest
  <2> QED
    BY <1>0, <2>1, FieldsOf DEF Good
<1>1. ASSUME NEW more \in Nat, more >= Latest PROVE Between(cb, last, more)
  <2> SUFFICES ASSUME NEW k \in Held(cb)
               PROVE  Item(cb, k) <= more /\ (Item(cb, k) # 0 => Item(cb, k) > last)
    BY DEF Between
  <2>1. Item(cb, k) \in Nat
    BY <1>0, ItemType, FrameBounds
  <2>2. Item(cb, k) <= Latest /\ (Item(cb, k) # 0 => Item(cb, k) > last)
    BY <1>0 DEF Between
  <2> QED
    BY <1>1, <1>t, <2>1, <2>2
<1>2. ASSUME UNCHANGED <<cb, playback>>, Latest' \in Nat, Latest' >= Latest PROVE OrderInv'
  <2>1. UNCHANGED <<cb, out, last>>
    BY <1>2 DEF playback
  <2>2. Between(cb', last', Latest') /\ Ascending(cb') /\ Played(out', last')
    BY <1>0, <1>1, <1>2, <2>1
  <2>3. last' <= Latest'
    BY <1>0, <1>t, <1>2, <2>1
  <2> QED
    BY <1>0, <2>1, <2>2, <2>3 DEF OrderInv
<1>3. CASE BeginOpen \/ BeginClose \/ ClearReady \/ Finish \/ MarkOpen
  <2>1. UNCHANGED <<cb, playback, blend, frame>>
    BY <1>3 DEF BeginOpen, BeginClose, ClearReady, Finish, MarkOpen, blending
  <2>2. Latest' = Latest
    BY <2>1 DEF Latest
  <2> QED
    BY <1>2, <1>t, <2>1, <2>2
<1>4. CASE RxHandler \/ CheckSpace \/ PostFrame \/ Overflow
  <2>1. UNCHANGED <<cb, playback>>
    BY <1>4 DEF RxHandler, CheckSpace, PostFrame, Overflow
  <2>2. Latest' \in Nat /\ Latest' >= Latest
    <3>1. CASE RxHandler
      <4>1. frame' = frame + 1 /\ blend = "idle" /\ blend' \in {"check", "refill"}
        BY <3>1 DEF RxHandler
      <4>2. Latest' = frame' - 1 /\ Latest = frame
        BY <4>1 DEF Latest
      <4> QED
        BY <1>0, <4>1, <4>2, AudioAssumption
    <3>2. CASE CheckSpace
      <4>1. frame' = frame /\ blend = "check" /\ blend' \in {"put", "overflow"}
        BY <3>2 DEF CheckSpace
      <4>2. Latest = frame - 1 /\ Latest' \in {frame - 1, frame}
        BY <4>1 DEF Latest
      <4> QED
        BY <1>0, <1>t, <4>2, AudioAssumption
    <3>3. CASE PostFrame \/ Overflow
      <4>1. frame' = frame /\ blend \in {"post", "overflow"} /\ blend' = "idle"
        BY <3>3 DEF PostFrame, Overflow
      <4>2. Latest' = Latest
        BY <4>1 DEF Latest
      <4> QED
        BY <1>t, <4>2
    <3> QED
      BY <1>4, <3>1, <3>2, <3>3
  <2> QED
    BY <1>2, <2>1, <2>2
<1>5. CASE Refill \/ RefillFirst
  <2>1. cb' = Refilled(cb) /\ UNCHANGED <<out, last>> /\ Latest' = Latest
    <3>1. CASE Refill
      BY <3>1 DEF Refill, blending, playback, Latest
    <3>2. CASE RefillFirst
      BY <3>2 DEF RefillFirst, playback, Latest
    <3> QED
      BY <1>5, <3>1, <3>2
  <2>2. Between(cb', last', Latest') /\ Ascending(cb')
    BY <1>0, <1>t, <2>1, RefilledOrder
  <2> QED
    BY <1>0, <2>1, <2>2 DEF OrderInv
<1>6. CASE PutFrame
  <2>1. /\ cb' = Put(cb, Frame(frame)) /\ UNCHANGED <<out, last, frame>>
        /\ blend = "put" /\ blend' = "post"
    BY <1>6 DEF PutFrame, playback
  <2>2. Latest = frame - 1 /\ Latest' = frame
    BY <2>1 DEF Latest
  <2>3. /\ cb.elemCount + FRAME <= SIZE /\ Frame(frame) \in [1 .. FRAME -> Elements]
        /\ FRAME \in 0 .. SIZE
    BY <1>0, <2>1, FrameType DEF OutputInv, ChecksHold
  <2>4. cb'.elemCount = cb.elemCount + FRAME
    BY <1>0, <2>1, <2>3, PutStep, FieldsOfBuff
  <2>5. \A k \in Held(cb') : /\ k < cb.elemCount => k \in Held(cb) /\ Item(cb', k) = Item(cb, k)
                             /\ ~(k < cb.elemCount) => Item(cb', k) = frame
    <3> SUFFICES ASSUME NEW k \in Held(cb')
                 PROVE  /\ k < cb.elemCount => k \in Held(cb) /\ Item(cb', k) = Item(cb, k)
                        /\ ~(k < cb.elemCount) => Item(cb', k) = frame
      OBVIOUS
    <3>1. k \in 0 .. cb.elemCount + FRAME - 1
      BY <1>t, <2>4, FrameBounds DEF Held
    <3>2. Item(cb', k) = IF k < cb.elemCount THEN Item(cb, k) ELSE Frame(frame)[k - cb.elemCount + 1]
      BY <1>0, <2>1, <2>3, <3>1, PutItems
    <3>3. k < cb.elemCount => k \in Held(cb)
      BY <1>t, <3>1, FrameBounds DEF Held
    <3>4. ~(k < cb.elemCount) => k - cb.elemCount + 1 \in 1 .. FRAME
      BY <1>t, <3>1, FrameBounds
    <3> QED
      BY <3>2, <3>3, <3>4 DEF Frame, Filled
  <2>6. ASSUME NEW k \in Held(cb)
        PROVE  Item(cb, k) \in Nat /\ Item(cb, k) < frame /\ (Item(cb, k) # 0 => Item(cb, k) > last)
    <3>1. Item(cb, k) \in Nat
      BY <1>0, ItemType, FrameBounds
    <3>2. Item(cb, k) <= Latest /\ (Item(cb, k) # 0 => Item(cb, k) > last)
      BY <1>0 DEF Between
    <3> QED
      BY <1>0, <2>2, <3>1, <3>2, AudioAssumption
  <2>7. last < frame /\ frame \in Nat
    BY <1>0, <2>2, AudioAssumption
  <2>8. Between(cb', last', Latest')
    <3> SUFFICES ASSUME NEW k \in Held(cb')
                 PROVE  Item(cb', k) <= frame /\ (Item(cb', k) # 0 => Item(cb', k) > last)
      BY <2>1, <2>2 DEF Between
    <3> QED
      BY <2>5, <2>6, <2>7
  <2>9. Ascending(cb')
    <3> SUFFICES ASSUME NEW j \in Held(cb'), NEW k \in Held(cb'), j + FRAME <= k,
                        Item(cb', j) # 0, Item(cb', k) # 0
                 PROVE  Item(cb', j) < Item(cb', k)
      BY DEF Ascending
    <3>1. j < cb.elemCount
      BY <1>t, <2>4, FrameBounds DEF Held
    <3>2. CASE k < cb.elemCount
      BY <1>0, <2>5, <3>1, <3>2 DEF Ascending
    <3>3. CASE ~(k < cb.elemCount)
      BY <2>5, <2>6, <3>1, <3>3
    <3> QED
      BY <3>2, <3>3
  <2> QED
    BY <1>0, <2>1, <2>2, <2>7, <2>8, <2>9 DEF OrderInv
<1>7. CASE HandleEvent \/ Wait \/ CheckData
  <2>1. UNCHANGED <<cb, out, last, blend, frame>>
    BY <1>7 DEF HandleEvent, Wait, CheckData, blending
  <2>2. Latest' = Latest
    BY <2>1 DEF Latest
  <2>3. Between(cb', last', Latest') /\ Ascending(cb') /\ Played(out', last')
    BY <1>0, <2>1, <2>2
  <2> QED
    BY <1>0, <2>1, <2>2, <2>3 DEF OrderInv
<1>8. CASE TakeFrame
  <2>1. /\ cb' = Taken(cb, FRAME) /\ UNCHANGED <<blend, frame>>
        /\ out' = IF start THEN Read(cb, FRAME) ELSE out
        /\ last' = IF out'[1] = Zero THEN last ELSE out'[1]
        /\ play = "take"
    BY <1>8 DEF TakeFrame, blending
  <2>2. Latest' = Latest
    BY <2>1 DEF Latest
  <2>3. FRAME <= cb.elemCount /\ FRAME \in 0 .. SIZE
    BY <1>0, <2>1, FrameBounds DEF OutputInv, ChecksHold
  <2>4. cb'.elemCount = cb.elemCount - FRAME
    BY <1>0, <2>1, <2>3, TakenStep, FieldsOfBuff
  <2>5. \A k \in Held(cb') : k + FRAME \in Held(cb) /\ Item(cb', k) = Item(cb, k + FRAME)
    <3> SUFFICES ASSUME NEW k \in Held(cb')
                 PROVE  k + FRAME \in Held(cb) /\ Item(cb', k) = Item(cb, k + FRAME)
      OBVIOUS
    <3>1. k \in 0 .. cb.elemCount - FRAME - 1
      BY <2>4 DEF Held
    <3>2. k + FRAME \in Held(cb)
      BY <1>t, <3>1, FrameBounds DEF Held
    <3> QED
      BY <1>0, <2>1, <2>3, <3>1, <3>2, TakenItems
  <2>6. 0 \in Held(cb) /\ Read(cb, FRAME)[1] = Item(cb, 0) /\ Read(cb, FRAME) \in [1 .. FRAME -> Elements]
    <3>1. 0 \in Held(cb)
      BY <1>t, <2>3, FrameBounds DEF Held
    <3>2. \A k \in 1 .. FRAME : k - 1 \in Held(cb)
      BY <1>t, <2>3, FrameBounds DEF Held
    <3>3. \A k \in 1 .. FRAME : Item(cb, k - 1) \in Elements
      BY <1>0, <3>2, ItemType
    <3>4. Read(cb, FRAME) = [k \in 1 .. FRAME |-> Item(cb, k - 1)]
      BY DEF Read, Item
    <3>5. 1 \in 1 .. FRAME /\ 1 - 1 = 0
      BY FrameBounds
    <3> QED
      BY <3>1, <3>3, <3>4, <3>5
  <2>7. Item(cb, 0) \in Nat /\ Item(cb, 0) <= Latest /\ (Item(cb, 0) # 0 => Item(cb, 0) > last)
    BY <1>0, <2>6, ItemType, FrameBounds DEF Between
  <2>8. /\ out' \in [1 .. FRAME -> Elements] /\ Played(out', last')
        /\ last' = last \/ (last' = Item(cb, 0) /\ Item(cb, 0) # 0)
    <3>1. CASE start
      <4>1. out' = Read(cb, FRAME) /\ out'[1] = Item(cb, 0)
        BY <2>1, <2>6, <3>1
      <4> QED
        BY <2>1, <2>6, <4>1, FrameBounds DEF Played
    <3>2. CASE ~start
      <4>1. out' = out
        BY <2>1, <3>2
      <4> QED
        BY <1>0, <2>1, <4>1, FrameBounds DEF Played
    <3> QED
      BY <3>1, <3>2
  <2>9. last' \in Nat /\ last' <= Latest
    BY <1>0, <2>7, <2>8
  <2>10. Between(cb', last', Latest)
    <3> SUFFICES ASSUME NEW k \in Held(cb')
                 PROVE  Item(cb', k) <= Latest /\ (Item(cb', k) # 0 => Item(cb', k) > last')
      BY DEF Between
    <3>1. k + FRAME \in Held(cb) /\ Item(cb', k) = Item(cb, k + FRAME)
      BY <2>5
    <3>2. Item(cb, k + FRAME) <= Latest /\ (Item(cb, k + FRAME) # 0 => Item(cb, k + FRAME) > last)
      BY <1>0, <3>1 DEF Between
    <3>3. Item(cb, 0) # 0 /\ Item(cb, k + FRAME) # 0 => Item(cb, 0) < Item(cb, k + FRAME)
      <4>1. 0 + FRAME <= k + FRAME
        BY <2>4, FrameBounds DEF Held
      <4> QED
        BY <1>0, <2>6, <3>1, <4>1 DEF Ascending
    <3> QED
      BY <2>8, <3>1, <3>2, <3>3
  <2>11. Ascending(cb')
    <3> SUFFICES ASSUME NEW j \in Held(cb'), NEW k \in Held(cb'), j + FRAME <= k,
                        Item(cb', j) # 0, Item(cb', k) # 0
                 PROVE  Item(cb', j) < Item(cb', k)
      BY DEF Ascending
    <3>1. (j + FRAME) + FRAME <= k + FRAME
      BY FrameBounds DEF Held
    <3>2. /\ j + FRAME \in Held(cb) /\ Item(cb', j) = Item(cb, j + FRAME)
          /\ k + FRAME \in Held(cb) /\ Item(cb', k) = Item(cb, k + FRAME)
      BY <2>5
    <3> QED
      BY <1>0, <3>1, <3>2 DEF Ascending
  <2> QED
    BY <1>0, <2>2, <2>8, <2>9, <2>10, <2>11 DEF OrderInv
<1>9. CASE UNCHANGED vars
  <2>1. UNCHANGED <<cb, playback, blend, frame>>
    BY <1>9 DEF vars, blending
  <2>2. Latest' = Latest
    BY <2>1 DEF Latest
  <2> QED
    BY <1>2, <1>t, <2>1, <2>2
<1> QED
  BY <1>3, <1>4, <1>5, <1>6, <1>7, <1>8, <1>9 DEF Next

LEMMA TakesNewer ==
  ASSUME OrderInv, [Next]_vars, play = "take", play' = "event", start
  PROVE  out'[1] = Zero \/ out'[1] > last
<1>1. TakeFrame
  <2>1. play # play' /\ play # "wait" /\ play # "check" /\ play # "event"
    OBVIOUS
  <2>2. BeginOpen \/ BeginClose \/ ClearReady \/ Refill \/ Finish \/ MarkOpen
          \/ RxHandler \/ RefillFirst \/ CheckSpace \/ PutFrame \/ PostFrame \/ Overflow \/ UNCHANGED vars
          => play' = play
    BY DEF BeginOpen, BeginClose, ClearReady, Refill, Finish, MarkOpen, RxHandler, RefillFirst, CheckSpace,
           PutFrame, PostFrame, Overflow, vars, playback
  <2>3. HandleEvent => play = "event"
    BY DEF HandleEvent
  <2>4. Wait => play = "wait"
    BY DEF Wait
  <2>5. CheckData => play = "check"
    BY DEF CheckData
  <2> QED
    BY <2>1, <2>2, <2>3, <2>4, <2>5 DEF Next
<1>2. Good(cb) /\ FRAME <= cb.elemCount /\ Between(cb, last, Latest) /\ last \in Nat
  BY FrameBounds DEF OrderInv, OutputInv, ChecksHold
<1>3. 0 \in Held(cb) /\ cb.elemCount \in 0 .. SIZE
  BY <1>2, FrameBounds, FieldsOf DEF Held, Good
<1>4. out'[1] = Item(cb, 0)
  <2>1. out' = Read(cb, FRAME)
    BY <1>1 DEF TakeFrame
  <2>2. 1 \in 1 .. FRAME /\ 1 - 1 = 0
    BY FrameBounds
  <2> QED
    BY <2>1, <2>2 DEF Read, Item
<1>5. Item(cb, 0) # 0 => Item(cb, 0) > last
  BY <1>2, <1>3 DEF Between
<1> QED
  BY <1>4, <1>5, FrameBounds

(* For every size, frame and silence that AudioAssumption allows: a frame *)
(* given to the callback is silence or newer than all it had before,      *)
(* whatever resets, overflows and refused reads came between. *)
THEOREM OutputPlayedInOrder == Spec => PlayedInOrder
<1>1. OrderInv /\ [Next]_vars => [play = "take" /\ play' = "event" /\ start => out'[1] = Zero \/ out'[1] > last]_vars
  BY TakesNewer
<1> QED
  BY <1>1, OrderInvInit, OrderInvNext, PTL DEF Spec, PlayedInOrder
=============================================================================
