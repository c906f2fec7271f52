-------------------------------- MODULE Mage --------------------------------
(***************************************************************************)
(* mage/src/mage.cpp: the pipeline that Mage::run() drives, one label per  *)
(* call.  popLabel takes a label off the label queue; prepareModel,        *)
(* computeDuration and computeParameters build a model in the next slot of *)
(* the model queue; optimizeParameters runs the parameter generation over  *)
(* a window of nOfBackup past models, the current one and nOfLookup future *)
(* ones, and generate() pushes the frames of the current one, waiting      *)
(* while the frame queue is full.  A client calls pushLabel, clearLabels,  *)
(* reset and run in any order; the audio callback takes frames at any      *)
(* moment, also in the middle of run().                                    *)
(*                                                                         *)
(* A label is the number of the pushLabel call that brought it.  The frame *)
(* queue is the number of frames in it: FrameQueue is about its content.   *)
(***************************************************************************)
EXTENDS LabelQueue, Sequences

CONSTANTS nOfBackup,         \* models to look back
          maxNumOfFrames,    \* frames ModelQueueMemory has room for
          maxFrameQueueLen,  \* slots of the frame queue
          Durations,         \* the lengths of models in frames, as
                             \* Model::updateDuration leaves them
          MaxLabels          \* bound: pushLabel calls

nOfLookup == 0       \* models to look ahead: none in this build

maxModelQueueLen == nOfLookup + nOfBackup + 2

maxDuration == maxNumOfFrames \div (nOfBackup + nOfLookup + 1)

ASSUME WindowAssumption == nOfBackup \in Nat
ASSUME DurationAssumption == /\ maxNumOfFrames \in Nat
                             /\ Durations \subseteq 0..maxDuration
ASSUME FrameQueueAssumption == /\ maxFrameQueueLen \in Nat
                               /\ maxDuration <= maxFrameQueueLen
ASSUME LabelAssumption == MaxLabels \in Nat /\ Label = 1..MaxLabels

VARIABLES pc,        \* the method of run() that comes next
          label,     \* Mage::label, the label popped last
          models,    \* the model queue's slots
          mRead, mWrite, mCount,  \* its read, write and nOfItems
          model,     \* Mage::model, the slot being filled
          flag,      \* no model has left the window yet
          backup,    \* generate()'s argument
          left,      \* frames generate() still has to push
          frames,    \* frames in the frame queue
          calls,     \* ghost: pushLabel calls so far
          fed,       \* ghost: the labels popped so far, in order
          rendered,  \* ghost: the models generated so far
          room       \* ghost: the frame queue was empty when run() began

modelVars == <<models, mRead, mWrite, mCount, model>>
ghosts == <<calls, fed, rendered, room>>
mageVars == <<labelVars, pc, label, modelVars, flag, backup, left, frames,
              ghosts>>

Model == [label : Label \cup {NoLabel}, duration : Durations \cup {0}]

(* The model queue is a MemQueue of models. *)
ModelQueue == INSTANCE MemQueue
                WITH Item <- Model, length <- maxModelQueueLen,
                     rawData <- models, read <- mRead, write <- mWrite,
                     nOfItems <- mCount, item <- <<>>

ModelAt(k) == models[ModelQueue!Advance(mRead, k)]

MageInit == /\ LabelQueueInit
            /\ pc = "run"
            /\ label = NoLabel
            /\ models = [j \in ModelQueue!Slot |->
                           [label |-> NoLabel, duration |-> 0]]
            /\ mRead = 0 /\ mWrite = 0 /\ mCount = 0
            /\ model = 0
            /\ flag = TRUE
            /\ backup = 0 /\ left = 0
            /\ frames = 0
            /\ calls = 0 /\ fed = <<>> /\ rendered = 0 /\ room = TRUE

-----------------------------------------------------------------------------
(* The client, between two calls of run() *)

(* mutant of PushLabel: isFull() is not checked *)
PushLabelAlways == /\ pc = "run" /\ calls < MaxLabels
                   /\ calls' = calls + 1
                   /\ LabelPush(calls + 1)
                   /\ UNCHANGED <<pc, label, modelVars, flag, backup, left,
                                  frames, fed, rendered, room>>

(* A full label queue drops the label. *)
PushLabel == /\ pc = "run" /\ calls < MaxLabels
             /\ calls' = calls + 1
             /\ \/ ~LabelIsFull /\ LabelPush(calls + 1)
                \/ LabelIsFull /\ UNCHANGED labelVars
             /\ UNCHANGED <<pc, label, modelVars, flag, backup, left, frames,
                            fed, rendered, room>>

ClearLabels == /\ pc = "run"
               /\ LabelClear
               /\ UNCHANGED <<pc, label, modelVars, flag, backup, left, frames,
                              ghosts>>

(* reset() keeps the queues; of the state modelled here it sets flag. *)
Reset == /\ pc = "run"
         /\ flag' = TRUE
         /\ UNCHANGED <<labelVars, pc, label, modelVars, backup, left, frames,
                        ghosts>>

-----------------------------------------------------------------------------
(* run() *)

PopLabel == /\ pc = "run" /\ ~LabelIsEmpty
            /\ pc' = "prepareModel"
            /\ label' = LabelFront
            /\ LabelPop
            /\ fed' = Append(fed, LabelFront)
            /\ room' = (frames = 0)
            /\ UNCHANGED <<modelVars, flag, backup, left, frames, calls,
                           rendered>>

PrepareModel == /\ pc = "prepareModel"
                /\ pc' = "computeDuration"
                /\ model' = mWrite
                /\ UNCHANGED <<labelVars, label, models, mRead, mWrite, mCount,
                               flag, backup, left, frames, ghosts>>

(* mutant of ComputeDuration: the durations are cut one frame too late *)
ComputeDurationLong(d) ==
  /\ pc = "computeDuration"
  /\ pc' = "computeParameters"
  /\ models' = [models EXCEPT ![model].duration = d + 1]
  /\ UNCHANGED <<labelVars, label, mRead, mWrite, mCount, model, flag, backup,
                 left, frames, ghosts>>

ComputeDuration(d) ==
  /\ pc = "computeDuration"
  /\ pc' = "computeParameters"
  /\ models' = [models EXCEPT ![model].duration = d]
  /\ UNCHANGED <<labelVars, label, mRead, mWrite, mCount, model, flag, backup,
                 left, frames, ghosts>>

ComputeParameters ==
  /\ pc = "computeParameters"
  /\ pc' = "optimizeParameters"
  /\ models' = [models EXCEPT ![model].label = label]
  /\ mWrite' = ModelQueue!Advance(mWrite, 1)
  /\ mCount' = mCount + 1
  /\ UNCHANGED <<labelVars, label, mRead, model, flag, backup, left, frames,
                 ghosts>>

(* optimizeParameters() up to the loop of generate( ..., b ) *)
StartGenerate(b) == /\ pc' = "generate"
                    /\ backup' = b
                    /\ left' = ModelAt(b).duration
                    /\ rendered' = rendered + 1
                    /\ UNCHANGED <<labelVars, label, modelVars, frames, calls,
                                   fed, room>>

FullWindow == mCount > nOfLookup + nOfBackup

(* mutant of OptimizeFull: generate() takes one model too early *)
OptimizeFullEarly == /\ pc = "optimizeParameters" /\ FullWindow
                     /\ flag' = FALSE
                     /\ StartGenerate(nOfBackup - 1)

OptimizeFull == /\ pc = "optimizeParameters" /\ FullWindow
                /\ flag' = FALSE
                /\ StartGenerate(nOfBackup)

(* The first labels: as much of the window as there is.  Without a         *)
(* look-ahead the two branches leave no case in which the method returns   *)
(* having generated nothing; were there one, run() would stop here and     *)
(* LabelsAllSpoken fail.                                                   *)
OptimizePartial == /\ pc = "optimizeParameters" /\ ~FullWindow
                   /\ mCount > nOfLookup /\ flag
                   /\ UNCHANGED flag
                   /\ StartGenerate(mCount - nOfLookup - 1)

(* mutant of GenerateFrame: the frame is not counted *)
GenerateFrameAgain == /\ pc = "generate" /\ left > 0
                      /\ frames < maxFrameQueueLen
                      /\ frames' = frames + 1
                      /\ UNCHANGED <<labelVars, pc, label, modelVars, flag,
                                     backup, left, ghosts>>

(* generate(): wait while the frame queue is full, push a frame *)
GenerateFrame == /\ pc = "generate" /\ left > 0
                 /\ frames < maxFrameQueueLen
                 /\ frames' = frames + 1
                 /\ left' = left - 1
                 /\ UNCHANGED <<labelVars, pc, label, modelVars, flag, backup,
                                ghosts>>

(* mutant of GenerateDone: the oldest model stays *)
GenerateDoneKeep == /\ pc = "generate" /\ left = 0
                    /\ pc' = "run"
                    /\ UNCHANGED <<labelVars, label, modelVars, flag, backup,
                                   left, frames, ghosts>>

(* generate() returns; after a full window the oldest model is popped *)
GenerateDone == /\ pc = "generate" /\ left = 0
                /\ pc' = "run"
                /\ IF FullWindow THEN ModelQueue!PopSlots(1)
                                 ELSE UNCHANGED <<models, mRead, mWrite, mCount>>
                /\ UNCHANGED <<labelVars, label, model, flag, backup, left,
                               frames, ghosts>>

Run == \/ PopLabel \/ PrepareModel \/ ComputeParameters
       \/ \E d \in Durations : ComputeDuration(d)
       \/ OptimizeFull \/ OptimizePartial
       \/ GenerateFrame \/ GenerateDone

(* The audio callback's updateSamples takes a frame. *)
TakeFrame == /\ frames > 0
             /\ frames' = frames - 1
             /\ UNCHANGED <<labelVars, pc, label, modelVars, flag, backup, left,
                            ghosts>>

MageNext == PushLabel \/ ClearLabels \/ Reset \/ Run \/ TakeFrame

MageSpec == MageInit /\ [][MageNext]_mageVars

(* The generator thread calls run() for ever and the audio callback runs   *)
(* for every block; when and whether the client calls is up to it.         *)
FairMageSpec == MageSpec /\ WF_mageVars(Run) /\ WF_mageVars(TakeFrame)

-----------------------------------------------------------------------------
Building == {"prepareModel", "computeDuration", "computeParameters"}

(* Types of the pipeline: label, model and frame queue never exceed their  *)
(* lengths, whether or not the code asks them for room.                    *)
MageTypeOK ==
  /\ LabelQueueTypeOK
  /\ pc \in Building \cup {"run", "optimizeParameters", "generate"}
  /\ label \in Label \cup {NoLabel}
  /\ models \in [ModelQueue!Slot -> Model]
  /\ mRead \in ModelQueue!Slot /\ mWrite \in ModelQueue!Slot
  /\ mCount \in 0..maxModelQueueLen
  /\ model \in ModelQueue!Slot
  /\ flag \in BOOLEAN
  /\ backup \in 0..nOfBackup
  /\ left \in 0..maxDuration
  /\ frames \in 0..maxFrameQueueLen
  /\ calls \in 0..MaxLabels /\ fed \in Seq(Label) /\ rendered \in Nat
  /\ room \in BOOLEAN

(* Nothing checks the model queue for room; all the same, the slot that    *)
(* computeDuration and computeParameters write into is never one of the    *)
(* models still in the window.                                             *)
ModelSlotFree ==
  pc \in {"computeDuration", "computeParameters"} =>
     /\ mCount < maxModelQueueLen
     /\ \A k \in 0..(mCount - 1) : ModelQueue!Advance(mRead, k) # model

(* Every label that is popped is spoken once, in order and by the call of  *)
(* run() that popped it, whatever clearLabels and reset do in between:     *)
(* generate() lands on the model of the first label not generated yet.     *)
LabelsSpokenInOrder ==
  /\ pc = "generate" => /\ rendered <= Len(fed)
                        /\ ModelAt(backup).label = fed[rendered]
  /\ pc = "run" => rendered = Len(fed)

(* The label queue hands the labels over in the order of the pushLabel     *)
(* calls and none of them twice, however often it was full (those labels   *)
(* are dropped) or cleared in between.                                     *)
LabelsFedInOrder == \A i \in 1..(Len(fed) - 1) : fed[i] < fed[i + 1]

(* The window parameter generation runs over, and its frames *)
WindowSize == backup + nOfLookup + 1

WindowFrames ==
  LET sum[k \in Nat] == IF k = 0 THEN 0 ELSE sum[k-1] + ModelAt(k-1).duration
  IN  sum[WindowSize]

(* The models of the window optimizeParameters() and generate() run over   *)
(* are all in the model queue, and their frames fit ModelQueueMemory.      *)
WindowFits == pc = "generate" => /\ WindowSize <= mCount
                                 /\ WindowFrames <= maxNumOfFrames

(* A call of run() that finds the frame queue empty never waits for room:  *)
(* a client that runs and plays from the same thread cannot block itself.  *)
NoSelfBlock == ~(room /\ pc = "generate" /\ left > 0
                 /\ frames = maxFrameQueueLen)

(* Every label in the queue is spoken in the end: run() is never stuck     *)
(* waiting for room.                                                       *)
LabelsAllSpoken == []<>(pc = "run" /\ LabelIsEmpty)
=============================================================================
