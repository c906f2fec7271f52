---------------------------- MODULE ParamWindow ----------------------------
(***************************************************************************)
(* mage/src/ModelQueue.cpp: parameter generation over a sliding window of  *)
(* models.  optimizeParameters() lays the frames of the window out in the  *)
(* rows of ModelQueueMemory, once per stream; generate() then walks the    *)
(* same window with indices of its own to find the rows of the current     *)
(* model.  The spectrum (mgc) has a row per frame, the pitch (lf0), an MSD *)
(* stream, a row per voiced frame only, so the two walks have to skip the  *)
(* same frames; rows keep what earlier windows left there.                 *)
(*                                                                         *)
(* A row's content is the frame it was computed for and the window it was  *)
(* computed in; the smoothing over neighbouring rows (HTS_PStream_mlpg) is *)
(* reduced to whether it reaches for them.                                 *)
(***************************************************************************)
EXTENDS Integers, SequencesExt

CONSTANTS nOfBackup, nOfLookup,
          nOfStates,
          StateDurations,    \* frames of a state that are told apart
          maxNumOfFrames,    \* rows of ModelQueueMemory
          MaxModels          \* bound: models pushed

ASSUME WindowAssumption == /\ nOfBackup \in Nat /\ nOfLookup \in Nat
                           /\ nOfStates \in Nat \ {0}
                           /\ StateDurations \subseteq Nat /\ MaxModels \in Nat
ASSUME MemoryAssumption == maxNumOfFrames \in Nat

(* Constants.h: the longest a model may be; a single state may be as long  *)
maxDuration == maxNumOfFrames \div (nOfBackup + nOfLookup + 1)

VARIABLES pc,       \* what run() does next
          models,   \* the models in the queue, the oldest first
          pushed,   \* models pushed so far
          par,      \* per stream, ModelQueueMemory.par
          length,   \* per stream, pss.length
          dynamic,  \* per stream, the rows whose delta windows have a weight
          qStream,  \* per stream, the row generate() takes next
          todo,     \* the frames generate() has not pushed yet
          pushing   \* the frame pushed last, and the rows it was taken from
                    \* (NoFrame, NoRow before the first of a model)

paramVars == <<pc, models, pushed, par, length, dynamic, qStream, todo, pushing>>

Streams == {"mgc", "lf0"}
Rows == 0..(maxNumOfFrames - 1)
ModelStates == [1..nOfStates -> [duration : StateDurations, voiced : BOOLEAN]]

(* The frames of the model with number n, in order *)
FramesOf(n, states) ==
  FlattenSeq([s \in 1..nOfStates |->
                [q \in 1..states[s].duration |->
                   [model |-> n, state |-> s, q |-> q,
                    voiced |-> states[s].voiced]]])

NoFrame == [model |-> 0, state |-> 0, q |-> 0, voiced |-> FALSE]
NoRow == [frame |-> NoFrame, window |-> 0]
NoPush == [frame |-> NoFrame, mgc |-> NoRow, lf0 |-> NoRow]

ParamInit == /\ pc = "push"
             /\ models = <<>> /\ pushed = 0
             /\ par = [i \in Streams |-> [r \in Rows |-> NoRow]]
             /\ length = [i \in Streams |-> 0]
             /\ dynamic = [i \in Streams |-> {}]
             /\ qStream = [i \in Streams |-> 0]
             /\ todo = <<>>
             /\ pushing = NoPush

FullWindow == Len(models) > nOfLookup + nOfBackup
Backup == IF FullWindow THEN nOfBackup ELSE Len(models) - nOfLookup - 1

(* mutant of PushModel: the durations are not brought under the limit *)
PushModelUncapped(states) ==
  /\ pc = "push" /\ pushed < MaxModels
  /\ pushed' = pushed + 1
  /\ models' = Append(models, FramesOf(pushed + 1, states))
  /\ pc' = IF Len(models') > nOfLookup THEN "optimize" ELSE "push"
  /\ UNCHANGED <<par, length, dynamic, qStream, todo, pushing>>

(* Mage::prepareModel .. computeParameters: a model is pushed, with the    *)
(* durations updateDuration() left, whose sum is within maxDuration        *)
(* (DurationIsSum of StateDurations)                                       *)
PushModel(states) ==
  /\ pc = "push" /\ pushed < MaxModels
  /\ Len(FramesOf(pushed + 1, states)) <= maxDuration
  /\ pushed' = pushed + 1
  /\ models' = Append(models, FramesOf(pushed + 1, states))
  /\ pc' = IF Len(models') > nOfLookup THEN "optimize" ELSE "push"
  /\ UNCHANGED <<par, length, dynamic, qStream, todo, pushing>>

(* Rows 0 .. Len(fs) - 1 of a stream are written, the others stay. *)
WriteRows(rows, fs) ==
  [r \in Rows |-> IF r < Len(fs) THEN [frame |-> fs[r + 1], window |-> pushed]
                  ELSE rows[r]]

Voiced(fs) == FlattenSeq([k \in DOMAIN fs |-> IF fs[k].voiced THEN <<fs[k]>>
                                              ELSE <<>>])

(* not_bound: a delta window of a frame sees a neighbour on either side    *)
NotBound(fs) == {f \in DOMAIN fs : f > 1 /\ f < Len(fs)}

(* mutant of NotBoundMSD: unvoiced neighbours are not looked at *)
NotBoundAnyVoicing(fs) == {f \in DOMAIN fs : fs[f].voiced /\ f \in NotBound(fs)}

(* ... in an MSD stream, a voiced one *)
NotBoundMSD(fs) ==
  {f \in DOMAIN fs : /\ fs[f].voiced /\ f \in NotBound(fs)
                     /\ fs[f - 1].voiced /\ fs[f + 1].voiced}

(* The msd_frame of a voiced frame *)
MsdRow(fs, f) == Len(Voiced(SubSeq(fs, 1, f - 1)))

(* optimizeParameters( engine, backup, lookup ) *)
OptimizeParameters ==
  LET fs == FlattenSeq(SubSeq(models, 1, Backup + nOfLookup + 1))
  IN  /\ pc = "optimize"
      /\ pc' = "generate"
      /\ par' = [mgc |-> WriteRows(par.mgc, fs),
                 lf0 |-> WriteRows(par.lf0, Voiced(fs))]
      /\ length' = [mgc |-> Len(fs), lf0 |-> Len(Voiced(fs))]
      /\ dynamic' = [mgc |-> {f - 1 : f \in NotBound(fs)},
                     lf0 |-> {MsdRow(fs, f) : f \in NotBoundMSD(fs)}]
      /\ UNCHANGED <<models, pushed, qStream, todo, pushing>>

(* mutant of Skipped: every stream skips every frame *)
SkippedAll(stream) == Len(FlattenSeq(SubSeq(models, 1, Backup)))

(* generate(): the rows of the backup models are skipped ... *)
Skipped(stream) ==
  LET fs == FlattenSeq(SubSeq(models, 1, Backup))
  IN  IF stream = "lf0" THEN Len(Voiced(fs)) ELSE Len(fs)

StartGenerate == /\ pc = "generate"
                 /\ pc' = "frames"
                 /\ qStream' = [i \in Streams |-> Skipped(i)]
                 /\ todo' = models[Backup + 1]
                 /\ pushing' = NoPush
                 /\ UNCHANGED <<models, pushed, par, length, dynamic>>

(* ... and a frame takes the next row of each stream it has one in. *)
GenerateFrame ==
  /\ pc = "frames" /\ todo # <<>>
  /\ LET f == Head(todo)
     IN  /\ pushing' = [frame |-> f, mgc |-> par.mgc[qStream.mgc],
                        lf0 |-> IF f.voiced THEN par.lf0[qStream.lf0]
                                ELSE NoRow]
         /\ qStream' = [mgc |-> qStream.mgc + 1,
                        lf0 |-> qStream.lf0 + IF f.voiced THEN 1 ELSE 0]
  /\ todo' = Tail(todo)
  /\ UNCHANGED <<pc, models, pushed, par, length, dynamic>>

(* Mage::optimizeParameters pops the oldest model of a full window *)
PopModel == /\ pc = "frames" /\ todo = <<>>
            /\ pc' = "push"
            /\ models' = IF FullWindow THEN Tail(models) ELSE models
            /\ UNCHANGED <<pushed, par, length, dynamic, qStream, todo, pushing>>

(* The labels end: nothing more to do *)
Idle == pc = "push" /\ pushed = MaxModels /\ UNCHANGED paramVars

ParamNext == \/ \E states \in ModelStates : PushModel(states)
             \/ OptimizeParameters \/ StartGenerate \/ GenerateFrame
             \/ PopModel \/ Idle

ParamSpec == ParamInit /\ [][ParamNext]_paramVars

-----------------------------------------------------------------------------
(* Types: the window never holds more models than it is wide, and no index *)
(* of either walk leaves the rows ModelQueueMemory has allocated.          *)
ParamTypeOK == /\ pc \in {"push", "optimize", "generate", "frames"}
               /\ Len(models) <= nOfLookup + nOfBackup + 1
               /\ pushed \in 0..MaxModels
               /\ DOMAIN par = Streams
               /\ \A i \in Streams : /\ length[i] \in 0..maxNumOfFrames
                                     /\ qStream[i] \in 0..maxNumOfFrames
                                     /\ dynamic[i] \subseteq Rows

(* Every frame generate() pushes carries the spectrum, and when it is      *)
(* voiced the pitch, that optimizeParameters() computed for that very      *)
(* frame and in this very window: the two walks over the window agree,     *)
(* however voiced and unvoiced, long and empty states alternate, and no    *)
(* row an earlier window left is used.                                     *)
FramesFromOwnRows ==
  pc = "frames" /\ pushing.frame # NoFrame =>
     /\ pushing.mgc = [frame |-> pushing.frame, window |-> pushed]
     /\ pushing.frame.voiced => pushing.lf0 = pushing.mgc

(* The smoothing of optimizeParameters() never reaches beyond the rows of  *)
(* its stream, nor across a voicing boundary: a row with a weighted delta  *)
(* window has, in the rows before and after it, the frames just before and *)
(* just after its own.                                                     *)
DynamicRowsAdjacent ==
  pc = "generate" =>
    LET fs == FlattenSeq(SubSeq(models, 1, Backup + nOfLookup + 1))
    IN  \A i \in Streams : \A r \in dynamic[i] :
          /\ r - 1 >= 0 /\ r + 1 < length[i]
          /\ \E f \in 2..(Len(fs) - 1) :
                \A d \in -1..1 : par[i][r + d].frame = fs[f + d]
=============================================================================
