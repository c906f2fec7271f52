----------------------------- MODULE MageProofs -----------------------------
(***************************************************************************)
(* Proofs about Mage for every width of the window, every length of the    *)
(* queues and every set of durations: its types, that the unchecked model  *)
(* queue always has a free slot, that every label is spoken once, in order *)
(* and at once, and that run() on an empty frame queue never waits.        *)
(***************************************************************************)
EXTENDS Mage, DataInduction

(* The place n steps behind p in a ring of M *)
Ring(M, p, n) == (p + n) % M

(* The model queue wherever run() is: at most nOfBackup models between two *)
(* labels, one more from computeParameters on, the newest of which is the  *)
(* one generate() works on.                                                *)
Pushed == pc \in {"optimizeParameters", "generate"}

PipeTypeOK ==
  /\ pc \in Building \cup {"run", "optimizeParameters", "generate"}
  /\ label \in Label \cup {NoLabel}
  /\ models \in [ModelQueue!Slot -> Model]
  /\ mRead \in ModelQueue!Slot /\ mWrite \in ModelQueue!Slot
  /\ mCount \in Nat
  /\ model \in ModelQueue!Slot
  /\ flag \in BOOLEAN
  /\ backup \in 0..nOfBackup
  /\ left \in 0..maxDuration
  /\ frames \in 0..maxFrameQueueLen
  /\ rendered \in Nat
  /\ room \in BOOLEAN

RingOK == /\ mWrite = Ring(maxModelQueueLen, mRead, mCount)
          /\ IF Pushed THEN mCount \in 1..(nOfBackup + 1)
             ELSE mCount \in 0..nOfBackup
          /\ pc \in {"computeDuration", "computeParameters"} => model = mWrite

(* The label in work is the last one popped, and it is in the newest model *)
(* once that is pushed.                                                    *)
SpokenOK == /\ fed \in Seq(Label)
            /\ pc # "run" => fed # <<>> /\ label = fed[Len(fed)]
            /\ Pushed => models[Ring(maxModelQueueLen, mRead, mCount - 1)].label = label
            /\ pc = "generate" => backup = mCount - 1
            /\ rendered = IF pc \in {"run", "generate"} THEN Len(fed)
                          ELSE Len(fed) - 1

(* A run() that found no frames has no more of them in the queue and to    *)
(* come than a model can have.                                             *)
RoomOK == room => /\ pc \in Building \cup {"optimizeParameters"} => frames = 0
                  /\ pc = "generate" => frames + left <= maxDuration

(* The labels in the queue are in the order of their calls, and later than *)
(* those popped.                                                           *)
Waiting(i) == queue[Ring(maxLabelQueueLen, labelRead, i)]
FedOK == /\ LabelQueueTypeOK
         /\ calls \in 0..MaxLabels
         /\ fed \in Seq(Label)
         /\ labelWrite = Ring(maxLabelQueueLen, labelRead, nOfLabels)
         /\ \A i \in 0..(nOfLabels - 1) : Waiting(i) \in 1..calls
         /\ \A i, j \in 0..(nOfLabels - 1) : i < j => Waiting(i) < Waiting(j)
         /\ \A k \in 1..Len(fed) : fed[k] \in 1..calls
         /\ \A k \in 1..Len(fed), i \in 0..(nOfLabels - 1) : fed[k] < Waiting(i)
         /\ LabelsFedInOrder

-----------------------------------------------------------------------------
(* The constants the proofs need: lengths are positive, the cap is a       *)
(* number.                                                                 *)
LEMMA Lengths ==
  /\ nOfBackup \in Nat /\ nOfLookup = 0
  /\ maxModelQueueLen = nOfBackup + 2
  /\ maxDuration \in Nat /\ maxFrameQueueLen \in Nat
  /\ maxDuration <= maxFrameQueueLen
  /\ Durations \subseteq 0..maxDuration
  /\ ModelQueue!Slot = 0..(nOfBackup + 1)
<1>1. nOfBackup \in Nat /\ nOfLookup = 0 /\ maxModelQueueLen = nOfBackup + 2
  BY WindowAssumption DEF nOfLookup, maxModelQueueLen
<1>2. maxDuration \in Nat
  BY <1>1, DurationAssumption DEF maxDuration
<1> QED BY <1>1, <1>2, DurationAssumption, FrameQueueAssumption
        DEF ModelQueue!Slot

(* The place n steps behind p in a ring of M is at most one lap on. *)
LEMMA RingWraps ==
  ASSUME NEW M \in Nat \ {0}, NEW p \in 0..(M - 1), NEW n \in 0..M
  PROVE  /\ Ring(M, p, n) = IF p + n < M THEN p + n ELSE p + n - M
         /\ Ring(M, p, n) \in 0..(M - 1)
<1>1. CASE p + n < M
  BY <1>1 DEF Ring
<1>2. CASE p + n >= M
  BY <1>2 DEF Ring
<1> QED BY <1>1, <1>2

(* One step more, at either end, is one step more. *)
LEMMA RingNext ==
  ASSUME NEW M \in Nat \ {0}, NEW p \in 0..(M - 1), NEW n \in 0..(M - 1)
  PROVE  /\ Ring(M, Ring(M, p, n), 1) = Ring(M, p, n + 1)
         /\ Ring(M, Ring(M, p, 1), n) = Ring(M, p, n + 1)
<1> DEFINE q == Ring(M, p, n)
           r == Ring(M, p, 1)
<1>0. 1 \in 0..M /\ n \in 0..M /\ n + 1 \in 0..M
  OBVIOUS
<1>1. /\ q = (IF p + n < M THEN p + n ELSE p + n - M) /\ q \in 0..(M - 1)
      /\ r = (IF p + 1 < M THEN p + 1 ELSE p + 1 - M) /\ r \in 0..(M - 1)
      /\ Ring(M, p, n + 1) = IF p + (n + 1) < M THEN p + (n + 1)
                             ELSE p + (n + 1) - M
  BY <1>0, RingWraps
<1> HIDE DEF q, r
<1>2. Ring(M, q, 1) = IF q + 1 < M THEN q + 1 ELSE q + 1 - M
  BY <1>0, <1>1, RingWraps
<1>3. Ring(M, r, n) = IF r + n < M THEN r + n ELSE r + n - M
  BY <1>0, <1>1, RingWraps
<1>4. Ring(M, q, 1) = Ring(M, p, n + 1) /\ Ring(M, r, n) = Ring(M, p, n + 1)
  BY <1>1, <1>2, <1>3
<1> QED BY <1>4 DEF q, r

(* Different distances below a lap lead to different places. *)
LEMMA RingDistinct ==
  ASSUME NEW M \in Nat \ {0}, NEW p \in 0..(M - 1), NEW m \in 0..(M - 1),
         NEW n \in 0..(M - 1), m # n
  PROVE  Ring(M, p, m) # Ring(M, p, n)
<1>1. /\ Ring(M, p, m) = IF p + m < M THEN p + m ELSE p + m - M
      /\ Ring(M, p, n) = IF p + n < M THEN p + n ELSE p + n - M
  BY RingWraps
<1> QED BY <1>1

-----------------------------------------------------------------------------
(* A label pushed into a queue that has room comes after all others.       *)
LEMMA PushKeepsOrder ==
  ASSUME FedOK, calls < MaxLabels, ~LabelIsFull, LabelPush(calls + 1),
         calls' = calls + 1, fed' = fed
  PROVE  FedOK'
<1> DEFINE M == maxLabelQueueLen
           Place(i) == Ring(M, labelRead, i)
<1>1. /\ M \in Nat \ {0} /\ labelRead \in 0..(M - 1) /\ labelWrite \in 0..(M - 1)
      /\ nOfLabels \in 0..(M - 1) /\ calls \in Nat /\ calls + 1 \in Label
      /\ queue \in [0..(M - 1) -> Label \cup {NoLabel}] /\ MaxLabels \in Nat
  BY LabelQueueAssumption, LabelAssumption
     DEF FedOK, LabelQueueTypeOK, LabelSlot, LabelIsFull
<1>2. /\ queue' = [queue EXCEPT ![labelWrite] = calls + 1]
      /\ labelWrite' = Ring(M, labelWrite, 1)
      /\ nOfLabels' = nOfLabels + 1 /\ labelRead' = labelRead
  BY DEF LabelPush, LabelAdvance, Ring
<1>3. labelWrite = Place(nOfLabels)
  BY DEF FedOK
<1>4. labelWrite' = Ring(M, labelRead', nOfLabels')
  BY <1>1, <1>2, <1>3, RingNext
<1>5. \A i \in 0..(nOfLabels - 1) : Place(i) # labelWrite /\ Place(i) \in 0..(M - 1)
  <2>1. SUFFICES ASSUME NEW i \in 0..(nOfLabels - 1)
                 PROVE  Place(i) # labelWrite /\ Place(i) \in 0..(M - 1)
    OBVIOUS
  <2>2. i \in 0..(M - 1) /\ i \in 0..M /\ i # nOfLabels
    BY <1>1
  <2>3. Place(i) # labelWrite
    BY <1>1, <1>3, <2>2, RingDistinct
  <2>4. Place(i) \in 0..(M - 1)
    BY <1>1, <2>2, RingWraps
  <2> QED BY <2>3, <2>4
<1> DEFINE W(i) == queue[Ring(M, labelRead, i)]
           W1(i) == queue'[Ring(M, labelRead', i)]
<1>6. /\ \A i \in 0..(nOfLabels - 1) : W1(i) = W(i)
      /\ W1(nOfLabels) = calls + 1
  BY <1>1, <1>2, <1>3, <1>5
<1>7. /\ \A i \in 0..(nOfLabels - 1) : W(i) \in 1..calls
      /\ \A i, j \in 0..(nOfLabels - 1) : i < j => W(i) < W(j)
      /\ \A k \in 1..Len(fed) : fed[k] \in 1..calls
      /\ \A k \in 1..Len(fed), i \in 0..(nOfLabels - 1) : fed[k] < W(i)
  BY DEF FedOK, Waiting
<1>8. \A i \in 0..(nOfLabels' - 1) : i \in 0..(nOfLabels - 1) \/ i = nOfLabels
  BY <1>1, <1>2
<1> HIDE DEF W, W1
<1>9. /\ \A i \in 0..(nOfLabels' - 1) : W1(i) \in 1..calls'
      /\ \A i, j \in 0..(nOfLabels' - 1) : i < j => W1(i) < W1(j)
      /\ \A k \in 1..Len(fed) : fed[k] \in 1..calls'
      /\ \A k \in 1..Len(fed), i \in 0..(nOfLabels' - 1) : fed[k] < W1(i)
  BY <1>1, <1>6, <1>7, <1>8
<1>10. LabelQueueTypeOK' /\ calls' \in 0..MaxLabels
  <2>1. labelWrite' \in 0..(M - 1)
    BY <1>1, <1>2, RingWraps
  <2> QED BY <1>1, <1>2, <2>1 DEF LabelQueueTypeOK, LabelSlot
<1> QED BY <1>4, <1>9, <1>10 DEF FedOK, Waiting, LabelsFedInOrder, W1

(* The oldest label popped is later than those popped before. *)
LEMMA PopKeepsOrder ==
  ASSUME FedOK, ~LabelIsEmpty, LabelPop, calls' = calls,
         fed' = Append(fed, LabelFront)
  PROVE  FedOK' /\ LabelFront \in Label
<1> DEFINE M == maxLabelQueueLen
           W(i) == queue[Ring(M, labelRead, i)]
           W1(i) == queue'[Ring(M, labelRead', i)]
<1>1. /\ M \in Nat \ {0} /\ labelRead \in 0..(M - 1) /\ labelWrite \in 0..(M - 1)
      /\ nOfLabels \in 1..M /\ calls \in 0..MaxLabels /\ MaxLabels \in Nat
      /\ fed \in Seq(Label) /\ Label = 1..MaxLabels
  BY LabelQueueAssumption, LabelAssumption
     DEF FedOK, LabelQueueTypeOK, LabelSlot, LabelIsEmpty
<1>2. /\ labelRead' = Ring(M, labelRead, 1) /\ nOfLabels' = nOfLabels - 1
      /\ queue' = queue /\ labelWrite' = labelWrite
  BY DEF LabelPop, LabelAdvance, Ring
<1>3. Ring(M, labelRead, 0) = labelRead /\ labelRead' \in 0..(M - 1)
  BY <1>1, <1>2, RingWraps
<1>4. \A i \in 0..(nOfLabels - 1) :
         Ring(M, labelRead', i) = Ring(M, labelRead, i + 1)
  BY <1>1, <1>2, RingNext
<1>5. labelWrite' = Ring(M, labelRead', nOfLabels')
  BY <1>1, <1>2, <1>4 DEF FedOK
<1>6. LabelFront = W(0) /\ \A i \in 0..(nOfLabels' - 1) : W1(i) = W(i + 1)
  BY <1>1, <1>2, <1>3, <1>4 DEF LabelFront
<1>7. /\ \A i \in 0..(nOfLabels - 1) : W(i) \in 1..calls
      /\ \A i, j \in 0..(nOfLabels - 1) : i < j => W(i) < W(j)
      /\ \A k \in 1..Len(fed) : fed[k] \in 1..calls
      /\ \A k \in 1..Len(fed), i \in 0..(nOfLabels - 1) : fed[k] < W(i)
  BY DEF FedOK, Waiting
<1> HIDE DEF W, W1
<1>8. LabelFront \in 1..calls /\ LabelFront \in Label
  BY <1>1, <1>6, <1>7
<1>9. /\ fed' \in Seq(Label) /\ Len(fed') = Len(fed) + 1
      /\ \A k \in 1..Len(fed) : fed'[k] = fed[k]
      /\ fed'[Len(fed) + 1] = LabelFront
      /\ \A k \in 1..Len(fed') : k \in 1..Len(fed) \/ k = Len(fed) + 1
  BY <1>1, <1>8
<1>10. \A k \in 1..Len(fed') : fed'[k] \in 1..calls
  BY <1>7, <1>8, <1>9
<1>11. /\ \A i \in 0..(nOfLabels' - 1) : W1(i) \in 1..calls
       /\ \A i, j \in 0..(nOfLabels' - 1) : i < j => W1(i) < W1(j)
       /\ \A i \in 0..(nOfLabels' - 1) : LabelFront < W1(i)
  BY <1>1, <1>2, <1>6, <1>7
<1>12. \A k \in 1..Len(fed), i \in 0..(nOfLabels' - 1) : fed[k] < W1(i)
  BY <1>1, <1>2, <1>6, <1>7
<1>13. \A k \in 1..Len(fed'), i \in 0..(nOfLabels' - 1) : fed'[k] < W1(i)
  BY <1>9, <1>11, <1>12
<1>14. \A k \in 1..(Len(fed') - 1) : fed'[k] < fed'[k + 1]
  <2>1. \A k \in 1..(Len(fed) - 1) : fed[k] < fed[k + 1]
    BY DEF FedOK, LabelsFedInOrder
  <2>2. \A k \in 1..Len(fed) : fed[k] < LabelFront
    BY <1>1, <1>6, <1>7
  <2>3. Len(fed) \in Nat
    BY <1>1
  <2> QED BY <1>9, <2>1, <2>2, <2>3
<1>15. LabelQueueTypeOK'
  BY <1>1, <1>2, <1>3 DEF FedOK, LabelQueueTypeOK, LabelSlot
<1> QED BY <1>1, <1>5, <1>8, <1>9, <1>10, <1>11, <1>13, <1>14, <1>15
        DEF FedOK, Waiting, LabelsFedInOrder, W1

-----------------------------------------------------------------------------
(* The label queue starts in order and stays so, in every step. *)
LEMMA FedOKInit == MageInit => FedOK
<1> SUFFICES ASSUME MageInit PROVE FedOK
  OBVIOUS
<1>1. /\ queue \in [LabelSlot -> Label \cup {NoLabel}] /\ labelRead = 0
      /\ labelWrite = 0 /\ nOfLabels = 0 /\ calls = 0 /\ fed = <<>>
  BY DEF MageInit, LabelQueueInit
<1>2. maxLabelQueueLen \in Nat \ {0} /\ MaxLabels \in Nat
  BY LabelQueueAssumption, LabelAssumption
<1>3. Ring(maxLabelQueueLen, 0, 0) = 0
  BY <1>2, RingWraps
<1> QED BY <1>1, <1>2, <1>3
        DEF FedOK, LabelQueueTypeOK, LabelSlot, LabelsFedInOrder

LEMMA FedOKStep == FedOK /\ [MageNext]_mageVars => FedOK'
<1> SUFFICES ASSUME FedOK, [MageNext]_mageVars PROVE FedOK'
  OBVIOUS
<1> DEFINE Same == UNCHANGED <<labelVars, calls, fed>>
<1>1. ASSUME Same PROVE FedOK'
  BY <1>1 DEF labelVars, FedOK, Waiting, LabelQueueTypeOK, LabelsFedInOrder
<1>2. CASE PushLabel
  <2>1. CASE ~LabelIsFull /\ LabelPush(calls + 1)
    BY <1>2, <2>1, PushKeepsOrder DEF PushLabel
  <2>2. CASE UNCHANGED labelVars
    <3>1. calls \in 0..MaxLabels /\ calls' \in 0..MaxLabels /\ calls' = calls + 1
      BY <1>2, LabelAssumption DEF PushLabel, FedOK
    <3>2. 1..calls \subseteq 1..calls'
      BY <3>1
    <3> QED BY <1>2, <2>2, <3>1, <3>2
            DEF PushLabel, labelVars, FedOK, Waiting, LabelQueueTypeOK, LabelsFedInOrder
  <2> QED BY <1>2, <2>1, <2>2 DEF PushLabel
<1>3. CASE ClearLabels
  <2>1. /\ labelRead' = 0 /\ labelWrite' = 0 /\ nOfLabels' = 0
        /\ queue' = queue /\ calls' = calls /\ fed' = fed
    BY <1>3 DEF ClearLabels, LabelClear, ghosts
  <2>2. maxLabelQueueLen \in Nat \ {0}
    BY LabelQueueAssumption
  <2>3. Ring(maxLabelQueueLen, 0, 0) = 0
    BY <2>2, RingWraps
  <2> QED BY <2>1, <2>2, <2>3
          DEF FedOK, Waiting, LabelQueueTypeOK, LabelSlot, LabelsFedInOrder
<1>4. CASE PopLabel
  BY <1>4, PopKeepsOrder DEF PopLabel
<1>5. CASE Reset
  BY <1>1, <1>5 DEF Reset, ghosts
<1>6. CASE PrepareModel \/ ComputeParameters \/ \E d \in Durations : ComputeDuration(d)
  BY <1>1, <1>6 DEF PrepareModel, ComputeParameters, ComputeDuration, ghosts
<1>7. CASE OptimizeFull \/ OptimizePartial
  BY <1>1, <1>7 DEF OptimizeFull, OptimizePartial, StartGenerate
<1>8. CASE GenerateFrame \/ GenerateDone \/ TakeFrame
  BY <1>1, <1>8 DEF GenerateFrame, GenerateDone, TakeFrame, ghosts
<1>9. CASE UNCHANGED mageVars
  BY <1>1, <1>9 DEF mageVars, ghosts
<1> QED BY <1>2, <1>3, <1>4, <1>5, <1>6, <1>7, <1>8, <1>9 DEF MageNext, Run

-----------------------------------------------------------------------------
(* The pipeline's part of the invariant, one lemma per group of conjuncts. *)
PipeInv == PipeTypeOK /\ RingOK /\ SpokenOK /\ RoomOK

LEMMA PipeInit == MageInit => PipeInv
<1> SUFFICES ASSUME MageInit PROVE PipeInv
  OBVIOUS
<1>1. Ring(maxModelQueueLen, 0, 0) = 0
  BY Lengths, RingWraps
<1>2. models \in [ModelQueue!Slot -> Model]
  BY DEF MageInit, Model
<1> QED BY <1>1, <1>2, Lengths
        DEF MageInit, PipeInv, PipeTypeOK, RingOK, SpokenOK, RoomOK, Pushed, Building

(* Numbers and places the cases below use. *)
LEMMA PipeFacts ==
  ASSUME PipeInv
  PROVE  /\ maxModelQueueLen \in Nat \ {0}
         /\ mRead \in 0..(maxModelQueueLen - 1)
         /\ mCount \in 0..(maxModelQueueLen - 1)
         /\ \A j \in ModelQueue!Slot : models[j].duration \in 0..maxDuration
         /\ \A p \in ModelQueue!Slot, n \in 0..maxModelQueueLen :
               Ring(maxModelQueueLen, p, n) \in ModelQueue!Slot
         /\ Len(fed) \in Nat
<1>1. /\ maxModelQueueLen \in Nat \ {0}
      /\ mRead \in 0..(maxModelQueueLen - 1)
      /\ mCount \in 0..(maxModelQueueLen - 1)
  BY Lengths DEF PipeInv, PipeTypeOK, RingOK
<1>2. \A j \in ModelQueue!Slot : models[j].duration \in 0..maxDuration
  <2>1. models \in [ModelQueue!Slot -> Model]
    BY DEF PipeInv, PipeTypeOK
  <2>2. Durations \cup {0} \subseteq 0..maxDuration
    BY Lengths
  <2>3. \A m \in Model : m.duration \in Durations \cup {0}
    BY DEF Model
  <2> QED BY <2>1, <2>2, <2>3
<1>3. \A p \in ModelQueue!Slot, n \in 0..maxModelQueueLen :
         Ring(maxModelQueueLen, p, n) \in ModelQueue!Slot
  BY <1>1, Lengths, RingWraps DEF ModelQueue!Slot
<1>4. Len(fed) \in Nat
  BY DEF PipeInv, SpokenOK
<1> QED BY <1>1, <1>2, <1>3, <1>4

(* The steps of the client and of the audio callback *)
LEMMA ClientKeeps ==
  ASSUME PipeInv, PushLabel \/ ClearLabels \/ Reset \/ TakeFrame
  PROVE  PipeInv'
<1> USE DEF PipeInv, PipeTypeOK, RingOK, SpokenOK, RoomOK, Pushed, modelVars,
            ghosts, Building
<1>1. CASE PushLabel
  BY <1>1 DEF PushLabel
<1>2. CASE ClearLabels
  BY <1>2 DEF ClearLabels
<1>3. CASE Reset
  BY <1>3 DEF Reset
<1>4. CASE TakeFrame
  BY <1>4, Lengths DEF TakeFrame
<1> QED BY <1>1, <1>2, <1>3, <1>4

(* run() up to the model's parameters: the slot filled is the free one. *)
LEMMA PopKeeps ==
  ASSUME PipeInv, FedOK, PopLabel
  PROVE  PipeInv'
<1>1. LabelFront \in Label
  BY PopKeepsOrder DEF PopLabel, ghosts
<1>2. fed' \in Seq(Label) /\ fed' # <<>> /\ fed'[Len(fed')] = label'
      /\ Len(fed') = Len(fed) + 1 /\ Len(fed) \in Nat
  BY <1>1 DEF PopLabel, FedOK
<1>3. PipeTypeOK'
  BY <1>1 DEF PopLabel, PipeInv, PipeTypeOK, modelVars, Building
<1>4. RingOK'
  BY DEF PopLabel, PipeInv, RingOK, Pushed, modelVars
<1>5. SpokenOK'
  BY <1>2 DEF PopLabel, PipeInv, SpokenOK, Pushed
<1>6. RoomOK'
  BY DEF PopLabel, RoomOK
<1> QED BY <1>3, <1>4, <1>5, <1>6 DEF PipeInv

LEMMA BuildKeeps ==
  ASSUME PipeInv, PrepareModel \/ \E d \in Durations : ComputeDuration(d)
  PROVE  PipeInv'
<1>1. CASE PrepareModel
  BY <1>1 DEF PrepareModel, PipeInv, PipeTypeOK, RingOK, SpokenOK, RoomOK, Pushed,
              ghosts, Building
<1>2. CASE \E d \in Durations : ComputeDuration(d)
  <2> PICK d \in Durations : ComputeDuration(d)
    BY <1>2
  <2>1. models' \in [ModelQueue!Slot -> Model]
    BY DEF ComputeDuration, PipeInv, PipeTypeOK, Model
  <2> QED BY <2>1 DEF ComputeDuration, PipeInv, PipeTypeOK, RingOK, SpokenOK,
                      RoomOK, Pushed, ghosts, Building
<1> QED BY <1>1, <1>2

LEMMA ParametersKeep ==
  ASSUME PipeInv, ComputeParameters
  PROVE  PipeInv'
<1> USE DEF PipeInv
<1>1. /\ pc = "computeParameters" /\ pc' = "optimizeParameters"
      /\ models' = [models EXCEPT ![model].label = label]
      /\ mWrite' = Ring(maxModelQueueLen, mWrite, 1) /\ mCount' = mCount + 1
      /\ UNCHANGED <<label, mRead, model, flag, backup, left, frames, ghosts>>
  BY DEF ComputeParameters, ModelQueue!Advance, Ring
<1>2. /\ model = Ring(maxModelQueueLen, mRead, mCount) /\ model = mWrite
      /\ mCount \in 0..nOfBackup
  BY <1>1 DEF RingOK, Pushed
<1>3. models' \in [ModelQueue!Slot -> Model]
  BY <1>1 DEF PipeTypeOK, Model
<1>4. mWrite' = Ring(maxModelQueueLen, mRead, mCount + 1)
  BY <1>1, <1>2, PipeFacts, RingNext
<1>5. mWrite' \in ModelQueue!Slot
  <2>1. mWrite \in ModelQueue!Slot /\ 1 \in 0..maxModelQueueLen
    BY Lengths DEF PipeTypeOK
  <2>2. Ring(maxModelQueueLen, mWrite, 1) \in ModelQueue!Slot
    BY <2>1, PipeFacts
  <2> QED BY <1>1, <2>2
<1>6. models'[model].label = label
  BY <1>1 DEF PipeTypeOK, Model
<1>7. PipeTypeOK'
  BY <1>1, <1>3, <1>5 DEF PipeTypeOK, ghosts
<1>8. RingOK'
  BY <1>1, <1>2, <1>4, Lengths DEF RingOK, Pushed
<1>9. SpokenOK'
  <2>1. mCount' - 1 = mCount
    BY <1>1, <1>2, Lengths
  <2> QED BY <1>1, <1>2, <1>6, <2>1 DEF SpokenOK, Pushed, ghosts
<1>10. RoomOK'
  BY <1>1 DEF RoomOK, Building, ghosts
<1> QED BY <1>7, <1>8, <1>9, <1>10

(* optimizeParameters() and generate(): the newest model is spoken. *)
LEMMA OptimizeKeeps ==
  ASSUME PipeInv, OptimizeFull \/ OptimizePartial
  PROVE  PipeInv'
<1> USE DEF PipeInv
<1>1. pc = "optimizeParameters" /\ mCount \in 1..(nOfBackup + 1) /\ flag' \in BOOLEAN
  BY DEF OptimizeFull, OptimizePartial, RingOK, Pushed, PipeTypeOK
<1>2. StartGenerate(mCount - 1)
  <2>1. CASE OptimizeFull
    <3>1. mCount - 1 = nOfBackup
      BY <1>1, <2>1, Lengths DEF OptimizeFull, FullWindow
    <3> QED BY <2>1, <3>1 DEF OptimizeFull
  <2>2. CASE OptimizePartial
    <3>1. mCount - nOfLookup - 1 = mCount - 1
      BY <1>1, Lengths
    <3> QED BY <2>2, <3>1 DEF OptimizePartial
  <2> QED BY <2>1, <2>2
<1>3. /\ pc' = "generate" /\ backup' = mCount - 1 /\ rendered' = rendered + 1
      /\ left' = models[Ring(maxModelQueueLen, mRead, mCount - 1)].duration
      /\ UNCHANGED <<label, modelVars, frames, calls, fed, room>>
  BY <1>2 DEF StartGenerate, ModelAt, ModelQueue!Advance, Ring
<1>4. mCount - 1 \in 0..maxModelQueueLen /\ mCount - 1 \in 0..nOfBackup
  BY <1>1, Lengths
<1>5. left' \in 0..maxDuration
  BY <1>3, <1>4, PipeFacts DEF PipeTypeOK
<1>6. PipeTypeOK'
  BY <1>1, <1>3, <1>4, <1>5 DEF PipeTypeOK, modelVars
<1>7. RingOK'
  BY <1>1, <1>3 DEF RingOK, Pushed, modelVars
<1>8. SpokenOK'
  BY <1>1, <1>3, PipeFacts DEF SpokenOK, Pushed, modelVars
<1>9. RoomOK'
  BY <1>1, <1>3, <1>5, Lengths DEF RoomOK, Building
<1> QED BY <1>6, <1>7, <1>8, <1>9

LEMMA GenerateKeeps ==
  ASSUME PipeInv, GenerateFrame \/ GenerateDone
  PROVE  PipeInv'
<1> USE DEF PipeInv
<1>1. CASE GenerateFrame
  BY <1>1, Lengths DEF GenerateFrame, PipeTypeOK, RingOK, SpokenOK, RoomOK, Pushed,
                       modelVars, ghosts, Building
<1>2. CASE GenerateDone
  <2>1. /\ pc = "generate" /\ pc' = "run" /\ mCount \in 1..(nOfBackup + 1)
        /\ UNCHANGED <<label, model, flag, backup, left, frames, ghosts>>
    BY <1>2 DEF GenerateDone, RingOK, Pushed
  <2>2. CASE FullWindow
    <3>1. mCount = nOfBackup + 1
      BY <2>1, <2>2, Lengths DEF FullWindow
    <3>2. /\ mRead' = Ring(maxModelQueueLen, mRead, 1) /\ mCount' = nOfBackup
          /\ models' = models /\ mWrite' = mWrite
      BY <1>2, <2>2, <3>1, Lengths
         DEF GenerateDone, ModelQueue!PopSlots, ModelQueue!Available,
             ModelQueue!GetNumOfItems, ModelQueue!Advance, Ring
    <3>3. mRead' \in ModelQueue!Slot
      BY <3>2, PipeFacts, Lengths DEF PipeTypeOK
    <3>4. Ring(maxModelQueueLen, mRead', nOfBackup) = mWrite
      <4>1. nOfBackup \in 0..(maxModelQueueLen - 1)
        BY Lengths
      <4> QED BY <3>1, <3>2, <4>1, PipeFacts, RingNext DEF RingOK
    <3> QED BY <2>1, <3>2, <3>3, <3>4, Lengths
            DEF PipeTypeOK, RingOK, SpokenOK, RoomOK, Pushed, ghosts, Building
  <2>3. CASE ~FullWindow
    <3>1. mCount \in 0..nOfBackup
      BY <2>1, <2>3, Lengths DEF FullWindow
    <3> QED BY <1>2, <2>1, <2>3, <3>1
            DEF GenerateDone, PipeTypeOK, RingOK, SpokenOK, RoomOK, Pushed, ghosts,
                Building
  <2> QED BY <2>2, <2>3
<1> QED BY <1>1, <1>2

(* The inductive invariant of the whole pipeline *)
MageInv == PipeInv /\ FedOK

LEMMA MageInvInductive == MageSpec => []MageInv
<1>1. MageInit => MageInv
  BY PipeInit, FedOKInit DEF MageInv
<1>2. MageInv /\ [MageNext]_mageVars => MageInv'
  <2> SUFFICES ASSUME MageInv, [MageNext]_mageVars PROVE PipeInv'
    BY FedOKStep DEF MageInv
  <2>1. CASE UNCHANGED mageVars
    BY <2>1 DEF MageInv, PipeInv, PipeTypeOK, RingOK, SpokenOK, RoomOK, Pushed,
                mageVars, modelVars, ghosts
  <2>2. CASE MageNext
    BY <2>2, ClientKeeps, PopKeeps, BuildKeeps, ParametersKeep, OptimizeKeeps,
       GenerateKeeps DEF MageInv, MageNext, Run
  <2> QED BY <2>1, <2>2
<1> QED BY <1>1, <1>2, PTL DEF MageSpec

-----------------------------------------------------------------------------
(* Every reachable state is well-typed: no queue of the pipeline ever      *)
(* exceeds its length, the model queue, which no method asks for room,     *)
(* included.                                                               *)
THEOREM PipelineTypeCorrect == MageSpec => []MageTypeOK
<1>1. MageInv => MageTypeOK
  BY Lengths, PipeFacts DEF MageInv, PipeInv, PipeTypeOK, SpokenOK, FedOK, MageTypeOK
<1> QED BY <1>1, MageInvInductive, PTL

(* The slot prepareModel hands to computeDuration and computeParameters is *)
(* none of the models still in the window, however wide the window is.     *)
THEOREM PreparedSlotIsFree == MageSpec => []ModelSlotFree
<1>1. MageInv => ModelSlotFree
  <2> SUFFICES ASSUME MageInv, pc \in {"computeDuration", "computeParameters"}
               PROVE  /\ mCount < maxModelQueueLen
                      /\ \A k \in 0..(mCount - 1) :
                            ModelQueue!Advance(mRead, k) # model
    BY DEF ModelSlotFree
  <2>1. /\ model = Ring(maxModelQueueLen, mRead, mCount)
        /\ mCount \in 0..(maxModelQueueLen - 1)
    BY PipeFacts DEF MageInv, PipeInv, RingOK
  <2>2. ASSUME NEW k \in 0..(mCount - 1)
        PROVE  Ring(maxModelQueueLen, mRead, k) # model
    <3>1. k \in 0..(maxModelQueueLen - 1) /\ k # mCount
      BY <2>1, PipeFacts DEF MageInv
    <3> QED BY <2>1, <3>1, PipeFacts, RingDistinct DEF MageInv
  <2>3. \A k \in 0..(mCount - 1) : ModelQueue!Advance(mRead, k) # model
    BY <2>2 DEF ModelQueue!Advance, Ring
  <2> QED BY <2>1, <2>3, PipeFacts DEF MageInv
<1> QED BY <1>1, MageInvInductive, PTL

(* Every label popped is spoken once, in order and by the run() that       *)
(* popped it, whatever pushLabel, clearLabels and reset do in between.     *)
THEOREM EveryLabelSpokenInOrder == MageSpec => []LabelsSpokenInOrder
<1>1. MageInv => LabelsSpokenInOrder
  <2> SUFFICES ASSUME MageInv PROVE LabelsSpokenInOrder
    OBVIOUS
  <2>1. ASSUME pc = "generate"
        PROVE  rendered = Len(fed) /\ ModelAt(backup).label = fed[rendered]
    BY <2>1 DEF MageInv, PipeInv, SpokenOK, Pushed, ModelAt, ModelQueue!Advance, Ring
  <2>2. pc = "run" => rendered = Len(fed)
    BY DEF MageInv, PipeInv, SpokenOK
  <2> QED BY <2>1, <2>2, PipeFacts DEF LabelsSpokenInOrder, MageInv
<1> QED BY <1>1, MageInvInductive, PTL

(* The labels reach the models in the order of the pushLabel calls, none   *)
(* twice, for every length of the label queue.                             *)
THEOREM LabelsKeepTheirOrder == MageSpec => []LabelsFedInOrder
<1>1. MageInv => LabelsFedInOrder
  BY DEF MageInv, FedOK
<1> QED BY <1>1, MageInvInductive, PTL

(* A run() that finds the frame queue empty never waits for room, for      *)
(* every queue that can hold the longest model.                            *)
THEOREM RunNeverBlocksItself == MageSpec => []NoSelfBlock
<1>1. MageInv => NoSelfBlock
  BY Lengths DEF MageInv, PipeInv, PipeTypeOK, RoomOK, NoSelfBlock
<1> QED BY <1>1, MageInvInductive, PTL

(* The first n models of a window have at most n times the cap in frames. *)
LEMMA RunningSumBounded ==
  ASSUME NEW d \in [Nat -> 0..maxDuration], NEW f,
         f = [k \in Nat |-> IF k = 0 THEN 0 ELSE f[k - 1] + d[k - 1]]
  PROVE  \A n \in Nat : f[n] \in 0..(n * maxDuration)
<1> DEFINE c == maxDuration
           T == {n \in Nat : f[n] \in 0..(n * c)}
<1>1. c \in Nat
  BY Lengths
<1>2. f[0] = 0 /\ \A n \in Nat : f[n + 1] = f[n] + d[n]
  <2>1. \A n \in Nat : n + 1 \in Nat /\ n + 1 # 0 /\ (n + 1) - 1 = n
    OBVIOUS
  <2> QED BY <2>1
<1>3. \A n \in Nat : d[n] \in 0..c
  OBVIOUS
<1> HIDE DEF c
<1>4. 0 \in T
  <2>1. 0 * c = 0
    BY <1>1
  <2> QED BY <1>2, <2>1
<1>5. \A n \in Nat : n \in T => n + 1 \in T
  <2> SUFFICES ASSUME NEW n \in Nat, f[n] \in 0..(n * c)
               PROVE  f[n + 1] \in 0..((n + 1) * c)
    OBVIOUS
  <2>1. (n + 1) * c = n * c + c /\ n * c \in Nat
    BY <1>1
  <2> QED BY <1>1, <1>2, <1>3, <2>1
<1> HIDE DEF T
<1>6. \A n \in Nat : n \in T
  BY <1>4, <1>5, Induct
<1> QED BY <1>6 DEF T, c

(* The window optimizeParameters() runs over is in the model queue and its *)
(* frames fit ModelQueueMemory, for every width of the window: the cap     *)
(* updateDuration() puts on a model is what makes them fit.                *)
THEOREM WindowsFitMemory == MageSpec => []WindowFits
<1>1. MageInv => WindowFits
  <2> SUFFICES ASSUME MageInv, pc = "generate"
               PROVE  WindowSize <= mCount /\ WindowFrames <= maxNumOfFrames
    BY DEF WindowFits
  <2>1. /\ WindowSize = mCount /\ mCount \in 1..(nOfBackup + 1)
    BY Lengths DEF MageInv, PipeInv, SpokenOK, RingOK, Pushed, WindowSize
  <2> DEFINE d == [k \in Nat |-> ModelAt(k).duration]
             Body(g) == [k \in Nat |-> IF k = 0 THEN 0
                                       ELSE g[k - 1] + ModelAt(k - 1).duration]
             f == CHOOSE g : g = Body(g)
  <2>2. d \in [Nat -> 0..maxDuration]
    <3> SUFFICES ASSUME NEW k \in Nat PROVE ModelAt(k).duration \in 0..maxDuration
      OBVIOUS
    <3>1. ModelQueue!Advance(mRead, k) \in ModelQueue!Slot
      <4>1. mRead + k \in Nat /\ maxModelQueueLen \in Nat \ {0}
        BY PipeFacts DEF MageInv
      <4>2. (mRead + k) % maxModelQueueLen \in 0..(maxModelQueueLen - 1)
        BY <4>1
      <4> QED BY <4>2 DEF ModelQueue!Advance, ModelQueue!Slot
    <3> QED BY <3>1, PipeFacts DEF MageInv, ModelAt
  <2>3. \A k \in Nat : k # 0 => k - 1 \in Nat /\ d[k - 1] = ModelAt(k - 1).duration
    OBVIOUS
  <2>4. d \in [Nat -> Int]
    BY <2>2, Lengths
  <2> HIDE DEF d
  <2>5. PICK g : g = [k \in Nat |-> IF k = 0 THEN 0 ELSE g[k - 1] + d[k - 1]]
    BY <2>4, RunningSumExists
  <2>6. g = Body(g)
    BY <2>3, <2>5
  <2>7. f = Body(f)
    BY <2>6
  <2>8. WindowFrames = f[WindowSize]
    BY DEF WindowFrames
  <2> HIDE DEF f
  <2>9. f = [k \in Nat |-> IF k = 0 THEN 0 ELSE f[k - 1] + d[k - 1]]
    BY <2>3, <2>7
  <2>10. f[mCount] \in 0..(mCount * maxDuration)
    BY <2>1, <2>2, <2>9, RunningSumBounded
  <2>11. mCount * maxDuration <= maxNumOfFrames
    <3>1. /\ nOfBackup + 1 \in Nat \ {0} /\ maxNumOfFrames \in Nat
          /\ maxDuration = maxNumOfFrames \div (nOfBackup + 1)
      BY Lengths, DurationAssumption DEF maxDuration
    <3> DEFINE n == nOfBackup + 1
               c == maxDuration
    <3>2. n \in Nat \ {0} /\ c = maxNumOfFrames \div n /\ c \in Nat /\ mCount \in 1..n
      BY <2>1, <3>1, Lengths
    <3> HIDE DEF n, c
    <3>3. n * c <= maxNumOfFrames
      BY <3>1, <3>2
    <3>4. mCount * c <= n * c
      BY <3>2
    <3>5. mCount * c \in Nat /\ n * c \in Nat
      BY <3>2
    <3> QED BY <3>1, <3>3, <3>4, <3>5 DEF c
  <2>12. mCount * maxDuration \in Nat /\ maxNumOfFrames \in Nat /\ mCount \in Nat
    BY <2>1, Lengths, DurationAssumption
  <2>13. f[mCount] <= maxNumOfFrames
    BY <2>10, <2>11, <2>12
  <2> QED BY <2>1, <2>8, <2>12, <2>13
<1> QED BY <1>1, MageInvInductive, PTL
=============================================================================
