----------------------------- MODULE LabelQueue -----------------------------
(***************************************************************************)
(* mage/src/LabelQueue.cpp: the ring of labels waiting to be spoken.  It   *)
(* has the shape of MemQueue but copies one label at a time into a         *)
(* std::vector, never clamps, and can be cleared.  Mage is its only user   *)
(* (pushLabel, popLabel, clearLabels), from one thread at a time: SCMage   *)
(* pushes every label before it starts the thread that pops them.          *)
(***************************************************************************)
EXTENDS Integers

CONSTANTS Label,             \* the labels that can be pushed
          maxLabelQueueLen   \* the number of slots, queue.size()

ASSUME LabelQueueAssumption == maxLabelQueueLen \in Nat \ {0}

VARIABLES queue,      \* the slots
          labelRead,  \* the slot of the oldest label
          labelWrite, \* the next free slot
          nOfLabels   \* the number of labels

labelVars == <<queue, labelRead, labelWrite, nOfLabels>>

LabelSlot == 0..(maxLabelQueueLen - 1)

NoLabel == 0  \* a default-constructed Label

LabelQueueInit == /\ queue = [j \in LabelSlot |-> NoLabel]
                  /\ labelRead = 0 /\ labelWrite = 0
                  /\ nOfLabels = 0

LabelIsEmpty == nOfLabels <= 0

LabelIsFull == nOfLabels >= maxLabelQueueLen

LabelAdvance(p) == (p + 1) % maxLabelQueueLen

(* push( Label & ) *)
LabelPush(l) == /\ queue' = [queue EXCEPT ![labelWrite] = l]
                /\ labelWrite' = LabelAdvance(labelWrite)
                /\ nOfLabels' = nOfLabels + 1
                /\ UNCHANGED labelRead

(* get( Label & ) *)
LabelFront == queue[labelRead]

(* pop( Label & ), whose result is LabelFront *)
LabelPop == /\ labelRead' = LabelAdvance(labelRead)
            /\ nOfLabels' = nOfLabels - 1
            /\ UNCHANGED <<queue, labelWrite>>

(* mutant of LabelClear: the read index is not reset *)
LabelClearWrite == /\ nOfLabels' = 0
                   /\ labelWrite' = 0
                   /\ UNCHANGED <<queue, labelRead>>

(* clear() *)
LabelClear == /\ nOfLabels' = 0
              /\ labelRead' = 0 /\ labelWrite' = 0
              /\ UNCHANGED queue

(* Types of the label queue: indices and count stay in range. *)
LabelQueueTypeOK == /\ queue \in [LabelSlot -> Label \cup {NoLabel}]
                    /\ labelRead \in LabelSlot /\ labelWrite \in LabelSlot
                    /\ nOfLabels \in 0..maxLabelQueueLen
=============================================================================
