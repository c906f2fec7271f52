---------------------------- MODULE SCMageUnit ----------------------------
(***************************************************************************)
(* SCMage_Ctor as a whole: the constructor, on the real-time thread, reads *)
(* the labels of its buffer (LabelSource) into the queue of the new Mage   *)
(* and then starts the life of the unit (SCMage).                          *)
(***************************************************************************)
EXTENDS SCMage, LabelSource

vars == <<scVars, sourceVars>>

(* A unit has at most as many labels as the queue has slots. *)
ASSUME UnitAssumption == MaxLabels >= maxLabelQueueLen

UnitInit == SCInit /\ SourceInit

(* What later units see of the statics: parseQuery always assigns the      *)
(* first, tests only whether the second is a time, and copies the third.   *)
Old(s, old) == IF s = Empty THEN Empty ELSE old
OldMiddle == Old(middle, IF IsDigitString(middle) THEN OldNumber ELSE OldText)

(* bufnum >= 0: the buffer is read before the constructor goes on.  What   *)
(* is behind a second null character is behind the first one too.          *)
Buffers == UNION {{data \in [1..n -> Chars] :
                     Cardinality({k \in 1..n : data[k] = "null"}) <= 1} :
                  n \in 0..MaxSamples}

CtorOpen == /\ server = "idle" /\ source = "none"
            /\ \E data \in Buffers, channels \in 1..MaxChannels :
                  OpenBuf(data, channels)
            /\ UNCHANGED scVars

CtorRead == Read /\ UNCHANGED scVars

CloseBuf == /\ source' = "none"
            /\ bufData' = <<>> /\ bufChannels' = 1 /\ bufIndex' = 0
            /\ stringBuf' = Empty /\ queue' = <<>>
            /\ first' = Empty /\ middle' = OldMiddle /\ last' = Old(last, OldText)

CtorEnd == /\ source = "done"
           /\ CtorStart(Len(queue)) \/ CtorNoThread(Len(queue))
           /\ CloseBuf

(* a negative bufnum, or one of the two allocations fails *)
CtorNoBuf == /\ source = "none"
             /\ CtorStart(0) \/ CtorNoThread(0) \/ CtorNoMage \/ CtorNoString
             /\ UNCHANGED sourceVars

UnitRest == /\ \/ SCMage_next \/ DtorCancel \/ DtorCancelWild \/ DtorRest
               \/ Restart \/ GenThread \/ GenLoadFails
            /\ UNCHANGED sourceVars

UnitNext == CtorOpen \/ CtorRead \/ CtorEnd \/ CtorNoBuf \/ UnitRest

UnitSpec == UnitInit /\ [][UnitNext]_vars

FairUnitSpec == /\ UnitSpec
                /\ WF_vars(SCMage_next /\ UNCHANGED sourceVars)
                /\ WF_vars(DtorRest /\ UNCHANGED sourceVars)
                /\ WF_vars(GenThread /\ UNCHANGED sourceVars)

-----------------------------------------------------------------------------
(* Types of a unit, from its constructor on: neither the intermediate      *)
(* string nor the label queue nor the frame queue outgrows its memory, in  *)
(* whatever state cancellation and destructor are.                         *)
UnitTypeOK == SCTypeOK /\ SourceTypeOK
=============================================================================
