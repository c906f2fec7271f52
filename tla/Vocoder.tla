------------------------------ MODULE Vocoder ------------------------------
(***************************************************************************)
(* mage/src/Vocoder.cpp, the excitation part: the pitch f0, its period t0  *)
(* and the pitch controls, which two threads write without a lock.  The    *)
(* generator thread calls setPitch() in every round of its loop with the   *)
(* controls it reads from the unit (SCMage_genThread); the audio thread    *)
(* stores those controls once per block (SCMage_next), pushes a frame per  *)
(* hop (prepare) and pops samples (excite).  An action is what one thread  *)
(* does between two accesses the other one can observe.                    *)
(*                                                                         *)
(* Frequencies are integers, and a frequency above MaxPitch counts as      *)
(* MaxPitch.  t0 = SampleRate / f0 is represented by the f0 it was         *)
(* computed from, so t0 = 0 is an infinite period.  The spectral filter is *)
(* reduced to whether its state is still made of finite numbers.           *)
(***************************************************************************)
EXTENDS Integers

CONSTANTS Pitches,       \* pitches of the voiced frames the model generates
          Values,        \* values of the freqValue input
          Modes,         \* values of the freqMode input
          defaultPitch,
          SampleRate,    \* period of the pitch 1, in samples
          MaxPitch       \* bound: higher frequencies are not told apart

(* Constants.h; every other number is as good as "other" *)
noaction == "noaction"
overwrite == "overwrite"
shift == "shift"
scale == "scale"
synthetic == "synthetic"
Actions == {noaction, overwrite, shift, scale, synthetic, "other"}

ASSUME VocoderAssumption ==
  /\ MaxPitch \in Nat /\ SampleRate \in Nat
  /\ defaultPitch \in 1..MaxPitch
  /\ Pitches \subseteq 1..MaxPitch
  /\ Values \subseteq -MaxPitch..MaxPitch /\ Values # {}
  /\ Modes \subseteq Actions /\ noaction \in Modes

VARIABLES freqValue, freqAction,          \* the unit's copy of its inputs
          f0, t0, action, actionValue, voiced, count,     \* the Vocoder
          filterOk,                       \* the filter's state is finite
          gen, value, mode, reg,          \* generator: step and registers
          audio, frame, prepAction        \* audio thread: step and registers

controlVars == <<freqValue, freqAction>>
pitchVars == <<f0, t0, action, actionValue>>
sampleVars == <<voiced, count, filterOk>>
genVars == <<gen, value, mode, reg>>
audioVars == <<audio, frame, prepAction>>
vocoderVars == <<controlVars, pitchVars, sampleVars, genVars, audioVars>>

(* What generate() leaves in a frame's lf0 stream: 0 when it is unvoiced *)
Frames == [voiced : {TRUE}, pitch : Pitches] \cup [voiced : {FALSE}, pitch : {0}]

(* Constructors of Vocoder and unit; nobody initializes actionValue. *)
VocoderInit == /\ freqValue = 0 /\ freqAction = noaction
               /\ f0 = defaultPitch /\ t0 = defaultPitch
               /\ action = noaction /\ actionValue \in Values
               /\ voiced = FALSE /\ count = 0 /\ filterOk = TRUE
               /\ gen = "call" /\ value = 0 /\ mode = noaction /\ reg = 0
               /\ audio = "block" /\ prepAction = noaction
               /\ frame = [voiced |-> FALSE, pitch |-> 0]

Saturate(f) == IF f > MaxPitch THEN MaxPitch
               ELSE IF f < -MaxPitch THEN -MaxPitch ELSE f

(* mutant of SetTo: noaction has no case of its own *)
SetToDefault(a, v, base) == CASE a = shift -> Saturate(base + v)
                              [] a = scale -> Saturate(base * v)
                              [] a = synthetic -> base
                              [] OTHER     -> v

(* The switch of setPitch(), applied to the current pitch *)
SetTo(a, v, base) == CASE a = shift -> Saturate(base + v)
                       [] a = scale -> Saturate(base * v)
                       [] a \in {synthetic, noaction} -> base
                       [] OTHER     -> v

(* The switch of prepare(), applied to the frame's pitch *)
PrepareTo(a, v, base) == CASE a = overwrite -> v
                           [] a = shift -> Saturate(base + v)
                           [] a = scale -> Saturate(base * v)
                           [] OTHER -> base

-----------------------------------------------------------------------------
(* The generator thread: setPitch(unit->freqValue, unit->freqAction).  The *)
(* order in which the two arguments are read is the compiler's.            *)

GenGoto(from, to) == /\ gen = from /\ gen' = to
                     /\ UNCHANGED <<controlVars, sampleVars, audioVars>>

ReadValueFirst == /\ GenGoto("call", "readAction")
                  /\ value' = freqValue
                  /\ UNCHANGED <<mode, reg, pitchVars>>

ReadActionLast == /\ GenGoto("readAction", "switch")
                  /\ mode' = freqAction /\ reg' = f0
                  /\ UNCHANGED <<value, pitchVars>>

ReadActionFirst == /\ GenGoto("call", "readValue")
                   /\ mode' = freqAction
                   /\ UNCHANGED <<value, reg, pitchVars>>

ReadValueLast == /\ GenGoto("readValue", "switch")
                 /\ value' = freqValue /\ reg' = f0
                 /\ UNCHANGED <<mode, pitchVars>>

(* f0 += pitch and its like: reg holds the f0 that was read.  An action    *)
(* that leaves the pitch alone neither reads nor writes it.                *)
SetF0 == /\ GenGoto("switch", "action")
         /\ LET base == IF mode \in {synthetic, noaction} THEN f0 ELSE reg
            IN  f0' = SetTo(mode, value, base)
         /\ UNCHANGED <<value, mode, reg, t0, action, actionValue>>

SetAction == /\ GenGoto("action", "value")
             /\ action' = mode
             /\ UNCHANGED <<value, mode, reg, f0, t0, actionValue>>

(* mutant of SetActionValue: the value is not kept for the frames to come *)
ForgetActionValue == /\ GenGoto("value", "positive")
                     /\ UNCHANGED <<value, mode, reg, pitchVars>>

SetActionValue == /\ GenGoto("value", "positive")
                  /\ actionValue' = value
                  /\ UNCHANGED <<value, mode, reg, f0, t0, action>>

(* A negative pitch is replaced, by a store that comes after the check;    *)
(* then the pitch is read for the period ...                               *)
CheckPositive == /\ gen = "positive"
                 /\ gen' = IF f0 < 0 THEN "replace" ELSE "read"
                 /\ UNCHANGED <<controlVars, sampleVars, audioVars, value, mode,
                                reg, pitchVars>>

ReplaceNegative == /\ GenGoto("replace", "read")
                   /\ f0' = defaultPitch
                   /\ UNCHANGED <<value, mode, reg, t0, action, actionValue>>

ReadF0 == /\ GenGoto("read", "period")
          /\ reg' = f0
          /\ UNCHANGED <<value, mode, pitchVars>>

(* ... which is stored; run() and usleep() follow. *)
SetT0 == /\ GenGoto("period", "call")
         /\ t0' = reg
         /\ UNCHANGED <<value, mode, reg, f0, action, actionValue>>

-----------------------------------------------------------------------------
(* The audio thread *)

AudioGoto(from, to) == /\ audio = from /\ audio' = to
                       /\ UNCHANGED genVars

(* SCMage_next, which stores its inputs in this order *)
StoreValue(v) == /\ AudioGoto("block", "store")
                 /\ freqValue' = v
                 /\ UNCHANGED <<freqAction, pitchVars, sampleVars, frame,
                                prepAction>>

StoreAction(a) == /\ AudioGoto("store", "sample")
                  /\ freqAction' = a
                  /\ UNCHANGED <<freqValue, pitchVars, sampleVars, frame,
                                 prepAction>>

(* updateSamples(): a hop that finds a frame calls prepare() ... *)
PrepareFrame(fr) == /\ AudioGoto("sample", "prepare")
                    /\ frame' = fr
                    /\ prepAction' = action
                    /\ UNCHANGED <<controlVars, pitchVars, sampleVars>>

PrepareF0 == /\ AudioGoto("prepare", "clamp")
             /\ f0' = PrepareTo(prepAction, actionValue, frame.pitch)
             /\ UNCHANGED <<controlVars, t0, action, actionValue, sampleVars,
                            frame, prepAction>>

PrepareCheck == /\ audio = "clamp"
                /\ audio' = IF f0 < 0 THEN "replace" ELSE "prepared"
                /\ UNCHANGED <<genVars, controlVars, pitchVars, sampleVars,
                               frame, prepAction>>

PrepareReplace == /\ AudioGoto("replace", "prepared")
                  /\ f0' = defaultPitch
                  /\ UNCHANGED <<controlVars, t0, action, actionValue,
                                 sampleVars, frame, prepAction>>

PrepareT0 == /\ AudioGoto("prepared", "excite")
             /\ t0' = f0
             /\ voiced' = frame.voiced
             /\ UNCHANGED <<controlVars, f0, action, actionValue, count,
                            filterOk, frame, prepAction>>

(* ... otherwise the sample is made of what there is. *)
NoFrame == /\ AudioGoto("sample", "excite")
           /\ UNCHANGED <<controlVars, pitchVars, sampleVars, frame,
                          prepAction>>

(* pop(): excite() and the filter.  The square root of an infinite or a    *)
(* negative period enters the filter for good; what converting such a      *)
(* period to an int gives is up to the machine.                            *)
Excited == /\ audio = "excite" /\ audio' \in {"sample", "block"}
           /\ UNCHANGED <<controlVars, pitchVars, genVars, voiced, frame,
                          prepAction>>

Pulse == /\ Excited
         /\ voiced /\ count <= 0
         /\ IF t0 > 0
            THEN count' = SampleRate \div t0 /\ UNCHANGED filterOk
            ELSE count' \in {0, SampleRate} /\ filterOk' = FALSE

BetweenPulses == /\ Excited
                 /\ voiced /\ count > 0
                 /\ count' = count - 1
                 /\ UNCHANGED filterOk

Noise == /\ Excited
         /\ ~voiced
         /\ count' = 0
         /\ UNCHANGED filterOk

-----------------------------------------------------------------------------
GenStep == \/ ReadValueFirst \/ ReadActionLast
           \/ ReadActionFirst \/ ReadValueLast
           \/ SetF0 \/ SetAction \/ SetActionValue
           \/ CheckPositive \/ ReplaceNegative \/ ReadF0 \/ SetT0

AudioStep == \/ \E v \in Values : StoreValue(v)
             \/ \E a \in Modes : StoreAction(a)
             \/ \E fr \in Frames : PrepareFrame(fr)
             \/ PrepareF0 \/ PrepareCheck \/ PrepareReplace \/ PrepareT0
             \/ NoFrame
             \/ Pulse \/ BetweenPulses \/ Noise

VocoderSpec == VocoderInit /\ [][GenStep \/ AudioStep]_vocoderVars

(* The scheduler runs both threads; run() always returns (module Mage). *)
FairVocoderSpec == VocoderSpec /\ WF_vocoderVars(GenStep)
                               /\ WF_vocoderVars(AudioStep)

-----------------------------------------------------------------------------
(* "mode 0 is overwrite": when the controls come to rest on overwrite and  *)
(* a pitch, the vocoder comes to rest on that pitch and its period, frames *)
(* arriving or not, whatever torn controls it acted on before: prepare()   *)
(* applies the action again, although the comment on setPitch() says that  *)
(* the next push( Frame ) overwrites the pitch.                            *)
OverwriteSettles ==
  \A v \in {x \in Values : x > 0} :
     <>[](freqAction = overwrite /\ freqValue = v) => <>[](f0 = v /\ t0 = v)

(* "Mode -1 is noop": when the controls come to rest there and frames of  *)
(* one pitch keep arriving, from some point on every sample is made with   *)
(* the period of that pitch, whatever setPitch() stored before.  While the *)
(* pitch changes it is not: setPitch() may store the period of an earlier  *)
(* frame (ExcitationFinite).                                               *)
NoactionFollowsModel ==
  \A p \in Pitches :
     /\ <>[](freqAction = noaction /\ frame.pitch = p)
     /\ []<>(audio = "prepare")
     => <>[](audio = "excite" => t0 = p)

(* "an excitation based on the current voiced/unvoiced status and F0       *)
(* value": with the controls at noaction, every pulse has the finite       *)
(* period of a voiced frame, so the filter's state stays finite.           *)
ExcitationFinite == filterOk
=============================================================================
