--------------------------- MODULE StateDurations ---------------------------
(***************************************************************************)
(* How many frames every state of a model gets: Mage::computeDuration with *)
(* Model::initDuration, computeDuration and updateDuration (mage/src/      *)
(* Model.cpp), and mHTS_set_duration (mage/src/hts.cpp), which distributes *)
(* a given length over the states.                                         *)
(*                                                                         *)
(* Means, variances, weights and controls are whole numbers; the rounding  *)
(* of the first estimate is exact.  Which state the correction loop picks  *)
(* is a matter of floating-point comparisons: any it may look at.          *)
(***************************************************************************)
EXTENDS Integers, Functions

CONSTANTS nOfStates,
          maxDuration,        \* frames a model may have
          Means, Varis,       \* of a state's duration
          Lengths,            \* lengths asked for, by label times or speed
          InterpolationWeights,
          UpdateValues,       \* what setDuration() may be given
          MaxEngines          \* bound: engines interpolated

ASSUME StatesAssumption == nOfStates \in Nat \ {0, 1} /\ maxDuration \in Nat
ASSUME DataAssumption == /\ Means \subseteq Nat \ {0} /\ Varis \subseteq Nat \ {0}
                         /\ Lengths \subseteq Nat \ {0}
                         /\ InterpolationWeights \subseteq Int
                         /\ UpdateValues \subseteq Int /\ MaxEngines \in Nat

VARIABLES pc,
          label,           \* where the length comes from
          engines,         \* engines whose durations were added
          mean, vari, iw,  \* of the current engine
          target, sum,     \* target_length, and the sum the loop keeps
          durationArray,   \* modelMemory.duration_array
          state,           \* state[i].duration
          duration,        \* Model::duration
          corrupted        \* duration[-1] was written

vars == <<pc, label, engines, mean, vari, iw, target, sum, durationArray, state,
          duration, corrupted>>

States == 1..nOfStates
NoData == [i \in States |-> 0]
AtLeastOne(d) == IF d < 1 THEN 1 ELSE d

(* initDuration() for a label without a length ("free"), with one, or with *)
(* times of which the end is missing                                       *)
DurationInit == /\ pc = "engine"
                /\ label \in {"free", "length", "noEnd"}
                /\ engines = 0
                /\ mean = NoData /\ vari = NoData /\ iw = 1
                /\ target = 0 /\ sum = 0
                /\ durationArray = NoData
                /\ state = NoData /\ duration = 0
                /\ corrupted = FALSE

(* Model::computeDuration, for one engine: its means and variances (the    *)
(* decision trees are external), and the length                            *)
GetDuration(m, v, w, length) ==
  /\ pc = "engine" /\ engines < MaxEngines
  /\ mean' = m /\ vari' = v /\ iw' = w
  /\ target' = IF label = "length" THEN length ELSE 0
  /\ pc' = IF label = "noEnd" THEN "add" ELSE "set"
  /\ UNCHANGED <<label, engines, sum, durationArray, state, duration, corrupted>>

(* mHTS_set_duration: no length is given, the means are used *)
SetMeans == /\ pc = "set" /\ target = 0
            /\ durationArray' = [i \in States |-> AtLeastOne(mean[i])]
            /\ duration' = SumFunction(durationArray')
            /\ pc' = "add"
            /\ UNCHANGED <<label, engines, mean, vari, iw, target, sum, state,
                           corrupted>>

(* the length is too short: a frame per state *)
SetOnes == /\ pc = "set" /\ target > 0 /\ target <= nOfStates
           /\ durationArray' = [i \in States |-> 1]
           /\ duration' = nOfStates
           /\ pc' = "add"
           /\ UNCHANGED <<label, engines, mean, vari, iw, target, sum, state,
                          corrupted>>

(* first estimation: ( int )( mean + rho * vari + 0.5 ), at least 1 *)
FirstEstimate(i) ==
  LET V == SumFunction(vari)
      M == SumFunction(mean)
  IN  AtLeastOne((2 * mean[i] * V + 2 * (target - M) * vari[i] + V) \div (2 * V))

(* mutant of Estimate: the sum misses a frame of the first state *)
EstimateEarlySum ==
  /\ pc = "set" /\ target > nOfStates
  /\ durationArray' = [i \in States |-> FirstEstimate(i)]
  /\ sum' = SumFunction([i \in States |-> FirstEstimate(i) - IF i = 1 THEN 1 ELSE 0])
  /\ pc' = "loop"
  /\ UNCHANGED <<label, engines, mean, vari, iw, target, state, duration, corrupted>>

Estimate == /\ pc = "set" /\ target > nOfStates
            /\ durationArray' = [i \in States |-> FirstEstimate(i)]
            /\ sum' = SumFunction(durationArray')
            /\ pc' = "loop"
            /\ UNCHANGED <<label, engines, mean, vari, iw, target, state, duration,
                           corrupted>>

(* loop estimation; both searches start at the second state *)
Lengthen(j) == /\ pc = "loop" /\ target > sum
               /\ sum' = sum + 1
               /\ durationArray' = [durationArray EXCEPT ![j] = @ + 1]
               /\ UNCHANGED <<pc, label, engines, mean, vari, iw, target, state,
                              duration, corrupted>>

Flexible == {i \in States \ {1} : durationArray[i] > 1}

Shorten(j) == /\ pc = "loop" /\ target < sum
              /\ j \in Flexible
              /\ sum' = sum - 1
              /\ durationArray' = [durationArray EXCEPT ![j] = @ - 1]
              /\ UNCHANGED <<pc, label, engines, mean, vari, iw, target, state,
                             duration, corrupted>>

(* mutant of ShortenNone: only the sum of a found state is kept *)
ShortenForever == /\ pc = "loop" /\ target < sum
                  /\ Flexible = {}
                  /\ corrupted' = TRUE
                  /\ UNCHANGED <<pc, label, engines, mean, vari, iw, target, sum,
                                 durationArray, state, duration>>

(* no state qualifies: j is still -1 *)
ShortenNone == /\ pc = "loop" /\ target < sum
               /\ Flexible = {}
               /\ sum' = sum - 1
               /\ corrupted' = TRUE
               /\ UNCHANGED <<pc, label, engines, mean, vari, iw, target,
                              durationArray, state, duration>>

LoopDone == /\ pc = "loop" /\ target = sum
            /\ duration' = target
            /\ pc' = "add"
            /\ UNCHANGED <<label, engines, mean, vari, iw, target, sum,
                           durationArray, state, corrupted>>

(* The weighted durations of this engine are added to the states. *)
AddDurations == /\ pc = "add"
                /\ state' = [i \in States |-> state[i] + iw * durationArray[i]]
                /\ engines' = engines + 1
                /\ pc' = "engine"
                /\ mean' = NoData /\ vari' = NoData /\ iw' = 1
                /\ target' = 0 /\ sum' = 0
                /\ UNCHANGED <<label, durationArray, duration, corrupted>>

(* updateDuration( updateFunction, action ) *)
Actions == {"noaction", "overwrite", "shift", "scale"}
Updated(action, value, d) == CASE action = "overwrite" -> value
                               [] action = "shift" -> d + value
                               [] action = "scale" -> d * value
                               [] OTHER -> d
Positive(d) == IF d < 0 THEN 1 ELSE d

(* mutant of Fit: what rounding takes away is not looked at *)
FitUnrounded(ds) ==
  LET total == SumFunction(ds)
  IN  IF total > maxDuration
      THEN [i \in States |-> (ds[i] * maxDuration + total - 1) \div total]
      ELSE ds

(* "fix for memory overflow" *)
Fit(ds) ==
  LET total == SumFunction(ds)
  IN  IF total > maxDuration
      THEN [i \in States |-> (ds[i] * maxDuration) \div total] ELSE ds

UpdateDuration(action, values) ==
  /\ pc = "engine" /\ engines > 0
  /\ state' = Fit([i \in States |-> Positive(Updated(action, values[i], state[i]))])
  /\ duration' = SumFunction(state')
  /\ pc' = "done"
  /\ UNCHANGED <<label, engines, mean, vari, iw, target, sum, durationArray,
                 corrupted>>

LoopStep == \/ \E j \in States \ {1} : Lengthen(j) \/ Shorten(j)
            \/ ShortenNone \/ LoopDone

DurationNext ==
  \/ \E m \in [States -> Means], v \in [States -> Varis],
        w \in InterpolationWeights, length \in Lengths : GetDuration(m, v, w, length)
  \/ SetMeans \/ SetOnes \/ Estimate \/ LoopStep \/ AddDurations
  \/ \E a \in Actions, values \in [States -> UpdateValues] : UpdateDuration(a, values)

(* A thread in the correction loop keeps running. *)
DurationSpec == DurationInit /\ [][DurationNext]_vars /\ WF_vars(LoopStep)

-----------------------------------------------------------------------------
(* mHTS_set_duration returns the length it was asked for and really        *)
(* distributed it: the correction loop ends with the sum it keeps equal to *)
(* the sum of the array, every state keeping a frame, unless it wrote      *)
(* outside of the array.                                                   *)
LengthDistributed ==
  pc = "add" /\ target > nOfStates /\ ~corrupted =>
     /\ SumFunction(durationArray) = target /\ duration = target
     /\ \A i \in States : durationArray[i] >= 1

(* What optimizeParameters() relies on when it lays out a window: however  *)
(* engines, negative weights and controls combine, a model's duration is   *)
(* the sum of its states' frames, none of them negative, and at most       *)
(* maxDuration.                                                            *)
DurationIsSum ==
  pc = "done" => /\ duration = SumFunction(state)
                 /\ duration \in 0..maxDuration
                 /\ \A i \in States : state[i] >= 0

(* The correction loop always ends. *)
LoopEnds == pc = "loop" ~> pc = "add"
=============================================================================
