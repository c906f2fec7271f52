------------------------ MODULE StateDurationsProofs ------------------------
(***************************************************************************)
(* Proofs about StateDurations for every number of states, every cap and   *)
(* every set of means, variances, weights and controls: a length is really *)
(* distributed over the states, and a model's duration is the sum of its   *)
(* states' frames and at most the cap.                                     *)
(***************************************************************************)
EXTENDS StateDurations, DataInduction

(* Types, and what the correction loop keeps: unless it wrote outside of   *)
(* the array, its sum is the array's.                                      *)
DurationTypes ==
  /\ pc \in {"engine", "set", "loop", "add", "done"}
  /\ mean \in [States -> Nat] /\ vari \in [States -> Nat]
  /\ iw \in Int /\ target \in Nat /\ sum \in Int
  /\ durationArray \in [States -> Int] /\ state \in [States -> Int]

Distributed == /\ SumFunction(durationArray) = sum
               /\ \A i \in States : durationArray[i] >= 1

LoopOK == /\ pc = "set" => \A i \in States : vari[i] > 0
          /\ pc = "loop" => target > nOfStates
          /\ pc = "loop" /\ ~corrupted => Distributed

DurationInv == DurationTypes /\ LoopOK /\ LengthDistributed /\ DurationIsSum

-----------------------------------------------------------------------------
LEMMA StatesFinite ==
  /\ nOfStates \in Nat \ {0, 1} /\ maxDuration \in Nat
  /\ IsFiniteSet(States) /\ 1 \in States
<1>1. nOfStates \in Nat \ {0, 1} /\ maxDuration \in Nat
  BY StatesAssumption
<1>2. IsFiniteSet(1..nOfStates)
  BY <1>1, FS_Interval
<1> QED BY <1>1, <1>2 DEF States

(* Sums of what is not negative, and of what is positive *)
LEMMA SumNatural ==
  ASSUME NEW f \in [States -> Nat]
  PROVE  SumFunction(f) \in Nat /\ \A j \in States : f[j] <= SumFunction(f)
<1> DEFINE zero == [i \in States |-> 0 * f[i]]
<1>1. f \in [States -> Int] /\ zero \in [States -> Int]
  OBVIOUS
<1>2. SumFunction(f) \in Int
  BY <1>1, StatesFinite, SumInt
<1>3. SumFunction(zero) = 0
  <2>1. SumFunction(zero) = 0 * SumFunction(f)
    BY <1>1, StatesFinite, SumScaled
  <2> QED BY <1>2, <2>1
<1>4. \A i \in States : zero[i] <= f[i]
  OBVIOUS
<1>5. SumFunction(zero) <= SumFunction(f)
  <2> HIDE DEF zero
  <2> QED BY <1>1, <1>4, StatesFinite, SumMonotone
<1>6. ASSUME NEW j \in States PROVE f[j] <= SumFunction(f)
  <2> DEFINE g == [f EXCEPT ![j] = 0]
  <2>1. /\ g \in [States -> Int] /\ g[j] = 0 /\ \A i \in States \ {j} : g[i] = f[i]
        /\ \A i \in States : zero[i] <= g[i]
    OBVIOUS
  <2> HIDE DEF g, zero
  <2>2. SumFunction(g) = SumFunction(f) + g[j] - f[j]
    BY <1>1, <2>1, StatesFinite, SumChanged
  <2>3. SumFunction(zero) <= SumFunction(g)
    BY <1>1, <2>1, StatesFinite, SumMonotone
  <2>4. f[j] \in Nat
    OBVIOUS
  <2> QED BY <1>2, <1>3, <2>1, <2>2, <2>3, <2>4
<1> QED BY <1>2, <1>3, <1>5, <1>6

(* The first estimate is a positive number of frames: the variances' sum   *)
(* it divides by is not zero.                                              *)
LEMMA EstimatePositive ==
  ASSUME DurationInv, pc = "set", NEW i \in States
  PROVE  FirstEstimate(i) \in Int /\ FirstEstimate(i) >= 1
<1> DEFINE V == SumFunction(vari)
           M == SumFunction(mean)
           x == 2 * mean[i] * V + 2 * (target - M) * vari[i] + V
<1>1. mean[i] \in Nat /\ vari[i] \in Nat /\ vari[i] > 0 /\ target \in Nat
  BY DEF DurationInv, DurationTypes, LoopOK
<1>2. V \in Nat /\ vari[i] <= V /\ M \in Nat
  BY SumNatural DEF DurationInv, DurationTypes
<1>3. FirstEstimate(i) = AtLeastOne(x \div (2 * V))
  BY DEF FirstEstimate
<1> HIDE DEF V, M
<1>4. x \in Int /\ 2 * V \in Nat \ {0}
  BY <1>1, <1>2
<1> HIDE DEF x
<1>5. x \div (2 * V) \in Int
  BY <1>4
<1> QED BY <1>3, <1>5 DEF AtLeastOne

(* "fix for memory overflow": rounding down every state's share of the cap *)
(* leaves no more than the cap in all.                                     *)
LEMMA FitWithinCap ==
  ASSUME NEW ds \in [States -> Nat]
  PROVE  /\ Fit(ds) \in [States -> Nat]
         /\ SumFunction(Fit(ds)) \in 0..maxDuration
<1> DEFINE total == SumFunction(ds)
           c == maxDuration
<1>1. total \in Nat /\ c \in Nat
  BY SumNatural, StatesFinite
<1>2. CASE total <= maxDuration
  <2>1. Fit(ds) = ds
    BY <1>1, <1>2 DEF Fit
  <2> QED BY <1>1, <1>2, <2>1
<1>3. CASE total > maxDuration
  <2> DEFINE q == [i \in States |-> (ds[i] * c) \div total]
  <2>1. Fit(ds) = q
    BY <1>3 DEF Fit
  <2>2. ASSUME NEW i \in States
        PROVE  /\ (ds[i] * c) \div total \in Nat
               /\ total * ((ds[i] * c) \div total) <= c * ds[i]
    <3>1. ds[i] \in Nat
      OBVIOUS
    <3> HIDE DEF total, c
    <3>2. total \in Nat \ {0} /\ ds[i] * c \in Nat /\ ds[i] * c = c * ds[i]
      BY <1>1, <1>3, <3>1 DEF c
    <3> DEFINE y == ds[i] * c
    <3>3. y \in Nat /\ y = c * ds[i]
      BY <3>2
    <3> HIDE DEF y
    <3>4. y \div total \in Nat /\ total * (y \div total) <= y
      BY <3>2, <3>3
    <3> QED BY <3>3, <3>4 DEF y
  <2>3. q \in [States -> Nat]
    BY <2>2
  <2> DEFINE left == [i \in States |-> total * q[i]]
             right == [i \in States |-> c * ds[i]]
  <2>4. /\ left \in [States -> Int] /\ right \in [States -> Int]
        /\ \A i \in States : left[i] <= right[i]
    <3>1. \A i \in States : q[i] = (ds[i] * c) \div total /\ q[i] \in Nat /\ ds[i] \in Nat
      BY <2>3
    <3> HIDE DEF q, total, c
    <3> QED BY <1>1, <2>2, <3>1
  <2>5. SumFunction(left) <= SumFunction(right)
    <3> HIDE DEF left, right
    <3> QED BY <2>4, StatesFinite, SumMonotone
  <2>6. q \in [States -> Int] /\ ds \in [States -> Int] /\ total \in Int /\ c \in Int
    BY <1>1, <2>3
  <2>7. SumFunction(left) = total * SumFunction(q)
    <3> HIDE DEF q, total
    <3> QED BY <2>6, StatesFinite, SumScaled
  <2>8. SumFunction(right) = c * total
    BY <2>6, StatesFinite, SumScaled
  <2>9. SumFunction(q) \in Nat
    <3> HIDE DEF q
    <3> QED BY <2>3, SumNatural
  <2>10. SumFunction(q) <= c
    <3> DEFINE Q == SumFunction(q)
    <3>1. Q \in Nat /\ total * Q <= c * total /\ total \in Nat \ {0} /\ c \in Nat
      BY <1>1, <1>3, <2>5, <2>7, <2>8, <2>9
    <3> HIDE DEF Q, total, c
    <3>2. total * (c + 1) = c * total + total
      BY <3>1
    <3>3. ASSUME Q >= c + 1 PROVE total * (c + 1) <= total * Q
      BY <3>1, <3>3
    <3>4. Q <= c
      <4> SUFFICES ASSUME Q >= c + 1 PROVE FALSE
        BY <3>1
      <4>1. c * total \in Nat /\ total * Q \in Nat
        BY <3>1
      <4> QED BY <3>1, <3>2, <3>3, <4>1
    <3> QED BY <3>4 DEF Q
  <2> QED BY <1>1, <2>1, <2>3, <2>9, <2>10
<1> QED BY <1>1, <1>2, <1>3

-----------------------------------------------------------------------------
LEMMA DurationInvInit == DurationInit => DurationInv
<1> SUFFICES ASSUME DurationInit PROVE DurationInv
  OBVIOUS
<1>1. NoData \in [States -> Nat] /\ NoData \in [States -> Int]
  BY DEF NoData
<1>2. DurationTypes
  BY <1>1 DEF DurationInit, DurationTypes
<1> QED BY <1>2 DEF DurationInit, DurationInv, LoopOK, LengthDistributed, DurationIsSum

(* One lemma per group of actions *)
LEMMA GetKeeps ==
  ASSUME DurationInv, NEW m \in [States -> Means], NEW v \in [States -> Varis],
         NEW w \in InterpolationWeights, NEW len \in Lengths,
         GetDuration(m, v, w, len)
  PROVE  DurationInv'
<1>1. /\ m \in [States -> Nat] /\ v \in [States -> Nat] /\ w \in Int /\ len \in Nat
      /\ \A i \in States : v[i] > 0
  <2>1. /\ \A x \in Means : x \in Nat
        /\ \A x \in Varis : x \in Nat /\ x > 0
        /\ w \in Int /\ len \in Nat
    BY DataAssumption
  <2> QED BY <2>1
<1>2. DurationTypes'
  BY <1>1 DEF GetDuration, DurationInv, DurationTypes
<1>3. LoopOK'
  BY <1>1 DEF GetDuration, LoopOK
<1>4. LengthDistributed' /\ DurationIsSum'
  <2>1. pc' = "add" => target' = 0
    BY DEF GetDuration
  <2> QED BY <2>1, StatesFinite DEF GetDuration, LengthDistributed, DurationIsSum
<1> QED BY <1>2, <1>3, <1>4 DEF DurationInv

LEMMA SetKeeps ==
  ASSUME DurationInv, SetMeans \/ SetOnes \/ Estimate
  PROVE  DurationInv'
<1>1. CASE SetMeans
  <2>1. durationArray' \in [States -> Int]
    BY <1>1 DEF SetMeans, DurationInv, DurationTypes, AtLeastOne
  <2>2. DurationTypes'
    BY <1>1, <2>1 DEF SetMeans, DurationInv, DurationTypes
  <2>3. pc' = "add" /\ target' = 0
    BY <1>1 DEF SetMeans
  <2> QED BY <2>2, <2>3, StatesFinite
          DEF DurationInv, LoopOK, LengthDistributed, DurationIsSum
<1>2. CASE SetOnes
  <2>1. durationArray' \in [States -> Int]
    BY <1>2 DEF SetOnes
  <2>2. DurationTypes'
    BY <1>2, <2>1 DEF SetOnes, DurationInv, DurationTypes
  <2>3. pc' = "add" /\ target' <= nOfStates /\ target' \in Nat
    BY <1>2 DEF SetOnes, DurationInv, DurationTypes
  <2> QED BY <2>2, <2>3, StatesFinite
          DEF DurationInv, LoopOK, LengthDistributed, DurationIsSum
<1>3. CASE Estimate
  <2>1. /\ durationArray' \in [States -> Int]
        /\ \A i \in States : durationArray'[i] >= 1
    BY <1>3, EstimatePositive DEF Estimate
  <2>2. sum' = SumFunction(durationArray') /\ pc' = "loop" /\ target' > nOfStates
    BY <1>3 DEF Estimate
  <2>3. sum' \in Int
    BY <2>1, <2>2, StatesFinite, SumInt
  <2>4. DurationTypes'
    BY <1>3, <2>1, <2>3 DEF Estimate, DurationInv, DurationTypes
  <2> QED BY <2>1, <2>2, <2>4
          DEF DurationInv, LoopOK, Distributed, LengthDistributed, DurationIsSum
<1> QED BY <1>1, <1>2, <1>3

LEMMA LoopKeeps ==
  ASSUME DurationInv, LoopStep
  PROVE  DurationInv'
<1>0. pc = "loop" /\ target > nOfStates
  BY DEF LoopStep, Lengthen, Shorten, ShortenNone, LoopDone, DurationInv, LoopOK
<1>1. ASSUME NEW j \in States \ {1}, Lengthen(j) \/ Shorten(j) PROVE DurationInv'
  <2> DEFINE e == sum' - sum
  <2>1. /\ sum' = sum + e /\ e \in {-1, 1} /\ sum \in Int
        /\ durationArray' = [durationArray EXCEPT ![j] = @ + e]
        /\ durationArray[j] > 1 \/ e = 1
        /\ UNCHANGED <<pc, mean, vari, iw, target, state, duration, corrupted>>
    BY <1>1 DEF Lengthen, Shorten, Flexible, DurationInv, DurationTypes
  <2> HIDE DEF e
  <2>2. /\ durationArray \in [States -> Int] /\ j \in States
        /\ durationArray' \in [States -> Int] /\ durationArray[j] \in Int
        /\ durationArray'[j] = durationArray[j] + e
        /\ \A i \in States \ {j} : durationArray'[i] = durationArray[i]
    BY <2>1 DEF DurationInv, DurationTypes
  <2>3. SumFunction(durationArray') = SumFunction(durationArray) + e
    <3>1. SumFunction(durationArray')
            = SumFunction(durationArray) + durationArray'[j] - durationArray[j]
      BY <2>2, StatesFinite, SumChanged
    <3>2. SumFunction(durationArray) \in Int
      BY <2>2, StatesFinite, SumInt
    <3> QED BY <2>1, <2>2, <3>1, <3>2
  <2>4. DurationTypes'
    BY <2>1, <2>2 DEF DurationInv, DurationTypes
  <2>5. ASSUME ~corrupted PROVE Distributed'
    <3>1. Distributed
      BY <1>0, <2>5 DEF DurationInv, LoopOK
    <3>2. SumFunction(durationArray') = sum'
      BY <2>1, <2>3, <3>1 DEF Distributed
    <3>3. durationArray'[j] >= 1
      BY <2>1, <2>2, <3>1 DEF Distributed
    <3>4. \A i \in States : durationArray'[i] >= 1
      BY <2>2, <3>1, <3>3 DEF Distributed
    <3> QED BY <3>2, <3>4 DEF Distributed
  <2> QED BY <1>0, <2>1, <2>4, <2>5
          DEF DurationInv, LoopOK, LengthDistributed, DurationIsSum
<1>2. CASE ShortenNone
  <2>1. DurationTypes'
    BY <1>2 DEF ShortenNone, DurationInv, DurationTypes
  <2> QED BY <1>0, <1>2, <2>1
          DEF ShortenNone, DurationInv, LoopOK, LengthDistributed, DurationIsSum
<1>3. CASE LoopDone
  <2>1. DurationTypes'
    BY <1>3 DEF LoopDone, DurationInv, DurationTypes
  <2>2. /\ pc' = "add" /\ duration' = target /\ target' = target /\ sum = target
        /\ durationArray' = durationArray /\ corrupted' = corrupted
    BY <1>3 DEF LoopDone
  <2>3. LengthDistributed'
    BY <1>0, <2>2 DEF DurationInv, LoopOK, Distributed, LengthDistributed
  <2> QED BY <2>1, <2>2, <2>3 DEF DurationInv, LoopOK, DurationIsSum
<1> QED BY <1>1, <1>2, <1>3 DEF LoopStep

LEMMA AddKeeps ==
  ASSUME DurationInv, AddDurations
  PROVE  DurationInv'
<1>1. state' \in [States -> Int]
  <2>1. \A i \in States : state[i] + iw * durationArray[i] \in Int
    BY DEF DurationInv, DurationTypes
  <2> QED BY <2>1 DEF AddDurations
<1>2. DurationTypes'
  BY <1>1 DEF AddDurations, DurationInv, DurationTypes, NoData
<1> QED BY <1>2 DEF AddDurations, DurationInv, LoopOK, LengthDistributed, DurationIsSum

LEMMA UpdateKeeps ==
  ASSUME DurationInv, NEW a \in Actions, NEW values \in [States -> UpdateValues],
         UpdateDuration(a, values)
  PROVE  DurationInv'
<1> DEFINE ds == [i \in States |-> Positive(Updated(a, values[i], state[i]))]
<1>1. ds \in [States -> Nat]
  <2> SUFFICES ASSUME NEW i \in States
               PROVE  Positive(Updated(a, values[i], state[i])) \in Nat
    OBVIOUS
  <2>1. values[i] \in Int /\ state[i] \in Int
    BY DataAssumption DEF DurationInv, DurationTypes
  <2>2. Updated(a, values[i], state[i]) \in Int
    BY <2>1 DEF Updated, Actions
  <2> QED BY <2>2 DEF Positive
<1>2. state' = Fit(ds) /\ duration' = SumFunction(state') /\ pc' = "done"
  BY DEF UpdateDuration
<1> HIDE DEF ds
<1>3. state' \in [States -> Nat] /\ duration' \in 0..maxDuration
  BY <1>1, <1>2, FitWithinCap
<1>4. state' \in [States -> Int] /\ \A i \in States : state'[i] >= 0
  BY <1>3
<1>5. DurationTypes'
  BY <1>2, <1>4 DEF UpdateDuration, DurationInv, DurationTypes
<1> QED BY <1>2, <1>3, <1>4, <1>5
        DEF DurationInv, LoopOK, LengthDistributed, DurationIsSum

LEMMA DurationInvInductive == DurationSpec => []DurationInv
<1>1. DurationInv /\ [DurationNext]_vars => DurationInv'
  <2> SUFFICES ASSUME DurationInv, [DurationNext]_vars PROVE DurationInv'
    OBVIOUS
  <2>1. CASE UNCHANGED vars
    BY <2>1 DEF vars, DurationInv, DurationTypes, LoopOK, Distributed,
                LengthDistributed, DurationIsSum
  <2>2. CASE DurationNext
    BY <2>2, GetKeeps, SetKeeps, LoopKeeps, AddKeeps, UpdateKeeps DEF DurationNext
  <2> QED BY <2>1, <2>2
<1> QED BY <1>1, DurationInvInit, PTL DEF DurationSpec

-----------------------------------------------------------------------------
(* mHTS_set_duration distributes exactly the length it was asked for, a    *)
(* frame or more to every state, unless it wrote outside of the array.     *)
THEOREM LengthsAreDistributed == DurationSpec => []LengthDistributed
<1>1. DurationInv => LengthDistributed
  BY DEF DurationInv
<1> QED BY <1>1, DurationInvInductive, PTL

(* However engines, negative weights and controls combine, a model's       *)
(* duration is the sum of its states' frames, none of them negative, and   *)
(* at most maxDuration.                                                    *)
THEOREM DurationsAreSums == DurationSpec => []DurationIsSum
<1>1. DurationInv => DurationIsSum
  BY DEF DurationInv
<1> QED BY <1>1, DurationInvInductive, PTL
=============================================================================
