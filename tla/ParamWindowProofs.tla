------------------------- MODULE ParamWindowProofs -------------------------
(***************************************************************************)
(* Proofs about parameter generation for every window, number of states,   *)
(* set of durations and way voiced and unvoiced states alternate: the rows *)
(* optimizeParameters() writes and the ones generate() takes are the same, *)
(* in the spectrum and in the pitch.                                       *)
(***************************************************************************)
EXTENDS ParamWindow, DataInduction

(* The frames of models, and the voiced ones                               *)
Frame == [model : Nat, state : Nat, q : Nat, voiced : BOOLEAN]
VoicedFrames == {f \in Frame : f.voiced}

(* A full window of the longest models fits into ModelQueueMemory.         *)
LEMMA WindowCapacity ==
  /\ maxDuration \in Nat
  /\ (nOfBackup + nOfLookup + 1) * maxDuration <= maxNumOfFrames
<1> DEFINE w == nOfBackup + nOfLookup + 1
<1>1. w \in Nat \ {0} /\ maxNumOfFrames \in Nat
  BY WindowAssumption, MemoryAssumption
<1>2. maxDuration = maxNumOfFrames \div w
  BY DEF maxDuration
<1> HIDE DEF w
<1>3. maxDuration \in Nat /\ w * maxDuration <= maxNumOfFrames
  BY <1>1, <1>2
<1> QED BY <1>3 DEF w

(* The frames of a model                                                   *)
LEMMA FramesOfType ==
  ASSUME NEW n \in Nat, NEW states \in ModelStates
  PROVE  FramesOf(n, states) \in Seq(Frame)
<1> USE WindowAssumption
<1> DEFINE Fr(s, q) == [model |-> n, state |-> s, q |-> q, voiced |-> states[s].voiced]
           Part(s) == [q \in 1..states[s].duration |-> Fr(s, q)]
           parts == [s \in 1..nOfStates |-> Part(s)]
<1>1. ASSUME NEW s \in 1..nOfStates
      PROVE  Part(s) \in Seq(Frame)
  <2>1. states[s] \in [duration : StateDurations, voiced : BOOLEAN]
    BY DEF ModelStates
  <2>2. states[s].duration \in Nat
    BY <2>1
  <2>3. \A q \in 1..states[s].duration : Fr(s, q) \in Frame
    BY <2>1, <2>2 DEF Frame
  <2> HIDE DEF Fr
  <2> QED BY <2>2, <2>3
<1>2. parts \in Seq(Seq(Frame))
  BY <1>1
<1>3. FramesOf(n, states) = FlattenSeq(parts)
  BY DEF FramesOf
<1> QED BY <1>2, <1>3, FlattenType

(* The voiced frames are those kept of a sequence of frames.               *)
LEMMA VoicedIsKept ==
  ASSUME NEW fs \in Seq(Frame)
  PROVE  Voiced(fs) = Kept(fs, VoicedFrames)
<1>1. \A k \in DOMAIN fs : fs[k] \in Frame
  BY ElementOfSeq, LenProperties
<1>2. \A k \in DOMAIN fs : fs[k].voiced <=> fs[k] \in VoicedFrames
  BY <1>1 DEF VoicedFrames
<1>3. [k \in DOMAIN fs |-> IF fs[k].voiced THEN <<fs[k]>> ELSE <<>>]
        = [k \in DOMAIN fs |-> IF fs[k] \in VoicedFrames THEN <<fs[k]>> ELSE <<>>]
  BY <1>2
<1> QED BY <1>3 DEF Voiced, Kept

(* The frames in front of a voiced one that are voiced themselves are as   *)
(* many as the rows before its own.                                        *)
LEMMA VoicedRow ==
  ASSUME NEW fs \in Seq(Frame), NEW f \in DOMAIN fs, fs[f].voiced
  PROVE  /\ MsdRow(fs, f) \in 0..(Len(Voiced(fs)) - 1)
         /\ Voiced(fs)[MsdRow(fs, f) + 1] = fs[f]
<1>1. f \in 1..Len(fs) /\ fs[f] \in Frame /\ \A i \in 1..Len(fs) : fs[i] \in Frame
  BY ElementOfSeq, LenProperties
<1>2. fs[f] \in VoicedFrames
  BY <1>1 DEF VoicedFrames
<1> DEFINE a == SubSeq(fs, 1, f - 1)
<1>3. a \in Seq(Frame)
  <2>1. 1 \in Int /\ f - 1 \in Int /\ \A i \in 1..(f - 1) : fs[i] \in Frame
    BY <1>1
  <2> QED BY <2>1, SubSeqProperties
<1>4. MsdRow(fs, f) = Len(Kept(a, VoicedFrames))
  BY <1>3, VoicedIsKept DEF MsdRow
<1>5. Voiced(fs) = Kept(fs, VoicedFrames)
  BY VoicedIsKept
<1>6. /\ Len(Kept(a, VoicedFrames)) \in 0..(Len(Kept(fs, VoicedFrames)) - 1)
      /\ Kept(fs, VoicedFrames)[Len(Kept(a, VoicedFrames)) + 1] = fs[f]
  BY <1>1, <1>2, KeptAt
<1> QED BY <1>4, <1>5, <1>6

(* One frame further: one row further when the frame is voiced.            *)
LEMMA VoicedNext ==
  ASSUME NEW fs \in Seq(Frame), NEW f \in 1..Len(fs)
  PROVE  MsdRow(fs, f + 1) = MsdRow(fs, f) + IF fs[f].voiced THEN 1 ELSE 0
<1> DEFINE a == SubSeq(fs, 1, f - 1)
           b == SubSeq(fs, 1, f)
           x == fs[f]
<1>1. \A i \in 1..Len(fs) : fs[i] \in Frame
  BY ElementOfSeq
<1>2. a \in Seq(Frame) /\ x \in Frame /\ Len(fs) \in Nat
  <2>1. 1 \in Int /\ f - 1 \in Int /\ \A i \in 1..(f - 1) : fs[i] \in Frame
    BY <1>1
  <2> QED BY <1>1, <2>1, SubSeqProperties, LenProperties
<1>3. b = Append(a, x)
  <2>1. 1 \in 1..Len(fs) /\ f \in 1..Len(fs)
    BY <1>2
  <2>2. b = a \o <<x>>
    BY <2>1, SubSeqRecursiveSecond
  <2> HIDE DEF a, b, x
  <2> QED BY <1>2, <2>2, AppendIsConcat
<1>4. (f + 1) - 1 = f
  BY <1>2
<1>5. MsdRow(fs, f + 1) = Len(Voiced(b)) /\ MsdRow(fs, f) = Len(Voiced(a))
  BY <1>4 DEF MsdRow
<1> HIDE DEF a, b, x
<1>6. b \in Seq(Frame)
  BY <1>2, <1>3, AppendProperties
<1>7. Voiced(b) = Kept(b, VoicedFrames) /\ Voiced(a) = Kept(a, VoicedFrames)
  BY <1>2, <1>6, VoicedIsKept
<1>8. Kept(b, VoicedFrames) = IF x \in VoicedFrames THEN Append(Kept(a, VoicedFrames), x)
                              ELSE Kept(a, VoicedFrames)
  BY <1>2, <1>3, KeptAppend
<1>9. Kept(a, VoicedFrames) \in Seq(Frame)
  BY <1>2, KeptType
<1>10. Len(Append(Kept(a, VoicedFrames), x)) = Len(Kept(a, VoicedFrames)) + 1
       /\ Len(Kept(a, VoicedFrames)) \in Nat
  BY <1>2, <1>9, AppendProperties, LenProperties
<1>11. x \in VoicedFrames <=> fs[f].voiced
  BY <1>2 DEF VoicedFrames, x
<1> QED BY <1>5, <1>7, <1>8, <1>10, <1>11

(* There is a row for every frame and for every voiced frame of a window.  *)
LEMMA WindowFrames ==
  ASSUME NEW ms \in Seq(Seq(Frame)), \A k \in DOMAIN ms : Len(ms[k]) <= maxDuration,
         Len(ms) <= nOfLookup + nOfBackup + 1
  PROVE  /\ FlattenSeq(ms) \in Seq(Frame)
         /\ Len(FlattenSeq(ms)) \in 0..maxNumOfFrames
         /\ Voiced(FlattenSeq(ms)) \in Seq(Frame)
         /\ Len(Voiced(FlattenSeq(ms))) \in 0..Len(FlattenSeq(ms))
<1> USE WindowAssumption, MemoryAssumption
<1> DEFINE fs == FlattenSeq(ms)
<1>1. fs \in Seq(Frame) /\ Len(ms) \in Nat
  BY FlattenType, LenProperties
<1>2. Len(fs) <= Len(ms) * maxDuration
  BY FlattenLength, WindowCapacity
<1>3. Len(ms) * maxDuration <= (nOfBackup + nOfLookup + 1) * maxDuration
  <2> DEFINE n == Len(ms)
             w == nOfBackup + nOfLookup + 1
             m == maxDuration
  <2>1. n \in Nat /\ w \in Nat /\ m \in Nat /\ n <= w
    BY <1>1, WindowCapacity
  <2> HIDE DEF n, w, m
  <2>2. n * m <= w * m
    BY <2>1
  <2> QED BY <2>2 DEF n, w, m
<1> HIDE DEF fs
<1>4. Len(fs) \in Nat
  BY <1>1, LenProperties
<1>5. Len(fs) \in 0..maxNumOfFrames
  <2>1. Len(ms) * maxDuration \in Int /\ (nOfBackup + nOfLookup + 1) * maxDuration \in Int
    BY <1>1, WindowCapacity
  <2> DEFINE a == Len(ms) * maxDuration
             b == (nOfBackup + nOfLookup + 1) * maxDuration
  <2>2. a \in Int /\ b \in Int /\ Len(fs) <= a /\ a <= b /\ b <= maxNumOfFrames
    BY <1>2, <1>3, <2>1, WindowCapacity DEF fs
  <2> HIDE DEF a, b
  <2> QED BY <1>4, <2>2
<1>6. Voiced(fs) = Kept(fs, VoicedFrames)
  BY <1>1, VoicedIsKept
<1>7. Voiced(fs) \in Seq(Frame) /\ Len(Voiced(fs)) \in 0..Len(fs)
  BY <1>1, <1>6, KeptType, KeptLength
<1> QED BY <1>1, <1>5, <1>7 DEF fs

-----------------------------------------------------------------------------
(* The frames of the window: all models of the queue                       *)
Frames == FlattenSeq(models)

(* What optimizeParameters() left: rows, lengths and dynamic rows          *)
RowsFilled ==
  /\ \A r \in Rows : /\ r < Len(Frames) =>
                          par["mgc"][r] = [frame |-> Frames[r + 1], window |-> pushed]
                     /\ r < Len(Voiced(Frames)) =>
                          par["lf0"][r] = [frame |-> Voiced(Frames)[r + 1], window |-> pushed]
  /\ length["mgc"] = Len(Frames) /\ length["lf0"] = Len(Voiced(Frames))
  /\ dynamic["mgc"] = {f - 1 : f \in NotBound(Frames)}
  /\ dynamic["lf0"] = {MsdRow(Frames, f) : f \in NotBoundMSD(Frames)}

(* Where generate() is: the frames still to do follow in the window, and   *)
(* the row of each stream is the one of the frame that comes next.         *)
WalkInStep ==
  /\ todo \in Seq(Frame)
  /\ qStream["mgc"] \in Nat
  /\ qStream["mgc"] + Len(todo) <= Len(Frames)
  /\ \A k \in 1..Len(todo) : todo[k] = Frames[qStream["mgc"] + k]
  /\ qStream["lf0"] = MsdRow(Frames, qStream["mgc"] + 1)

WindowInv == /\ ParamTypeOK
             /\ models \in Seq(Seq(Frame))
             /\ \A k \in DOMAIN models : Len(models[k]) <= maxDuration
             /\ pc = "push" => Len(models) <= nOfLookup + nOfBackup
             /\ pc # "push" => Len(models) > nOfLookup
             /\ pc \in {"generate", "frames"} => RowsFilled
             /\ pc = "frames" => WalkInStep
             /\ FramesFromOwnRows

(* The window optimizeParameters() works on is the whole queue.            *)
LEMMA WholeWindow ==
  ASSUME WindowInv, pc # "push"
  PROVE  /\ Backup \in Nat /\ Backup + nOfLookup + 1 = Len(models) /\ Len(models) \in Nat
         /\ SubSeq(models, 1, Backup + nOfLookup + 1) = models
         /\ Frames \in Seq(Frame) /\ Len(Frames) \in 0..maxNumOfFrames
         /\ Voiced(Frames) \in Seq(Frame)
         /\ Len(Voiced(Frames)) \in 0..Len(Frames)
<1> USE WindowAssumption
<1>1. Len(models) \in Nat /\ Len(models) <= nOfLookup + nOfBackup + 1
      /\ Len(models) > nOfLookup
  BY LenProperties DEF WindowInv, ParamTypeOK
<1>2. Backup \in Nat /\ Backup + nOfLookup + 1 = Len(models)
  BY <1>1 DEF Backup, FullWindow
<1>3. SubSeq(models, 1, Backup + nOfLookup + 1) = models
  BY <1>2, SubSeqFull DEF WindowInv
<1>4. /\ Frames \in Seq(Frame) /\ Len(Frames) \in 0..maxNumOfFrames
      /\ Voiced(Frames) \in Seq(Frame) /\ Len(Voiced(Frames)) \in 0..Len(Frames)
  BY <1>1, WindowFrames DEF WindowInv, Frames
<1> QED BY <1>1, <1>2, <1>3, <1>4

(* Nothing is in the window at first.                                      *)
LEMMA WindowInvInit == ParamInit => WindowInv
<1> SUFFICES ASSUME ParamInit PROVE WindowInv
  OBVIOUS
<1> USE WindowAssumption, MemoryAssumption DEF ParamInit
<1>1. models \in Seq(Seq(Frame)) /\ Len(models) = 0 /\ DOMAIN models = {}
  OBVIOUS
<1>2. ParamTypeOK
  BY <1>1 DEF ParamTypeOK
<1> QED BY <1>1, <1>2 DEF WindowInv, FramesFromOwnRows

(* A model is pushed while there is room for it.                           *)
LEMMA PushModelStep ==
  ASSUME WindowInv, NEW states \in ModelStates, PushModel(states)
  PROVE  WindowInv'
<1> USE WindowAssumption
<1> DEFINE m == FramesOf(pushed + 1, states)
<1>1. /\ pc = "push" /\ pushed < MaxModels /\ pushed' = pushed + 1
      /\ models' = Append(models, m)
      /\ pc' = IF Len(models') > nOfLookup THEN "optimize" ELSE "push"
      /\ par' = par /\ length' = length /\ dynamic' = dynamic /\ qStream' = qStream
  BY DEF PushModel
<1>2. pushed \in 0..MaxModels
  BY DEF WindowInv, ParamTypeOK
<1>3. m \in Seq(Frame) /\ Len(m) <= maxDuration
  <2>1. pushed + 1 \in Nat
    BY <1>2
  <2>2. Len(m) <= maxDuration
    BY DEF PushModel
  <2> QED BY <2>1, <2>2, FramesOfType
<1> HIDE DEF m
<1> DEFINE Y == Seq(Frame)
<1>4. models \in Seq(Y) /\ m \in Y /\ Len(models) \in Nat /\ DOMAIN models = 1..Len(models)
      /\ \A k \in DOMAIN models : Len(models[k]) <= maxDuration
  BY <1>3, LenProperties DEF WindowInv
<1> HIDE DEF Y
<1>5. /\ models' \in Seq(Y) /\ Len(models') = Len(models) + 1
      /\ DOMAIN models' = 1..(Len(models) + 1)
      /\ \A k \in 1..Len(models) : models'[k] = models[k]
      /\ models'[Len(models) + 1] = m
  BY <1>1, <1>4, AppendProperties, LenProperties
<1>6. \A k \in DOMAIN models' : Len(models'[k]) <= maxDuration
  BY <1>3, <1>4, <1>5
<1>7. Len(models) <= nOfLookup + nOfBackup
  BY <1>1 DEF WindowInv
<1>8. pushed' \in 0..MaxModels /\ Len(models') <= nOfLookup + nOfBackup + 1
  BY <1>1, <1>2, <1>4, <1>5, <1>7
<1>9. pc' \in {"push", "optimize"} /\ (pc' = "push" <=> ~(Len(models') > nOfLookup))
  BY <1>1
<1>10. ParamTypeOK'
  BY <1>1, <1>8, <1>9 DEF WindowInv, ParamTypeOK, Rows
<1>11. pc' = "push" => Len(models') <= nOfLookup + nOfBackup
  BY <1>4, <1>5, <1>9
<1> QED BY <1>5, <1>6, <1>9, <1>10, <1>11 DEF WindowInv, FramesFromOwnRows, Y

(* optimizeParameters() fills the rows of the window.                      *)
LEMMA OptimizeStep == WindowInv /\ OptimizeParameters => WindowInv' /\ RowsFilled'
<1> SUFFICES ASSUME WindowInv, OptimizeParameters PROVE WindowInv' /\ RowsFilled'
  OBVIOUS
<1> USE WindowAssumption, MemoryAssumption
<1> DEFINE fs == Frames
<1>0. pc = "optimize"
  BY DEF OptimizeParameters
<1>1. /\ fs \in Seq(Frame) /\ Len(fs) \in 0..maxNumOfFrames
      /\ Voiced(fs) \in Seq(Frame) /\ Len(Voiced(fs)) \in 0..Len(fs)
      /\ FlattenSeq(SubSeq(models, 1, Backup + nOfLookup + 1)) = fs
  BY <1>0, WholeWindow DEF Frames
<1>2. /\ pc' = "generate" /\ models' = models /\ pushed' = pushed
      /\ qStream' = qStream /\ Frames' = fs
      /\ par' = [mgc |-> WriteRows(par.mgc, fs), lf0 |-> WriteRows(par.lf0, Voiced(fs))]
      /\ length' = [mgc |-> Len(fs), lf0 |-> Len(Voiced(fs))]
      /\ dynamic' = [mgc |-> {f - 1 : f \in NotBound(fs)},
                     lf0 |-> {MsdRow(fs, f) : f \in NotBoundMSD(fs)}]
  BY <1>1 DEF OptimizeParameters, Frames
<1> HIDE DEF fs
<1>3. /\ par'["mgc"] = WriteRows(par.mgc, fs) /\ par'["lf0"] = WriteRows(par.lf0, Voiced(fs))
      /\ length'["mgc"] = Len(fs) /\ length'["lf0"] = Len(Voiced(fs))
      /\ dynamic'["mgc"] = {f - 1 : f \in NotBound(fs)}
      /\ dynamic'["lf0"] = {MsdRow(fs, f) : f \in NotBoundMSD(fs)}
      /\ DOMAIN par' = Streams
  BY <1>2 DEF Streams
<1>4. RowsFilled'
  BY <1>2, <1>3 DEF RowsFilled, WriteRows
<1>5. dynamic'["mgc"] \subseteq Rows
  BY <1>1, <1>3 DEF NotBound, Rows
<1>6. dynamic'["lf0"] \subseteq Rows
  <2> SUFFICES ASSUME NEW f \in NotBoundMSD(fs) PROVE MsdRow(fs, f) \in Rows
    BY <1>3
  <2>1. f \in DOMAIN fs /\ fs[f].voiced
    BY DEF NotBoundMSD
  <2>2. MsdRow(fs, f) \in 0..(Len(Voiced(fs)) - 1)
    BY <1>1, <2>1, VoicedRow
  <2> QED BY <1>1, <2>2 DEF Rows
<1>7. ParamTypeOK'
  <2>1. length'["mgc"] \in 0..maxNumOfFrames /\ length'["lf0"] \in 0..maxNumOfFrames
    BY <1>1, <1>3
  <2>2. \A i \in Streams : /\ length'[i] \in 0..maxNumOfFrames
                           /\ dynamic'[i] \subseteq Rows
    BY <1>5, <1>6, <2>1 DEF Streams
  <2> QED BY <1>2, <1>3, <2>2 DEF WindowInv, ParamTypeOK, Rows
<1> QED BY <1>0, <1>2, <1>4, <1>7 DEF WindowInv, FramesFromOwnRows

(* generate() starts at the rows of the current model: as many frames as   *)
(* the models before it have, and as many voiced ones.                     *)
LEMMA StartStep == WindowInv /\ StartGenerate => WindowInv'
<1> SUFFICES ASSUME WindowInv, StartGenerate PROVE WindowInv'
  OBVIOUS
<1> USE WindowAssumption, MemoryAssumption
<1> DEFINE Y == Seq(Frame)
           n == Len(models)
           b == Backup
           pre == SubSeq(models, 1, b)
           cur == models[b + 1]
           post == SubSeq(models, b + 2, n)
           P == FlattenSeq(pre)
           Q == FlattenSeq(post)
<1>0. pc = "generate" /\ pc' = "frames" /\ models' = models /\ pushed' = pushed
      /\ par' = par /\ length' = length /\ dynamic' = dynamic /\ pushing' = NoPush
      /\ todo' = cur /\ qStream' = [i \in Streams |-> Skipped(i)]
  BY DEF StartGenerate
<1>1. /\ b \in Nat /\ b + nOfLookup + 1 = n /\ n \in Nat /\ models \in Seq(Y)
      /\ Frames \in Seq(Frame) /\ Len(Frames) \in 0..maxNumOfFrames
      /\ Len(Voiced(Frames)) \in 0..Len(Frames) /\ \A k \in 1..n : models[k] \in Y
  <2>1. models \in Seq(Y)
    BY DEF WindowInv
  <2>2. \A k \in 1..n : models[k] \in Y
    BY <2>1, ElementOfSeq
  <2> HIDE DEF Y
  <2> QED BY <1>0, <2>1, <2>2, WholeWindow
<1>2. pre \in Seq(Y) /\ post \in Seq(Y) /\ cur \in Y /\ cur \in Seq(Frame)
  <2>1. /\ 1 \in Int /\ b \in Int /\ b + 2 \in Int /\ n \in Int
        /\ \A i \in 1..b : models[i] \in Y
        /\ \A i \in (b + 2)..n : models[i] \in Y
    BY <1>1
  <2>2. b + 1 \in 1..n
    BY <1>1
  <2> QED BY <1>1, <2>1, <2>2, SubSeqProperties
<1>3. models = (pre \o <<cur>>) \o post
  <2>1. SubSeq(models, 1, b + 1) = SubSeq(models, 1, (b + 1) - 1) \o <<models[b + 1]>>
    <3>1. 1 \in 1..Len(models) /\ b + 1 \in 1..Len(models)
      BY <1>1
    <3> QED BY <1>1, <3>1, SubSeqRecursiveSecond
  <2>2. (b + 1) - 1 = b /\ (b + 1) + 1 = b + 2
    BY <1>1
  <2>3. SubSeq(models, 1, b + 1) \o SubSeq(models, (b + 1) + 1, Len(models))
          = SubSeq(models, 1, Len(models))
    <3>1. /\ 1 \in 1..(Len(models) + 1) /\ b + 1 \in (1 - 1)..Len(models)
          /\ Len(models) \in (b + 1)..Len(models)
      BY <1>1
    <3> QED BY <1>1, <3>1, ConcatAdjacentSubSeq
  <2>4. SubSeq(models, 1, Len(models)) = models
    BY <1>1, SubSeqFull
  <2> QED BY <2>1, <2>2, <2>3, <2>4
<1> HIDE DEF pre, post, cur, b, n
<1>4. Frames = (P \o cur) \o Q /\ P \in Seq(Frame) /\ Q \in Seq(Frame)
  <2>1. <<cur>> \in Seq(Y) /\ pre \o <<cur>> \in Seq(Y)
    <3> HIDE DEF Y
    <3>1. <<cur>> \in Seq(Y)
      BY <1>2
    <3> QED BY <1>2, <3>1, ConcatProperties
  <2>2. FlattenSeq(pre \o <<cur>>) = P \o cur
    <3>1. FlattenSeq(pre \o <<cur>>) = P \o FlattenSeq(<<cur>>)
      BY <1>2, <2>1, FlattenConcat
    <3>2. FlattenSeq(<<cur>>) = cur
      BY <1>2, FlattenOne
    <3> QED BY <3>1, <3>2
  <2>3. FlattenSeq((pre \o <<cur>>) \o post) = FlattenSeq(pre \o <<cur>>) \o Q
    BY <1>2, <2>1, FlattenConcat
  <2>4. P \in Seq(Frame) /\ Q \in Seq(Frame)
    BY <1>2, FlattenType
  <2> QED BY <1>3, <2>2, <2>3, <2>4 DEF Frames
<1>5. qStream'["mgc"] = Len(P) /\ qStream'["lf0"] = Len(Voiced(P))
  BY <1>0 DEF Streams, Skipped, pre, b
<1> HIDE DEF P, Q
<1>6. /\ Len(P) \in Nat /\ Len(cur) \in Nat /\ Len(Q) \in Nat
      /\ P \o cur \in Seq(Frame) /\ Len(P \o cur) = Len(P) + Len(cur)
      /\ \A i \in 1..(Len(P) + Len(cur)) : (P \o cur)[i] =
            IF i <= Len(P) THEN P[i] ELSE cur[i - Len(P)]
  BY <1>2, <1>4, ConcatProperties, LenProperties
<1>7. /\ Len(Frames) = Len(P) + Len(cur) + Len(Q)
      /\ \A i \in 1..(Len(P) + Len(cur)) : Frames[i] = (P \o cur)[i]
  <2> DEFINE c == P \o cur
  <2>1. c \in Seq(Frame) /\ Len(c) = Len(P) + Len(cur) /\ Frames = c \o Q
    BY <1>4, <1>6
  <2> HIDE DEF c
  <2>2. /\ Len(c \o Q) = Len(c) + Len(Q)
        /\ \A i \in 1..(Len(c) + Len(Q)) : (c \o Q)[i] =
              IF i <= Len(c) THEN c[i] ELSE Q[i - Len(c)]
    BY <1>4, <2>1, ConcatProperties
  <2> QED BY <1>6, <2>1, <2>2 DEF c
<1>8. \A k \in 1..Len(cur) : cur[k] = Frames[Len(P) + k]
  BY <1>6, <1>7
<1>9. SubSeq(Frames, 1, Len(P)) = P
  <2>1. \A i \in 1..Len(P) : Frames[i] = P[i] /\ P[i] \in Frame
    BY <1>4, <1>6, <1>7, ElementOfSeq
  <2>2. 1 \in Int /\ Len(P) \in Int /\ \A i \in 1..Len(P) : Frames[i] \in Frame
    BY <1>6, <2>1
  <2> DEFINE u == SubSeq(Frames, 1, Len(P))
  <2>3. /\ u \in Seq(Frame) /\ Len(u) = IF 1 <= Len(P) THEN Len(P) - 1 + 1 ELSE 0
        /\ \A i \in 1..(Len(P) - 1 + 1) : u[i] = Frames[1 + i - 1]
    BY <2>2, SubSeqProperties
  <2> HIDE DEF u
  <2>4. Len(u) = Len(P) /\ \A i \in 1..Len(P) : u[i] = P[i]
    BY <1>6, <2>1, <2>3
  <2>5. u = P
    BY <1>4, <2>3, <2>4, SeqEqual
  <2> QED BY <2>5 DEF u
<1>10. MsdRow(Frames, Len(P) + 1) = Len(Voiced(P))
  <2>1. (Len(P) + 1) - 1 = Len(P)
    BY <1>6
  <2> QED BY <1>9, <2>1 DEF MsdRow
<1>11. WalkInStep'
  <2>1. Frames' = Frames
    BY <1>0 DEF Frames
  <2>2. /\ todo' \in Seq(Frame) /\ qStream'["mgc"] \in Nat
        /\ qStream'["mgc"] + Len(todo') <= Len(Frames)
        /\ \A k \in 1..Len(todo') : todo'[k] = Frames[qStream'["mgc"] + k]
        /\ qStream'["lf0"] = MsdRow(Frames, qStream'["mgc"] + 1)
    <3>1. todo' = cur /\ todo' \in Seq(Frame)
      BY <1>0, <1>2
    <3>2. qStream'["mgc"] + Len(todo') <= Len(Frames)
      BY <1>5, <1>6, <1>7, <3>1
    <3>3. \A k \in 1..Len(todo') : todo'[k] = Frames[qStream'["mgc"] + k]
      BY <1>5, <1>8, <3>1
    <3> QED BY <1>5, <1>6, <1>10, <3>1, <3>2, <3>3
  <2> QED BY <2>1, <2>2 DEF WalkInStep, MsdRow
<1>12. RowsFilled'
  BY <1>0 DEF WindowInv, RowsFilled, Frames
<1>13. ParamTypeOK'
  <2>1. qStream'["mgc"] \in 0..maxNumOfFrames
    BY <1>1, <1>5, <1>6, <1>7
  <2>2. Len(Voiced(P)) \in 0..Len(P)
    BY <1>4, VoicedIsKept, KeptLength
  <2>3. qStream'["lf0"] \in 0..maxNumOfFrames
    BY <1>5, <1>6, <2>1, <2>2
  <2>4. \A i \in Streams : qStream'[i] \in 0..maxNumOfFrames
    BY <2>1, <2>3 DEF Streams
  <2> QED BY <1>0, <2>4 DEF WindowInv, ParamTypeOK, Rows
<1>14. FramesFromOwnRows'
  BY <1>0 DEF FramesFromOwnRows, NoPush
<1> QED BY <1>0, <1>11, <1>12, <1>13, <1>14 DEF WindowInv

(* A frame takes its own row of each stream, and the walks stay in step.   *)
LEMMA GenerateFrameStep == WindowInv /\ GenerateFrame => WindowInv'
<1> SUFFICES ASSUME WindowInv, GenerateFrame PROVE WindowInv'
  OBVIOUS
<1> USE WindowAssumption, MemoryAssumption
<1> DEFINE q == qStream["mgc"]
           r == qStream["lf0"]
           fs == Frames
           f == Head(todo)
<1>0. /\ pc = "frames" /\ todo # <<>> /\ todo' = Tail(todo) /\ pc' = pc
      /\ models' = models /\ pushed' = pushed
      /\ par' = par /\ length' = length /\ dynamic' = dynamic
      /\ pushing' = [frame |-> f, mgc |-> par["mgc"][q],
                     lf0 |-> IF f.voiced THEN par["lf0"][r] ELSE NoRow]
      /\ qStream' = [mgc |-> q + 1, lf0 |-> r + IF f.voiced THEN 1 ELSE 0]
  BY DEF GenerateFrame
<1>1. /\ fs \in Seq(Frame) /\ Len(fs) \in 0..maxNumOfFrames
      /\ Len(Voiced(fs)) \in 0..Len(fs) /\ DOMAIN fs = 1..Len(fs)
  BY <1>0, WholeWindow, LenProperties
<1>2. RowsFilled /\ WalkInStep
  BY <1>0 DEF WindowInv
<1>3. /\ todo \in Seq(Frame) /\ q \in Nat /\ q + Len(todo) <= Len(fs)
      /\ (\A k \in 1..Len(todo) : todo[k] = fs[q + k]) /\ r = MsdRow(fs, q + 1)
  BY <1>2 DEF WalkInStep
<1>4. /\ Len(todo) \in Nat \ {0} /\ todo' \in Seq(Frame) /\ Len(todo') = Len(todo) - 1
      /\ \A k \in 1..Len(todo') : todo'[k] = todo[k + 1]
      /\ f = todo[1]
  BY <1>0, <1>3, HeadTailProperties, LenProperties, EmptySeq
<1> HIDE DEF q, r, fs, f
<1>5. q + 1 \in 1..Len(fs) /\ f = fs[q + 1] /\ q \in Rows /\ q < Len(fs)
  BY <1>1, <1>3, <1>4 DEF Rows
<1>6. par["mgc"][q] = [frame |-> f, window |-> pushed]
  BY <1>2, <1>5 DEF RowsFilled, fs
<1>7. ASSUME f.voiced
      PROVE  r \in 0..(Len(Voiced(fs)) - 1) /\ par["lf0"][r] = [frame |-> f, window |-> pushed]
  <2>1. r \in 0..(Len(Voiced(fs)) - 1) /\ Voiced(fs)[r + 1] = f
    BY <1>1, <1>3, <1>5, <1>7, VoicedRow
  <2>2. r \in Rows /\ r < Len(Voiced(fs))
    BY <1>1, <2>1 DEF Rows
  <2> QED BY <1>2, <2>1, <2>2 DEF RowsFilled, fs
<1>8. qStream'["mgc"] = q + 1 /\ qStream'["lf0"] = r + IF f.voiced THEN 1 ELSE 0
  BY <1>0
<1>9. MsdRow(fs, (q + 1) + 1) = r + IF f.voiced THEN 1 ELSE 0
  BY <1>1, <1>3, <1>5, VoicedNext
<1>10. Frames' = fs
  BY <1>0 DEF Frames, fs
<1>11. WalkInStep'
  <2>1. (q + 1) + Len(todo') <= Len(fs)
    BY <1>1, <1>3, <1>4
  <2>2. \A k \in 1..Len(todo') : todo'[k] = fs[(q + 1) + k]
    <3> SUFFICES ASSUME NEW k \in 1..Len(todo') PROVE todo'[k] = fs[(q + 1) + k]
      OBVIOUS
    <3>1. k + 1 \in 1..Len(todo) /\ q + (k + 1) = (q + 1) + k
      BY <1>3, <1>4
    <3> QED BY <1>3, <1>4, <3>1
  <2>3. q + 1 \in Nat
    BY <1>3
  <2> QED BY <1>4, <1>8, <1>9, <1>10, <2>1, <2>2, <2>3 DEF WalkInStep, MsdRow
<1>12. RowsFilled'
  BY <1>0, <1>2, <1>10 DEF RowsFilled, fs
<1>13. ParamTypeOK'
  <2>1. q + 1 \in 0..maxNumOfFrames
    BY <1>1, <1>5
  <2>2. r \in 0..maxNumOfFrames
    BY <1>0 DEF WindowInv, ParamTypeOK, Streams, r
  <2>3. r + (IF f.voiced THEN 1 ELSE 0) \in 0..maxNumOfFrames
    <3>1. CASE f.voiced
      BY <1>1, <1>7, <3>1
    <3>2. CASE ~f.voiced
      BY <2>2, <3>2
    <3> QED BY <3>1, <3>2
  <2>4. \A i \in Streams : qStream'[i] \in 0..maxNumOfFrames
    BY <1>8, <2>1, <2>3 DEF Streams
  <2> QED BY <1>0, <2>4 DEF WindowInv, ParamTypeOK, Rows
<1>14. FramesFromOwnRows'
  <2>1. pushing'.mgc = [frame |-> f, window |-> pushed] /\ pushing'.frame = f
        /\ (f.voiced => pushing'.lf0 = [frame |-> f, window |-> pushed])
    BY <1>0, <1>6, <1>7
  <2> QED BY <1>0, <2>1 DEF FramesFromOwnRows
<1> QED BY <1>0, <1>11, <1>12, <1>13, <1>14 DEF WindowInv

(* A full window gives up its oldest model before the next one is pushed.  *)
LEMMA PopModelStep == WindowInv /\ PopModel => WindowInv'
<1> SUFFICES ASSUME WindowInv, PopModel PROVE WindowInv'
  OBVIOUS
<1> USE WindowAssumption, MemoryAssumption
<1> DEFINE Y == Seq(Frame)
<1>1. /\ pc = "frames" /\ pc' = "push" /\ pushed' = pushed /\ par' = par
      /\ length' = length /\ dynamic' = dynamic /\ qStream' = qStream
      /\ models' = IF FullWindow THEN Tail(models) ELSE models
  BY DEF PopModel
<1>2. /\ models \in Seq(Y) /\ Len(models) \in Nat /\ DOMAIN models = 1..Len(models)
      /\ Len(models) <= nOfLookup + nOfBackup + 1
      /\ \A k \in DOMAIN models : Len(models[k]) <= maxDuration
  BY LenProperties DEF WindowInv, ParamTypeOK
<1> HIDE DEF Y
<1>3. /\ models' \in Seq(Y) /\ Len(models') <= nOfLookup + nOfBackup
      /\ \A k \in DOMAIN models' : Len(models'[k]) <= maxDuration
  <2>1. CASE FullWindow
    <3>1. models # <<>>
      BY <1>2, <2>1 DEF FullWindow
    <3>2. /\ models' \in Seq(Y) /\ Len(models') = Len(models) - 1
          /\ \A k \in 1..Len(models') : models'[k] = models[k + 1]
          /\ DOMAIN models' = 1..Len(models')
      BY <1>1, <1>2, <2>1, <3>1, HeadTailProperties, LenProperties
    <3>3. ASSUME NEW k \in DOMAIN models' PROVE Len(models'[k]) <= maxDuration
      <4>1. k + 1 \in DOMAIN models /\ models'[k] = models[k + 1]
        BY <1>2, <3>2
      <4> QED BY <1>2, <4>1
    <3> QED BY <1>2, <3>2, <3>3
  <2>2. CASE ~FullWindow
    BY <1>1, <1>2, <2>2 DEF FullWindow
  <2> QED BY <2>1, <2>2
<1>4. Len(models') <= nOfLookup + nOfBackup + 1
  <2>1. Len(models') \in Nat
    BY <1>3, LenProperties
  <2> QED BY <1>3, <2>1
<1>5. ParamTypeOK'
  BY <1>1, <1>4 DEF WindowInv, ParamTypeOK, Rows
<1> QED BY <1>1, <1>3, <1>5 DEF WindowInv, FramesFromOwnRows, Y

(* Every step keeps the invariant.                                         *)
LEMMA WindowInvStep == WindowInv /\ [ParamNext]_paramVars => WindowInv'
<1> SUFFICES ASSUME WindowInv, [ParamNext]_paramVars PROVE WindowInv'
  OBVIOUS
<1>1. CASE UNCHANGED paramVars
  BY <1>1 DEF paramVars, WindowInv, ParamTypeOK, RowsFilled, WalkInStep, Frames,
              FramesFromOwnRows
<1>2. CASE Idle
  BY <1>1, <1>2 DEF Idle
<1> QED BY <1>1, <1>2, PushModelStep, OptimizeStep, StartStep, GenerateFrameStep,
           PopModelStep DEF ParamNext

(* The dynamic rows have the frames just before and after their own around *)
(* them: a voiced frame between voiced frames is one row after the one     *)
(* before it and one row before the one after it.                          *)
LEMMA AdjacentRows == WindowInv => DynamicRowsAdjacent
<1> SUFFICES ASSUME WindowInv, pc = "generate", NEW fs, fs = Frames
             PROVE  \A i \in Streams : \A r \in dynamic[i] :
                      /\ r - 1 >= 0 /\ r + 1 < length[i]
                      /\ \E f \in 2..(Len(fs) - 1) :
                            \A d \in -1..1 : par[i][r + d].frame = fs[f + d]
  <2>1. ASSUME WindowInv, pc = "generate"
        PROVE  FlattenSeq(SubSeq(models, 1, Backup + nOfLookup + 1)) = Frames
    BY <2>1, WholeWindow DEF Frames
  <2> QED BY <2>1, Zenon DEF DynamicRowsAdjacent
<1>1. /\ fs \in Seq(Frame) /\ Len(fs) \in 0..maxNumOfFrames
      /\ Len(Voiced(fs)) \in 0..Len(fs) /\ DOMAIN fs = 1..Len(fs)
  BY WholeWindow, LenProperties
<1>2. RowsFilled
  BY DEF WindowInv
<1>3. -1..1 = {-1, 0, 1}
  OBVIOUS
<1>4. ASSUME NEW r \in dynamic["mgc"]
      PROVE  /\ r - 1 >= 0 /\ r + 1 < length["mgc"]
             /\ \E f \in 2..(Len(fs) - 1) :
                   \A d \in -1..1 : par["mgc"][r + d].frame = fs[f + d]
  <2>1. PICK f \in NotBound(fs) : r = f - 1
    BY <1>2 DEF RowsFilled
  <2>2. f \in 2..(Len(fs) - 1)
    BY <1>1, <2>1 DEF NotBound
  <2>3. ASSUME NEW d \in -1..1 PROVE par["mgc"][r + d].frame = fs[f + d]
    <3>1. r + d \in Rows /\ r + d < Len(fs) /\ (r + d) + 1 = f + d
      BY <1>1, <2>1, <2>2, MemoryAssumption DEF Rows
    <3>2. par["mgc"][r + d] = [frame |-> fs[(r + d) + 1], window |-> pushed]
      BY <1>2, <3>1 DEF RowsFilled
    <3> QED BY <3>1, <3>2
  <2>4. length["mgc"] = Len(fs)
    BY <1>2 DEF RowsFilled
  <2>5. r - 1 >= 0 /\ r + 1 < length["mgc"]
    BY <1>1, <2>1, <2>2, <2>4
  <2> QED BY <2>2, <2>3, <2>5
<1>5. ASSUME NEW r \in dynamic["lf0"]
      PROVE  /\ r - 1 >= 0 /\ r + 1 < length["lf0"]
             /\ \E f \in 2..(Len(fs) - 1) :
                   \A d \in -1..1 : par["lf0"][r + d].frame = fs[f + d]
  <2>1. PICK f \in NotBoundMSD(fs) : r = MsdRow(fs, f)
    BY <1>2 DEF RowsFilled
  <2>2. length["lf0"] = Len(Voiced(fs))
    BY <1>2 DEF RowsFilled
  <2>3. /\ f \in 2..(Len(fs) - 1) /\ fs[f].voiced /\ fs[f - 1].voiced /\ fs[f + 1].voiced
    BY <1>1, <2>1 DEF NotBoundMSD, NotBound
  <2>4. f \in 1..Len(fs) /\ f - 1 \in 1..Len(fs) /\ f + 1 \in 1..Len(fs) /\ (f - 1) + 1 = f
    BY <1>1, <2>3
  <2>5. /\ MsdRow(fs, f) \in 0..(Len(Voiced(fs)) - 1)
        /\ Voiced(fs)[MsdRow(fs, f) + 1] = fs[f]
        /\ MsdRow(fs, f - 1) \in 0..(Len(Voiced(fs)) - 1)
        /\ Voiced(fs)[MsdRow(fs, f - 1) + 1] = fs[f - 1]
        /\ MsdRow(fs, f + 1) \in 0..(Len(Voiced(fs)) - 1)
        /\ Voiced(fs)[MsdRow(fs, f + 1) + 1] = fs[f + 1]
    BY <1>1, <2>3, <2>4, VoicedRow
  <2>6. MsdRow(fs, f - 1) = r - 1 /\ MsdRow(fs, f + 1) = r + 1
    <3>1. MsdRow(fs, f + 1) = MsdRow(fs, f) + 1
      BY <1>1, <2>3, <2>4, VoicedNext
    <3>2. MsdRow(fs, (f - 1) + 1) = MsdRow(fs, f - 1) + 1
      BY <1>1, <2>3, <2>4, VoicedNext
    <3> QED BY <2>1, <2>4, <2>5, <3>1, <3>2
  <2>7. r \in Nat /\ r - 1 >= 0 /\ r + 1 < length["lf0"]
    BY <1>1, <2>1, <2>2, <2>5, <2>6
  <2>8. ASSUME NEW d \in -1..1 PROVE par["lf0"][r + d].frame = fs[f + d]
    <3>1. Voiced(fs)[(r + d) + 1] = fs[f + d]
      <4>1. CASE d = -1
        <5>1. (r + d) + 1 = (r - 1) + 1 /\ f + d = f - 1
          BY <2>4, <2>7, <4>1
        <5> QED BY <2>5, <2>6, <5>1
      <4>2. CASE d = 0
        <5>1. (r + d) + 1 = r + 1 /\ f + d = f
          BY <2>4, <2>7, <4>2
        <5> QED BY <2>1, <2>5, <5>1
      <4>3. CASE d = 1
        BY <2>4, <2>5, <2>6, <2>7, <4>3
      <4> QED BY <1>3, <4>1, <4>2, <4>3
    <3>2. r + d \in Rows /\ r + d < Len(Voiced(fs))
      BY <1>1, <2>2, <2>7, MemoryAssumption DEF Rows
    <3>3. par["lf0"][r + d] = [frame |-> Voiced(fs)[(r + d) + 1], window |-> pushed]
      BY <1>2, <3>2 DEF RowsFilled
    <3> QED BY <3>1, <3>3
  <2> QED BY <2>3, <2>7, <2>8
<1> SUFFICES ASSUME NEW i \in Streams, NEW r \in dynamic[i]
             PROVE  /\ r - 1 >= 0 /\ r + 1 < length[i]
                    /\ \E f \in 2..(Len(fs) - 1) :
                          \A d \in -1..1 : par[i][r + d].frame = fs[f + d]
  OBVIOUS
<1>6. CASE i = "mgc"
  BY <1>4, <1>6
<1>7. CASE i = "lf0"
  BY <1>5, <1>7
<1> QED BY <1>6, <1>7 DEF Streams

-----------------------------------------------------------------------------
(* The inductive invariant holds of parameter generation.                  *)
LEMMA WindowInvHolds == ParamSpec => []WindowInv
BY WindowInvInit, WindowInvStep, PTL DEF ParamSpec

(* Whatever the voicing of the states and however the frames of a model,   *)
(* at most maxDuration in all, are spread over its states, no index of     *)
(* optimizeParameters() or generate() leaves the rows of ModelQueueMemory, *)
(* and the window holds no more models than it is wide.                    *)
THEOREM RowsStayAllocated == ParamSpec => []ParamTypeOK
<1>1. WindowInv => ParamTypeOK
  BY DEF WindowInv
<1> QED BY <1>1, WindowInvHolds, PTL

(* Every frame generate() pushes has the spectrum, and when voiced the     *)
(* pitch, computed for it in this window.                                  *)
THEOREM FramesTakeOwnRows == ParamSpec => []FramesFromOwnRows
<1>1. WindowInv => FramesFromOwnRows
  BY DEF WindowInv
<1> QED BY <1>1, WindowInvHolds, PTL

(* The smoothing of optimizeParameters() stays within a voiced stretch and *)
(* within the rows of its stream.                                          *)
THEOREM SmoothingStaysAdjacent == ParamSpec => []DynamicRowsAdjacent
BY AdjacentRows, WindowInvHolds, PTL
=============================================================================
