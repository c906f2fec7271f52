-------------------------- MODULE SCMageUnitProofs --------------------------
(***************************************************************************)
(* Safety of the unit's life cycle (SCMage), for every number of labels,   *)
(* frames per label and queue slots, and proofs about SCMageUnit, for      *)
(* buffers and strings of any size: a unit whose constructor reads its     *)
(* labels from a buffer lives as module SCMage says, so what is proved of  *)
(* SCMage holds of the composition.                                        *)
(***************************************************************************)
EXTENDS SCMageUnit, DataInduction

(* What the constructor set up tells which of thread and Mage exist; a     *)
(* destructor past pthread_join has no thread left.                        *)
LifeInv == /\ server = "idle" => ~ownMage /\ ~ownThread
           /\ ownMage <=> mage = "live"
           /\ ownThread => ownMage
           /\ ~ownThread => gen = "none"
           /\ calc = "next" => ownMage
           /\ server \in {"free", "crashed"} => gen \in {"none", "exited"}

SCInv == SCTypeOK /\ LifeInv

(* The initial state, without a unit, satisfies the invariant. *)
LEMMA SCInitInv == SCInit => SCInv
<1> SUFFICES ASSUME SCInit PROVE SCInv
  OBVIOUS
<1>1. labels \in 0..MaxLabels /\ left \in 0..LabelFrames
        /\ frames \in 0..maxFrameQueueLen
  BY SCMageAssumption DEF SCInit
<1>2. SCTypeOK
  BY <1>1, Zenon DEF SCInit, SCTypeOK
<1>3. LifeInv
  BY DEF SCInit, LifeInv
<1> QED BY <1>2, <1>3 DEF SCInv

(* Every way SCMage_Ctor ends establishes the invariant. *)
LEMMA CtorKeeps == SCInv /\ Ctor => SCInv'
<1> SUFFICES ASSUME SCInv, Ctor PROVE SCInv'
  OBVIOUS
<1> USE DEF SCInv, SCTypeOK, LifeInv, unitVars, threadVars, workVars
<1>1. CASE CtorNoMage
  BY <1>1 DEF CtorNoMage
<1>2. CASE CtorNoString
  BY <1>2 DEF CtorNoString
<1>3. ASSUME NEW n \in 0..MaxLabels, CtorStart(n)
      PROVE SCInv'
  BY <1>3 DEF CtorStart
<1>4. ASSUME NEW n \in 0..MaxLabels, CtorNoThread(n)
      PROVE SCInv'
  BY <1>4 DEF CtorNoThread
<1> QED BY <1>1, <1>2, <1>3, <1>4 DEF Ctor

(* A unit that is gone satisfies the invariant, whatever the server does   *)
(* next.                                                                   *)
LEMMA GoneKeeps ==
  ASSUME Gone, server' = "idle"
  PROVE  SCInv'
<1>1. labels' \in 0..MaxLabels /\ left' \in 0..LabelFrames
        /\ frames' \in 0..maxFrameQueueLen
  BY SCMageAssumption DEF Gone
<1>2. SCTypeOK'
  BY <1>1, Zenon DEF Gone, SCTypeOK
<1>3. LifeInv'
  BY DEF Gone, LifeInv
<1> QED BY <1>2, <1>3 DEF SCInv

(* The steps of SCMage_Dtor, and a restart of the server, keep it. *)
LEMMA DtorKeeps ==
  SCInv /\ (DtorCancel \/ DtorCancelWild \/ DtorRest \/ Restart) => SCInv'
<1> SUFFICES ASSUME SCInv,
                    DtorCancel \/ DtorCancelWild \/ DtorRest \/ Restart
             PROVE SCInv'
  OBVIOUS
<1> USE SCMageAssumption
    DEF SCInv, SCTypeOK, LifeInv, unitVars, threadVars, workVars
<1>1. CASE DtorCancel
  BY <1>1 DEF DtorCancel
<1>2. CASE DtorCancelWild
  BY <1>2 DEF DtorCancelWild
<1>3. CASE DtorJoin
  BY <1>3 DEF DtorJoin
<1>4. CASE DtorFree
  BY <1>4, GoneKeeps DEF DtorFree
<1>5. CASE DtorFreeWild
  <2>1. CASE server' = "idle" /\ Gone
    BY <1>5, <2>1, GoneKeeps DEF DtorFreeWild
  <2>2. CASE server' = "crashed"
    BY <1>5, <2>2 DEF DtorFreeWild
  <2> QED BY <1>5, <2>1, <2>2 DEF DtorFreeWild
<1>6. CASE Restart
  BY <1>6, GoneKeeps DEF Restart
<1> QED BY <1>1, <1>2, <1>3, <1>4, <1>5, <1>6 DEF DtorRest

(* The steps of SCMage_genThread keep it, an exit of the server included. *)
LEMMA GenKeeps == SCInv /\ (GenThread \/ GenLoadFails) => SCInv'
<1> SUFFICES ASSUME SCInv, GenThread \/ GenLoadFails PROVE SCInv'
  OBVIOUS
<1> USE SCMageAssumption
    DEF SCInv, SCTypeOK, LifeInv, unitVars, threadVars, workVars, Goto
<1>1. CASE GenLoad
  BY <1>1 DEF GenLoad
<1>2. CASE GenTest
  BY <1>2 DEF GenTest
<1>3. CASE GenPopLabel
  BY <1>3 DEF GenPopLabel
<1>4. CASE GenNoLabel
  BY <1>4 DEF GenNoLabel
<1>5. CASE GenFrame
  BY <1>5 DEF GenFrame
<1>6. CASE GenFull
  BY <1>6 DEF GenFull
<1>7. CASE GenDone
  BY <1>7 DEF GenDone
<1>8. CASE GenWakeFull \/ GenWakeEmpty \/ GenWake
  BY <1>8 DEF GenWakeFull, GenWakeEmpty, GenWake
<1>9. CASE GenCancelled
  BY <1>9 DEF GenCancelled, Cancelling, CancellationPoints
<1>10. CASE GenLoadFails
  BY <1>10 DEF GenLoadFails
<1> QED
  BY <1>1, <1>2, <1>3, <1>4, <1>5, <1>6, <1>7, <1>8, <1>9, <1>10
  DEF GenThread

(* SCInv is an invariant of the unit. *)
THEOREM SCInvHolds == SCSpec => []SCInv
<1>1. SCInv /\ [SCNext]_scVars => SCInv'
  <2> SUFFICES ASSUME SCInv, [SCNext]_scVars PROVE SCInv'
    OBVIOUS
  <2>1. CASE SCMage_next
    BY <2>1, SCMageAssumption DEF SCMage_next, SCInv, SCTypeOK, LifeInv, unitVars, threadVars
  <2>2. CASE UNCHANGED scVars
    BY <2>2 DEF scVars, unitVars, threadVars, workVars, SCInv, SCTypeOK, LifeInv
  <2> QED BY <2>1, <2>2, CtorKeeps, DtorKeeps, GenKeeps DEF SCNext
<1> QED BY <1>1, SCInitInv, PTL DEF SCSpec

(* Type correctness of the unit, its thread and its counters. *)
THEOREM SCTypeCorrect == SCSpec => []SCTypeOK
<1>1. SCInv => SCTypeOK
  BY DEF SCInv
<1> QED BY <1>1, SCInvHolds, PTL

(* Neither the generator thread nor the calculation function ever meets a  *)
(* Mage object that was not built, or was freed: pthread_join separates    *)
(* the last step of the thread from RTFree.                                *)
THEOREM MageOutlivesItsUsers == SCSpec => []MageOutlivesUsers
<1>1. SCInv => MageOutlivesUsers
  BY DEF SCInv, LifeInv, MageOutlivesUsers
<1> QED BY <1>1, SCInvHolds, PTL

-----------------------------------------------------------------------------
(* A part of a string is a string. *)
LEMMA PartType ==
  ASSUME NEW s \in Strings, NEW m \in Nat \ {0}, NEW n \in Nat, n <= Len(s)
  PROVE  SubSeq(s, m, n) \in Strings
<1> DEFINE S == -2..MaxSamples
<1>1. s \in Seq(S)
  BY DEF Strings
<1> HIDE DEF S
<1>2. \A i \in m..n : s[i] \in S
  BY <1>1
<1>3. m \in Int /\ n \in Int
  OBVIOUS
<1>4. SubSeq(s, m, n) \in Seq(S)
  BY <1>2, <1>3, SubSeqProperties
<1> QED BY <1>4 DEF S, Strings

(* A field of a line, and what follows it, are strings again. *)
LEMMA FieldType ==
  ASSUME NEW s \in Strings
  PROVE  /\ Field(s) \in Strings
         /\ SpaceIn(s) # {} => Rest(s) \in Strings
<1>1. SpaceIn(s) \subseteq 1..Len(s) /\ Len(s) \in Nat
  BY DEF SpaceIn, Strings
<1>2. CASE SpaceIn(s) = {}
  BY <1>2 DEF Field
<1>3. CASE SpaceIn(s) # {}
  <2>1. \E k \in SpaceIn(s) : \A j \in SpaceIn(s) : k <= j
    BY <1>1, <1>3, LeastNatural
  <2>2. FirstSpace(s) \in 1..Len(s)
    BY <1>1, <2>1 DEF FirstSpace
  <2>3. SubSeq(s, 1, FirstSpace(s) - 1) \in Strings
    BY <1>1, <2>2, PartType
  <2>4. SubSeq(s, FirstSpace(s) + 1, Len(s)) \in Strings
    BY <1>1, <2>2, PartType
  <2> QED BY <1>3, <2>3, <2>4 DEF Field, Rest
<1> QED BY <1>2, <1>3

(* The static strings, the old ones included, are strings. *)
LEMMA ParseType ==
  ASSUME SourceTypeOK, NEW s \in Strings
  PROVE  /\ Field(s) \in Strings /\ NextMiddle(s) \in Strings
         /\ NextLast(s) \in Strings
<1>1. middle \in Strings /\ last \in Strings
  BY DEF SourceTypeOK
<1>2. Field(s) \in Strings /\ NextMiddle(s) \in Strings
  BY <1>1, FieldType DEF NextMiddle
<1>3. CASE SpaceIn(s) = {} \/ SpaceIn(Rest(s)) = {}
  BY <1>1, <1>2, <1>3 DEF NextLast
<1>4. CASE SpaceIn(s) # {} /\ SpaceIn(Rest(s)) # {}
  <2>1. Rest(s) \in Strings
    BY <1>4, FieldType
  <2>2. Rest(Rest(s)) \in Strings
    BY <1>4, <2>1, FieldType
  <2>3. Field(Rest(Rest(s))) \in Strings
    BY <2>2, FieldType
  <2> QED BY <1>2, <1>4, <2>3 DEF NextLast
<1> QED BY <1>3, <1>4

(* parseQuery makes a label of any strings, with or without times. *)
LEMMA LabelType ==
  ASSUME NEW s \in Strings, NEW f \in Strings, NEW m \in Strings,
         NEW l \in Strings
  PROVE  Label(s, f, m, l) \in Labels
<1>1. NoTime \in Strings
  BY SourceAssumption DEF NoTime, Strings
<1> QED BY <1>1 DEF Label, Labels

(* Reading a buffer keeps the types: a string grows only while it has      *)
(* room, and so does the queue.                                            *)
LEMMA ReadKeeps == SourceTypeOK /\ Read => SourceTypeOK'
<1> SUFFICES ASSUME SourceTypeOK, Read PROVE SourceTypeOK'
  OBVIOUS
<1> USE SourceAssumption DEF bufVars, statics
<1>1. CASE ReadNull \/ ReadEnd
  BY <1>1 DEF ReadNull, ReadEnd, SourceTypeOK
<1>2. ASSUME Reading
      PROVE  bufIndex + bufChannels \in 0..(MaxSamples + MaxChannels)
  BY <1>2 DEF Reading, SourceTypeOK
<1>3. CASE ReadOther
  <2>1. Reading /\ bufIndex + 1 \in -2..MaxSamples
    BY <1>3 DEF ReadOther, Reading, SourceTypeOK
  <2> DEFINE S == -2..MaxSamples
  <2>a. bufIndex + 1 \in S /\ stringBuf \in Seq(S) /\ Len(stringBuf) <= maxStrLen
    BY <2>1 DEF SourceTypeOK, Strings
  <2>b. stringBuf' = IF Len(stringBuf) < maxStrLen
                     THEN Append(stringBuf, bufIndex + 1) ELSE stringBuf
    BY <1>3 DEF ReadOther
  <2> HIDE DEF S
  <2>c. stringBuf' \in Seq(S) /\ Len(stringBuf') <= maxStrLen
    BY <2>a, <2>b
  <2>2. stringBuf' \in Strings /\ Len(stringBuf') <= maxStrLen
    BY <2>c DEF S, Strings
  <2>3. bufIndex' \in 0..(MaxSamples + MaxChannels)
    BY <1>2, <1>3, <2>1 DEF ReadOther
  <2> QED BY <1>3, <2>2, <2>3 DEF ReadOther, SourceTypeOK
<1>4. CASE ReadNewline
  <2> DEFINE label == Label(stringBuf, first', middle', last')
  <2>1. Reading /\ stringBuf \in Strings
    BY <1>4 DEF ReadNewline, SourceTypeOK
  <2>2. first' \in Strings /\ middle' \in Strings /\ last' \in Strings
    BY <1>4, <2>1, ParseType DEF ReadNewline, ParseQuery
  <2>3. label \in Labels
    BY <2>1, <2>2, LabelType
  <2>4. queue' = IF Len(queue) < maxLabelQueueLen THEN Append(queue, label)
                 ELSE queue
    BY <1>4 DEF ReadNewline
  <2> HIDE DEF label
  <2>5. queue' \in Seq(Labels) /\ Len(queue') <= maxLabelQueueLen
    BY <2>3, <2>4 DEF SourceTypeOK
  <2>6. bufIndex' \in 0..(MaxSamples + MaxChannels)
    BY <1>2, <1>4, <2>1 DEF ReadNewline
  <2>7. stringBuf' \in Strings /\ Len(stringBuf') <= maxStrLen
    BY <1>4 DEF ReadNewline, Empty, Strings
  <2> QED BY <1>4, <2>2, <2>5, <2>6, <2>7 DEF ReadNewline, SourceTypeOK
<1> QED BY <1>1, <1>3, <1>4 DEF Read

(* Opening a buffer, and closing it at the end of the constructor *)
LEMMA OpenKeeps == SourceTypeOK /\ CtorOpen => SourceTypeOK'
<1> SUFFICES ASSUME SourceTypeOK, CtorOpen PROVE SourceTypeOK'
  OBVIOUS
<1>1. PICK data \in Buffers, channels \in 1..MaxChannels : OpenBuf(data, channels)
  BY DEF CtorOpen
<1>2. PICK n \in 0..MaxSamples : data \in [1..n -> Chars]
  BY DEF Buffers
<1>a. n \in Nat /\ n <= MaxSamples
  BY SourceAssumption
<1>b. data \in Seq(Chars) /\ Len(data) <= MaxSamples
  BY <1>2, <1>a
<1>3. Empty \in Strings /\ Len(Empty) <= maxStrLen
  BY SourceAssumption DEF Empty, Strings
<1> QED BY <1>1, <1>b, <1>3, SourceAssumption DEF OpenBuf, SourceTypeOK, statics

(* The end of the constructor keeps the types: what is left in the static  *)
(* strings are strings still.                                              *)
LEMMA CloseKeeps == SourceTypeOK /\ CloseBuf => SourceTypeOK'
<1> SUFFICES ASSUME SourceTypeOK, CloseBuf PROVE SourceTypeOK'
  OBVIOUS
<1>1. /\ Empty \in Strings /\ Len(Empty) <= maxStrLen
      /\ OldNumber \in Strings /\ OldText \in Strings
  BY SourceAssumption DEF Empty, OldNumber, OldText, Strings
<1>2. OldMiddle \in Strings /\ Old(last, OldText) \in Strings
  BY <1>1 DEF OldMiddle, Old
<1> QED BY <1>1, <1>2, SourceAssumption DEF CloseBuf, SourceTypeOK

(* While a constructor reads a buffer of any size, the intermediate string *)
(* stays within its allocation, the queue within its slots, and parseQuery *)
(* makes labels of strings that were read.                                 *)
THEOREM SourceTypeCorrect == UnitSpec => []SourceTypeOK
<1>1. UnitInit => SourceTypeOK
  <2>1. /\ Empty \in Strings /\ Len(Empty) <= maxStrLen
        /\ OldNumber \in Strings /\ OldText \in Strings
    BY SourceAssumption DEF Empty, OldNumber, OldText, Strings
  <2> QED BY <2>1, SourceAssumption DEF UnitInit, SourceInit, SourceTypeOK
<1>2. SourceTypeOK /\ [UnitNext]_vars => SourceTypeOK'
  <2> SUFFICES ASSUME SourceTypeOK, [UnitNext]_vars PROVE SourceTypeOK'
    OBVIOUS
  <2>1. CASE CtorOpen
    BY <2>1, OpenKeeps
  <2>2. CASE CtorRead
    BY <2>2, ReadKeeps DEF CtorRead
  <2>3. CASE CtorEnd
    BY <2>3, CloseKeeps DEF CtorEnd
  <2>4. CASE UNCHANGED sourceVars
    BY <2>4 DEF sourceVars, bufVars, statics, SourceTypeOK
  <2> QED BY <2>1, <2>2, <2>3, <2>4 DEF UnitNext, CtorNoBuf, UnitRest, vars
<1> QED BY <1>1, <1>2, PTL DEF UnitSpec

(* Every step of the composition is a step of the unit's life, or none: in *)
(* particular the constructor never pushes more labels than SCMage allows. *)
THEOREM UnitImplementsSCMage == UnitSpec => SCSpec
<1>1. UnitInit => SCInit
  BY DEF UnitInit
<1>2. SourceTypeOK /\ [UnitNext]_vars => [SCNext]_scVars
  <2> SUFFICES ASSUME SourceTypeOK, [UnitNext]_vars PROVE [SCNext]_scVars
    OBVIOUS
  <2>1. CASE CtorOpen \/ CtorRead \/ UNCHANGED vars
    BY <2>1 DEF CtorOpen, CtorRead, vars
  <2>2. CASE CtorEnd
    <3>1. Len(queue) \in 0..MaxLabels
      BY SCMageAssumption, SourceAssumption, UnitAssumption DEF SourceTypeOK
    <3> QED BY <2>2, <3>1 DEF CtorEnd, SCNext, Ctor
  <2>3. CASE CtorNoBuf
    <3>1. 0 \in 0..MaxLabels
      BY SCMageAssumption
    <3> QED BY <2>3, <3>1 DEF CtorNoBuf, SCNext, Ctor
  <2>4. CASE UnitRest
    BY <2>4 DEF UnitRest, SCNext
  <2> QED BY <2>1, <2>2, <2>3, <2>4 DEF UnitNext
<1> QED BY <1>1, <1>2, SourceTypeCorrect, PTL DEF UnitSpec, SCSpec

(* The types of the composed unit: of its life by the implementation, of   *)
(* its reading by the invariant above.                                     *)
THEOREM UnitTypeCorrect == UnitSpec => []UnitTypeOK
<1>1. SCTypeOK /\ SourceTypeOK => UnitTypeOK
  BY DEF UnitTypeOK
<1> QED BY <1>1, UnitImplementsSCMage, SCTypeCorrect, SourceTypeCorrect, PTL

(* So the Mage object of a unit outlives its users whatever the buffer     *)
(* its constructor reads.                                                  *)
THEOREM UnitMageOutlivesUsers == UnitSpec => []MageOutlivesUsers
<1> QED BY UnitImplementsSCMage, MageOutlivesItsUsers, PTL

-----------------------------------------------------------------------------
(* Fields of a line: Cuts(line, i, c) says that c is the place of the i-th *)
(* space, with i spaces up to it.                                          *)
Cuts(line, i, c) == /\ c \in 0..Len(line)
                    /\ Cut(line, i) = c
                    /\ Rank(SpaceIn(line), c) = i

(* The spaces of a line are finitely many positions of it.                 *)
LEMMA SpacesFinite ==
  ASSUME NEW line \in Strings
  PROVE  /\ SpaceIn(line) \subseteq 1..Len(line) /\ SpaceIn(line) \subseteq Nat
         /\ IsFiniteSet(SpaceIn(line)) /\ Len(line) \in Nat
         /\ Cardinality(SpaceIn(line)) \in Nat
<1>1. Len(line) \in Nat /\ DOMAIN line = 1..Len(line)
  BY LenProperties DEF Strings
<1>2. SpaceIn(line) \in SUBSET (1..Len(line))
  BY <1>1 DEF SpaceIn
<1>3. IsFiniteSet(1..Len(line))
  BY <1>1, FS_Interval
<1>4. IsFiniteSet(SpaceIn(line))
  BY <1>2, <1>3, FS_Subset
<1> QED BY <1>1, <1>2, <1>4, FS_CardinalityType

(* The first field starts at the start of the line.                        *)
LEMMA CutFirst ==
  ASSUME NEW line \in Strings
  PROVE  Cuts(line, 0, 0)
<1>1. \A j \in SpaceIn(line) : ~(j <= 0)
  BY SpacesFinite
<1>2. Rank(SpaceIn(line), 0) = 0
  BY <1>1, SpacesFinite, RankEnds
<1> QED BY <1>2, SpacesFinite DEF Cuts, Cut

(* With i spaces in front, the next cut is at the next space, or behind    *)
(* the line when there is none.                                            *)
LEMMA CutNext ==
  ASSUME NEW line \in Strings, NEW i \in Nat, NEW c, Cuts(line, i, c)
  PROVE  /\ Cardinality(SpaceIn(line)) >= i
         /\ Cardinality(SpaceIn(line)) = i <=> \A j \in SpaceIn(line) : j <= c
         /\ Cardinality(SpaceIn(line)) = i => Cut(line, i + 1) = Len(line) + 1
         /\ \A m \in SpaceIn(line) :
               m > c /\ (\A j \in SpaceIn(line) : j > c => j >= m)
                  => Cuts(line, i + 1, m)
<1> DEFINE P == SpaceIn(line)
<1>1. /\ P \subseteq 1..Len(line) /\ P \subseteq Nat /\ IsFiniteSet(P) /\ Len(line) \in Nat
      /\ Cardinality(P) \in Nat
  BY SpacesFinite
<1>2. c \in 0..Len(line) /\ Rank(P, c) = i
  BY DEF Cuts
<1>3. Cardinality(P) >= i /\ (Cardinality(P) = i <=> \A j \in P : j <= c)
  <2>1. Rank(P, c) \in 0..Cardinality(P) /\ ((\A j \in P : j <= c) <=> Rank(P, c) = Cardinality(P))
    BY <1>1, RankEnds
  <2> QED BY <1>1, <1>2, <2>1
<1>4. Cardinality(P) = i => Cut(line, i + 1) = Len(line) + 1
  BY <1>1 DEF Cut
<1>5. ASSUME NEW m \in P, m > c, \A j \in P : j > c => j >= m
      PROVE  Cuts(line, i + 1, m)
  <2>1. Rank(P, m) = i + 1
    <3>1. c \in Nat /\ c < m
      BY <1>1, <1>2, <1>5
    <3>2. Rank(P, m) = Rank(P, c) + 1
      BY <1>1, <1>5, <3>1, RankNext
    <3> QED BY <1>2, <3>2
  <2>2. ~(Cardinality(P) < i + 1)
    <3>1. Rank(P, m) \in 0..Cardinality(P)
      BY <1>1, RankEnds
    <3> QED BY <1>1, <2>1, <3>1
  <2>3. (CHOOSE x \in P : Rank(P, x) = Rank(P, m)) = m
    BY <1>1, RankChosen
  <2>4. Cut(line, i + 1) = CHOOSE x \in P : Rank(P, x) = i + 1
    BY <2>2 DEF Cut, Rank
  <2>5. m \in 0..Len(line)
    BY <1>1
  <2> QED BY <2>1, <2>3, <2>4, <2>5 DEF Cuts
<1> QED BY <1>3, <1>4, <1>5

(* What is left of a line behind a place, and its spaces                   *)
Behind(line, c) == SubSeq(line, c + 1, Len(line))

(* ... which are the spaces of the line there.                             *)
LEMMA BehindIs ==
  ASSUME NEW line \in Strings, NEW c \in 0..Len(line)
  PROVE  /\ Behind(line, c) \in Strings
         /\ Len(Behind(line, c)) = Len(line) - c
         /\ \A k \in 1..(Len(line) - c) : Behind(line, c)[k] = line[c + k]
         /\ \A k : k \in SpaceIn(Behind(line, c)) <=>
                     k \in 1..(Len(line) - c) /\ c + k \in SpaceIn(line)
<1> DEFINE S == -2..MaxSamples
           u == Behind(line, c)
           n == Len(line)
<1>1. line \in Seq(S) /\ n \in Nat /\ \A i \in 1..n : line[i] \in S
  BY LenProperties, ElementOfSeq DEF Strings
<1> HIDE DEF S
<1>2. DOMAIN line = 1..n
  BY <1>1, LenProperties
<1>3. c + 1 \in Int /\ n \in Int /\ \A i \in (c + 1)..n : line[i] \in S
  BY <1>1
<1>4. /\ u \in Seq(S) /\ Len(u) = IF c + 1 <= n THEN n - (c + 1) + 1 ELSE 0
      /\ \A i \in 1..(n - (c + 1) + 1) : u[i] = line[(c + 1) + i - 1]
  BY <1>3, SubSeqProperties DEF Behind
<1> HIDE DEF u, n
<1>5. Len(u) = n - c /\ DOMAIN u = 1..(n - c)
  <2>1. Len(u) = n - c
    BY <1>1, <1>4 DEF n
  <2> QED BY <1>4, <2>1, LenProperties
<1>6. \A k \in 1..(n - c) : u[k] = line[c + k] /\ c + k \in 1..n
  <2> SUFFICES ASSUME NEW k \in 1..(n - c) PROVE u[k] = line[c + k] /\ c + k \in 1..n
    OBVIOUS
  <2>1. k \in 1..(n - (c + 1) + 1) /\ (c + 1) + k - 1 = c + k /\ c + k \in 1..n
    BY <1>1 DEF n
  <2> QED BY <1>4, <2>1
<1>7. \A k : k \in SpaceIn(u) <=> k \in 1..(n - c) /\ c + k \in SpaceIn(line)
  BY <1>2, <1>5, <1>6 DEF SpaceIn
<1> QED BY <1>4, <1>5, <1>6, <1>7 DEF u, n, S, Strings

(* getline's field behind a cut is the field of the line there, and what   *)
(* it leaves is what is behind the next cut.                               *)
LEMMA FieldBehind ==
  ASSUME NEW line \in Strings, NEW i \in Nat, NEW c, Cuts(line, i, c)
  PROVE  /\ Field(Behind(line, c)) = FieldOf(line, i + 1)
         /\ SpaceIn(Behind(line, c)) = {} <=> Cardinality(SpaceIn(line)) = i
         /\ SpaceIn(Behind(line, c)) # {} =>
               \E m : Cuts(line, i + 1, m) /\ Rest(Behind(line, c)) = Behind(line, m)
<1> DEFINE n == Len(line)
           u == Behind(line, c)
           P == SpaceIn(line)
<1>1. /\ c \in 0..n /\ n \in Nat /\ Cut(line, i) = c /\ P \subseteq 1..n
      /\ (i + 1) - 1 = i
  BY SpacesFinite DEF Cuts
<1>2. /\ u \in Strings /\ Len(u) = n - c
      /\ \A k \in 1..(n - c) : u[k] = line[c + k]
      /\ \A k : k \in SpaceIn(u) <=> k \in 1..(n - c) /\ c + k \in P
  BY <1>1, BehindIs
<1>3. FieldOf(line, i + 1) = SubSeq(line, c + 1, Cut(line, i + 1) - 1)
  BY <1>1 DEF FieldOf
<1>4. SpaceIn(u) = {} <=> \A j \in P : j <= c
  <2>1. ASSUME NEW j \in P, j > c PROVE j - c \in SpaceIn(u)
    <3>1. j - c \in 1..(n - c) /\ c + (j - c) = j
      BY <1>1, <2>1
    <3> QED BY <1>2, <3>1
  <2>2. ASSUME NEW k \in SpaceIn(u) PROVE c + k \in P /\ ~(c + k <= c)
    BY <1>1, <1>2
  <2> HIDE DEF u, P
  <2>3. \A j \in P : j <= c \/ j > c
    BY <1>1
  <2> QED BY <2>1, <2>2, <2>3
<1>5. SpaceIn(u) = {} <=> Cardinality(P) = i
  BY <1>4, CutNext
<1> HIDE DEF u
<1>6. CASE SpaceIn(u) = {}
  <2>1. Cut(line, i + 1) = n + 1 /\ (n + 1) - 1 = n
    BY <1>1, <1>5, <1>6, CutNext
  <2>2. Field(u) = u
    BY <1>6 DEF Field
  <2> QED BY <1>3, <1>5, <1>6, <2>1, <2>2 DEF Behind, u
<1>7. CASE SpaceIn(u) # {}
  <2> DEFINE f == FirstSpace(u)
             m == c + f
  <2>1. SpaceIn(u) \subseteq Nat
    BY <1>2, SpacesFinite
  <2>2. \E k \in SpaceIn(u) : \A j \in SpaceIn(u) : k <= j
    BY <1>7, <2>1, LeastNatural
  <2>3. f \in SpaceIn(u) /\ \A j \in SpaceIn(u) : f <= j
    BY <2>2 DEF FirstSpace
  <2> HIDE DEF f
  <2>4. m \in P /\ m > c /\ f \in 1..(n - c) /\ m \in 1..n
    BY <1>1, <1>2, <2>3
  <2>5. ASSUME NEW j \in P, j > c PROVE j >= m
    <3>1. j \in Nat /\ j - c \in 1..(n - c) /\ c + (j - c) = j
      BY <1>1, <2>5
    <3>2. f <= j - c
      BY <1>2, <2>3, <2>5, <3>1
    <3> QED BY <1>1, <2>4, <3>1, <3>2
  <2>6. Cuts(line, i + 1, m)
    BY <2>4, <2>5, CutNext
  <2>7. Cut(line, i + 1) = m
    BY <2>6 DEF Cuts
  <2> DEFINE S == -2..MaxSamples
  <2>8. line \in Seq(S) /\ (\A k \in 1..n : line[k] \in S) /\ u \in Seq(S)
        /\ (\A k \in 1..(n - c) : u[k] \in S)
    BY <1>2, ElementOfSeq DEF Strings
  <2> HIDE DEF S
  <2>9. SubSeq(u, 1, f - 1) = SubSeq(line, c + 1, m - 1)
    <3> DEFINE a == SubSeq(u, 1, f - 1)
               b == SubSeq(line, c + 1, m - 1)
    <3>1. /\ 1 \in Int /\ f - 1 \in Int /\ c + 1 \in Int /\ m - 1 \in Int
          /\ (\A k \in 1..(f - 1) : u[k] \in S)
          /\ (\A k \in (c + 1)..(m - 1) : line[k] \in S)
      <4>1. 1 \in Int /\ f - 1 \in Int /\ c + 1 \in Int /\ m - 1 \in Int
        BY <1>1, <2>4
      <4>2. \A k \in 1..(f - 1) : k \in 1..(n - c)
        BY <1>1, <2>4
      <4>3. \A k \in (c + 1)..(m - 1) : k \in 1..n
        BY <1>1, <2>4
      <4> QED BY <2>8, <4>1, <4>2, <4>3
    <3>2. /\ a \in Seq(S) /\ Len(a) = IF 1 <= f - 1 THEN (f - 1) - 1 + 1 ELSE 0
          /\ \A k \in 1..((f - 1) - 1 + 1) : a[k] = u[1 + k - 1]
      BY <3>1, SubSeqProperties
    <3>3. /\ b \in Seq(S) /\ Len(b) = IF c + 1 <= m - 1 THEN (m - 1) - (c + 1) + 1 ELSE 0
          /\ \A k \in 1..((m - 1) - (c + 1) + 1) : b[k] = line[(c + 1) + k - 1]
      <4> HIDE DEF m
      <4> QED BY <3>1, SubSeqProperties
    <3> HIDE DEF a, b
    <3>4. Len(a) = f - 1 /\ Len(b) = f - 1
      BY <1>1, <2>4, <3>2, <3>3
    <3>5. ASSUME NEW k \in 1..(f - 1) PROVE a[k] = b[k]
      <4>1. /\ k \in 1..((f - 1) - 1 + 1) /\ 1 + k - 1 = k /\ k \in 1..(n - c)
            /\ k \in 1..((m - 1) - (c + 1) + 1) /\ (c + 1) + k - 1 = c + k
        BY <1>1, <2>4
      <4> QED BY <1>2, <3>2, <3>3, <4>1
    <3>6. a = b
      BY <3>2, <3>3, <3>4, <3>5, SeqEqual
    <3> QED BY <3>6 DEF a, b
  <2>10. Rest(u) = Behind(line, m)
    <3> DEFINE a == SubSeq(u, f + 1, Len(u))
               b == Behind(line, m)
    <3>1. a = Behind(u, f) /\ a = Rest(u)
      BY DEF Behind, Rest, f
    <3>2. f \in 0..Len(u) /\ m \in 0..Len(line)
      BY <1>1, <1>2, <2>4
    <3>3. /\ a \in Strings /\ Len(a) = Len(u) - f
          /\ \A k \in 1..(Len(u) - f) : a[k] = u[f + k]
      BY <1>2, <3>1, <3>2, BehindIs
    <3>4. /\ b \in Strings /\ Len(b) = n - m
          /\ \A k \in 1..(n - m) : b[k] = line[m + k]
      <4> HIDE DEF m
      <4> QED BY <3>2, BehindIs
    <3>5. Len(u) - f = n - m
      BY <1>1, <1>2, <2>4
    <3>6. ASSUME NEW k \in 1..(n - m) PROVE a[k] = b[k]
      <4>1. f + k \in 1..(n - c) /\ c + (f + k) = m + k
        BY <1>1, <2>4
      <4>2. a[k] = u[f + k] /\ b[k] = line[m + k]
        BY <3>3, <3>4, <3>5
      <4> QED BY <1>2, <4>1, <4>2
    <3> HIDE DEF a, b
    <3>7. a = b
      BY <3>3, <3>4, <3>5, <3>6, SeqEqual DEF Strings
    <3> QED BY <3>1, <3>7 DEF b
  <2>11. Field(u) = FieldOf(line, i + 1)
    BY <1>3, <1>7, <2>7, <2>9 DEF Field, f
  <2> QED BY <1>5, <1>7, <2>6, <2>10, <2>11 DEF u
<1> QED BY <1>6, <1>7 DEF u

(* A string read from the buffer consists of its samples; a part of one    *)
(* is no string an earlier unit left.                                      *)
FromBuffer(s) == s \in Strings /\ \A k \in 1..Len(s) : s[k] > 0

(* sscanf looks at the first character of such a string, and at nothing    *)
(* an earlier unit left.                                                   *)
LEMMA DigitFromBuffer ==
  ASSUME NEW s, FromBuffer(s)
  PROVE  IsDigitString(s) <=> StartsWithDigit(s)
<1>1. CASE s = Empty
  BY <1>1 DEF IsDigitString, StartsWithDigit
<1>2. CASE s # Empty
  <2>1. 1 \in 1..Len(s)
    <3>1. s \in Seq(-2..MaxSamples) /\ s # <<>>
      BY <1>2 DEF FromBuffer, Strings, Empty
    <3> QED BY <3>1, EmptySeq
  <2>2. s[1] > 0
    BY <2>1 DEF FromBuffer
  <2>3. s # OldNumber
    <3> SUFFICES ASSUME s = OldNumber PROVE FALSE
      OBVIOUS
    <3>1. s[1] = -1
      BY DEF OldNumber
    <3> QED BY <2>2, <3>1
  <2> QED BY <1>2, <2>2, <2>3 DEF IsDigitString, StartsWithDigit
<1> QED BY <1>1, <1>2

(* Fields of strings of the buffer come from the buffer.                   *)
LEMMA PartFromBuffer ==
  ASSUME NEW s, FromBuffer(s), NEW m \in Nat \ {0}, NEW n \in Nat, n <= Len(s)
  PROVE  /\ FromBuffer(SubSeq(s, m, n))
         /\ m <= n => SubSeq(s, m, n)[1] = s[m]
         /\ SubSeq(s, m, n) # Empty => m <= n
<1> DEFINE S == 1..MaxSamples
           u == SubSeq(s, m, n)
<1>1. /\ Len(s) \in Nat /\ \A i \in 1..Len(s) : s[i] \in -2..MaxSamples /\ s[i] > 0
  BY LenProperties, ElementOfSeq DEF FromBuffer, Strings
<1>2. \A i \in 1..Len(s) : s[i] \in S
  BY <1>1
<1>3. m \in Int /\ n \in Int /\ \A i \in m..n : s[i] \in S
  BY <1>1, <1>2
<1> HIDE DEF S
<1>4. /\ u \in Seq(S) /\ Len(u) = IF m <= n THEN n - m + 1 ELSE 0
      /\ \A i \in 1..(n - m + 1) : u[i] = s[m + i - 1]
  BY <1>3, SubSeqProperties
<1> HIDE DEF u
<1>5. \A k \in 1..Len(u) : u[k] \in S
  BY <1>4, ElementOfSeq
<1>6. \A k \in 1..Len(u) : u[k] > 0
  BY <1>5 DEF S
<1>7. u \in Strings
  <2>1. S \subseteq -2..MaxSamples
    BY DEF S
  <2>2. u \in Seq(-2..MaxSamples)
    BY <1>4, <2>1, SeqMonotonic
  <2> QED BY <2>2 DEF Strings
<1>8. m <= n => u[1] = s[m]
  <2> SUFFICES ASSUME m <= n PROVE u[1] = s[m]
    OBVIOUS
  <2>1. 1 \in 1..(n - m + 1) /\ m + 1 - 1 = m
    OBVIOUS
  <2> QED BY <1>4, <2>1
<1>9. u # Empty => m <= n
  <2> SUFFICES ASSUME ~(m <= n) PROVE u = Empty
    OBVIOUS
  <2>1. Len(u) = 0
    BY <1>4
  <2> QED BY <1>4, <2>1 DEF Empty
<1> QED BY <1>6, <1>7, <1>8, <1>9 DEF FromBuffer, u

(* A label made of a line of the buffer, with whatever the static strings  *)
(* held before.                                                            *)
Alone(label) ==
  LET line == label.line
      timed == StartsWithDigit(FieldOf(line, 1)) /\ StartsWithDigit(FieldOf(line, 2))
  IN  ~StartsWithDigit(line) \/ Cardinality(SpaceIn(line)) >= 2
         => IF timed
            THEN /\ label.begin = FieldOf(line, 1)
                 /\ label.end = FieldOf(line, 2)
                 /\ label.query = FieldOf(line, 3) /\ label.forced
            ELSE /\ label.begin = NoTime /\ label.end = NoTime
                 /\ label.query = FieldOf(line, 1) /\ ~label.forced

(* What getline leaves, and the field it reads from that                   *)
LEMMA FieldFromBuffer ==
  ASSUME NEW line, FromBuffer(line), NEW c \in 0..Len(line)
  PROVE  FromBuffer(Behind(line, c)) /\ FromBuffer(Field(Behind(line, c)))
<1> DEFINE u == Behind(line, c)
<1>1. Len(line) \in Nat
  BY LenProperties DEF FromBuffer, Strings
<1>2. FromBuffer(u)
  BY <1>1, PartFromBuffer DEF Behind
<1> HIDE DEF u
<1>3. u \in Strings
  BY <1>2 DEF FromBuffer
<1>4. CASE SpaceIn(u) = {}
  BY <1>2, <1>4 DEF Field, u
<1>5. CASE SpaceIn(u) # {}
  <2>1. SpaceIn(u) \subseteq Nat /\ SpaceIn(u) \subseteq 1..Len(u) /\ Len(u) \in Nat
    BY <1>3, SpacesFinite
  <2>2. \E k \in SpaceIn(u) : \A j \in SpaceIn(u) : k <= j
    BY <1>5, <2>1, LeastNatural
  <2>3. FirstSpace(u) \in SpaceIn(u)
    BY <2>2 DEF FirstSpace
  <2>4. FirstSpace(u) - 1 \in Nat /\ FirstSpace(u) - 1 <= Len(u) /\ 1 \in Nat \ {0}
    BY <2>1, <2>3
  <2>5. FromBuffer(SubSeq(u, 1, FirstSpace(u) - 1))
    BY <1>2, <2>4, PartFromBuffer
  <2> QED BY <1>2, <1>5, <2>5 DEF Field, u
<1> QED BY <1>4, <1>5

(* parseQuery makes such a label of every line of the buffer: the static   *)
(* strings are read only for fields the line does not have.                *)
LEMMA LabelAlone ==
  ASSUME NEW line, FromBuffer(line)
  PROVE  Alone(Label(line, Field(line), NextMiddle(line), NextLast(line)))
<1> DEFINE F1 == FieldOf(line, 1)
           F2 == FieldOf(line, 2)
           F3 == FieldOf(line, 3)
           label == Label(line, Field(line), NextMiddle(line), NextLast(line))
<1>0. line \in Strings /\ Len(line) \in Nat /\ 0 + 1 = 1 /\ 1 + 1 = 2 /\ 2 + 1 = 3
  BY SpacesFinite DEF FromBuffer
<1>1. Behind(line, 0) = line
  BY <1>0, SubSeqFull DEF Behind, Strings
<1>2. Cuts(line, 0, 0)
  BY <1>0, CutFirst
<1>3. /\ Field(line) = F1
      /\ SpaceIn(line) = {} <=> Cardinality(SpaceIn(line)) = 0
      /\ SpaceIn(line) # {} => \E m : Cuts(line, 1, m) /\ Rest(line) = Behind(line, m)
  BY <1>0, <1>1, <1>2, FieldBehind
<1>4. FromBuffer(F1)
  <2>1. 0 \in 0..Len(line)
    BY <1>0
  <2> QED BY <1>1, <1>3, <2>1, FieldFromBuffer
<1>5. label.line = line
  BY DEF Label
<1> HIDE DEF F1, F2, F3, label
<1>6. CASE Cardinality(SpaceIn(line)) >= 2
  <2>1. SpaceIn(line) # {}
    BY <1>3, <1>6
  <2>2. PICK m : Cuts(line, 1, m) /\ Rest(line) = Behind(line, m)
    BY <1>3, <2>1
  <2>3. /\ Field(Rest(line)) = F2
        /\ SpaceIn(Rest(line)) = {} <=> Cardinality(SpaceIn(line)) = 1
        /\ SpaceIn(Rest(line)) # {} =>
              \E k : Cuts(line, 2, k) /\ Rest(Rest(line)) = Behind(line, k)
    BY <1>0, <2>2, FieldBehind DEF F2
  <2>4. SpaceIn(Rest(line)) # {}
    BY <1>6, <2>3
  <2>5. PICK k : Cuts(line, 2, k) /\ Rest(Rest(line)) = Behind(line, k)
    BY <2>3, <2>4
  <2>6. Field(Rest(Rest(line))) = F3
    BY <1>0, <2>5, FieldBehind DEF F3
  <2>7. NextMiddle(line) = F2 /\ NextLast(line) = F3
    BY <2>1, <2>3, <2>4, <2>6 DEF NextMiddle, NextLast
  <2>8. FromBuffer(F2)
    <3>1. m \in 0..Len(line)
      BY <2>2 DEF Cuts
    <3> QED BY <2>2, <2>3, <3>1, FieldFromBuffer
  <2>9. (IsDigitString(F1) <=> StartsWithDigit(F1)) /\ (IsDigitString(F2) <=> StartsWithDigit(F2))
    BY <1>4, <2>8, DigitFromBuffer
  <2>10. label = Label(line, F1, F2, F3)
    BY <1>3, <2>7 DEF label
  <2>11. CASE IsDigitString(F1) /\ IsDigitString(F2)
    <3>1. /\ label.begin = F1 /\ label.end = F2 /\ label.query = F3 /\ label.forced
      BY <2>10, <2>11 DEF Label
    <3> QED BY <1>5, <2>9, <2>11, <3>1 DEF Alone, F1, F2, F3, label
  <2>12. CASE ~(IsDigitString(F1) /\ IsDigitString(F2))
    <3>1. /\ label.begin = NoTime /\ label.end = NoTime /\ label.query = F1
          /\ ~label.forced
      BY <2>10, <2>12 DEF Label
    <3> QED BY <1>5, <2>9, <2>12, <3>1 DEF Alone, F1, F2, F3, label
  <2> QED BY <2>11, <2>12
<1>7. CASE ~StartsWithDigit(line)
  <2>1. ~StartsWithDigit(F1)
    <3> SUFFICES ASSUME StartsWithDigit(F1) PROVE FALSE
      OBVIOUS
    <3>1. CASE SpaceIn(line) = {}
      BY <1>3, <1>7, <3>1 DEF Field
    <3>2. CASE SpaceIn(line) # {}
      <4>1. SpaceIn(line) \subseteq Nat /\ SpaceIn(line) \subseteq 1..Len(line)
        BY <1>0, SpacesFinite
      <4>2. \E k \in SpaceIn(line) : \A j \in SpaceIn(line) : k <= j
        BY <3>2, <4>1, LeastNatural
      <4>3. FirstSpace(line) \in SpaceIn(line)
        BY <4>2 DEF FirstSpace
      <4> DEFINE f == FirstSpace(line) - 1
                 u == SubSeq(line, 1, f)
      <4>4. f \in Nat /\ f <= Len(line) /\ F1 = u
        BY <1>0, <1>3, <3>2, <4>1, <4>3 DEF Field
      <4> HIDE DEF f
      <4>5. /\ 1 <= f => u[1] = line[1]
            /\ u # Empty => 1 <= f
        <5>1. 1 \in Nat \ {0} /\ f \in Nat /\ f <= Len(line)
          BY <4>4
        <5> QED BY <5>1, PartFromBuffer
      <4>6. u # Empty /\ bufData[u[1]] = "digit"
        BY <4>4 DEF StartsWithDigit
      <4>7. u[1] = line[1] /\ 1 <= f
        BY <4>5, <4>6
      <4>8. line # Empty
        BY <1>0, <4>4, <4>7 DEF Empty
      <4> QED BY <1>7, <4>6, <4>7, <4>8 DEF StartsWithDigit
    <3> QED BY <3>1, <3>2
  <2>2. ~IsDigitString(F1)
    BY <1>4, <2>1, DigitFromBuffer
  <2>3. /\ label.begin = NoTime /\ label.end = NoTime /\ label.query = F1
        /\ ~label.forced
    BY <1>3, <2>2 DEF Label, label
  <2> QED BY <1>5, <2>1, <2>3 DEF Alone, F1, label
<1>8. CASE ~(~StartsWithDigit(line) \/ Cardinality(SpaceIn(line)) >= 2)
  BY <1>5, <1>8 DEF Alone, label
<1> QED BY <1>6, <1>7, <1>8

-----------------------------------------------------------------------------
(* Reading a buffer: n frames of it are read, none of them a null; the     *)
(* queue has the lines that ended among them, as far as it has room, and   *)
(* the string what followed the last newline, as far as that has room.     *)
BufFrames == Len(bufData) \div bufChannels
LinesEnded(n) == Rank(Newlines, n)
ReadTo(n, e, p) ==
  /\ n \in 0..BufFrames /\ bufIndex = n * bufChannels
  /\ Len(bufData) = BufFrames * bufChannels
  /\ \A k \in 1..n : bufData[Sample(k)] # "null"
  /\ e = LinesEnded(n) /\ p = LineStart(e + 1) /\ p \in 0..n
  /\ Len(queue) = Min({maxLabelQueueLen, e})
  /\ stringBuf = [k \in 1..Min({maxStrLen, n - p}) |-> Sample(p + k)]

AloneLabels == {label \in Labels : Alone(label)}
SourceInv == /\ SourceTypeOK
             /\ FromBuffer(stringBuf)
             /\ queue \in Seq(AloneLabels)
             /\ source = "reading" => /\ \E n, e, p \in Nat : ReadTo(n, e, p)
                                      /\ \A i \in DOMAIN queue : queue[i].line = Line(i)
             /\ LabelsAsDocumented

(* There are finitely many newlines in a buffer.                           *)
LEMMA NewlinesFinite ==
  ASSUME SourceTypeOK
  PROVE  /\ BufFrames \in Nat /\ Frames = 1..BufFrames
         /\ Newlines \subseteq Frames /\ Newlines \subseteq Nat /\ IsFiniteSet(Newlines)
         /\ \A n : LinesEnded(n) \in Nat
<1>1. Len(bufData) \in Nat /\ bufChannels \in Nat \ {0}
  BY SourceAssumption DEF SourceTypeOK
<1>2. BufFrames \in Nat
  BY <1>1 DEF BufFrames
<1>3. Frames = 1..BufFrames
  BY DEF Frames, BufFrames
<1>4. Newlines \in SUBSET Frames
  BY DEF Newlines
<1>5. IsFiniteSet(Frames)
  BY <1>2, <1>3, FS_Interval
<1>6. IsFiniteSet(Newlines)
  BY <1>4, <1>5, FS_Subset
<1>7. \A n : LinesEnded(n) \in Nat
  BY <1>6, RankEnds DEF LinesEnded
<1> QED BY <1>2, <1>3, <1>4, <1>6, <1>7

(* What a line is depends on the buffer only.                              *)
LEMMA SameBuffer ==
  ASSUME bufData' = bufData, bufChannels' = bufChannels
  PROVE  /\ \A n : LinesEnded(n)' = LinesEnded(n)
         /\ \A i : Line(i)' = Line(i) /\ LineStart(i)' = LineStart(i)
         /\ \A k : Sample(k)' = Sample(k)
         /\ BufFrames' = BufFrames /\ Newlines' = Newlines
         /\ AloneLabels' = AloneLabels
<1>1. \A k : Sample(k)' = Sample(k)
  BY DEF Sample
<1>2. Frames' = Frames /\ BufFrames' = BufFrames
  BY DEF Frames, BufFrames
<1>3. Nulls' = Nulls
  BY <1>1, <1>2 DEF Nulls
<1>4. Newlines' = Newlines
  BY <1>1, <1>2, <1>3 DEF Newlines
<1>5. \A n : LinesEnded(n)' = LinesEnded(n)
  BY <1>4 DEF LinesEnded, Rank
<1>6. \A i : Newline(i)' = Newline(i)
  BY <1>4 DEF Newline
<1>7. \A i : LineStart(i)' = LineStart(i)
  BY <1>6 DEF LineStart
<1>8. \A i : LineLength(i)' = LineLength(i)
  BY <1>6, <1>7 DEF LineLength
<1>9. \A i : Line(i)' = Line(i)
  BY <1>1, <1>7, <1>8 DEF Line
<1>10. AloneLabels' = AloneLabels
  BY DEF AloneLabels, Alone, FieldOf, Cut, SpaceIn, StartsWithDigit
<1> QED BY <1>1, <1>2, <1>4, <1>5, <1>7, <1>9, <1>10

(* The sample at bufIndex is the first of frame n + 1.                     *)
LEMMA NextFrame ==
  ASSUME SourceTypeOK, NEW n \in Nat, NEW e, NEW p, ReadTo(n, e, p), Reading
  PROVE  /\ n + 1 \in Frames /\ bufIndex + 1 = Sample(n + 1)
         /\ Character = bufData[Sample(n + 1)]
         /\ bufIndex + bufChannels = (n + 1) * bufChannels
<1> DEFINE c == bufChannels
           N == BufFrames
<1>1. /\ c \in Nat \ {0} /\ N \in Nat /\ Frames = 1..N
  BY NewlinesFinite, SourceAssumption DEF SourceTypeOK
<1>2. /\ bufIndex = n * c /\ Len(bufData) = N * c /\ bufIndex < Len(bufData)
      /\ n <= N
  BY <1>1 DEF ReadTo, Reading
<1> HIDE DEF c, N
<1>3. n < N
  <2> SUFFICES ASSUME n = N PROVE FALSE
    BY <1>1, <1>2
  <2>1. n * c = N * c /\ n * c \in Int
    BY <1>1
  <2> QED BY <1>2, <2>1
<1>4. (n + 1) * c = n * c + c /\ (n + 1) - 1 = n /\ n * c \in Nat
  BY <1>1
<1>5. Sample(n + 1) = n * c + 1
  BY <1>4 DEF Sample, c
<1>6. n + 1 \in 1..N
  BY <1>1, <1>3
<1> QED BY <1>1, <1>2, <1>4, <1>5, <1>6 DEF Character, c, N

(* Reading frame n + 1: the newlines up to it, and the line it ends.       *)
LEMMA NewlineRead ==
  ASSUME SourceTypeOK, NEW n \in Nat, NEW e \in Nat, NEW p \in Nat, ReadTo(n, e, p),
         Reading, Character = "newline"
  PROVE  /\ LinesEnded(n + 1) = e + 1 /\ Newline(e + 1) = n + 1
         /\ Line(e + 1) = stringBuf
<1>1. n + 1 \in Frames /\ bufData[Sample(n + 1)] = "newline"
  BY NextFrame
<1>2. /\ Frames = 1..BufFrames /\ Newlines \subseteq Nat /\ IsFiniteSet(Newlines)
      /\ BufFrames \in Nat
  BY NewlinesFinite
<1>3. n + 1 \in Newlines
  <2> SUFFICES ASSUME NEW k \in Nulls PROVE n + 1 < k
    BY <1>1 DEF Newlines
  <2>1. k \in Nat \ {0} /\ bufData[Sample(k)] = "null"
    BY <1>2 DEF Nulls
  <2>2. k \notin 1..n
    BY <2>1 DEF ReadTo
  <2>3. k # n + 1
    BY <1>1, <2>1
  <2> QED BY <2>1, <2>2, <2>3
<1>4. Rank(Newlines, n + 1) = Rank(Newlines, n) + 1
  <2>1. n < n + 1 /\ \A j \in Newlines : j > n => j >= n + 1
    BY <1>2
  <2> QED BY <1>2, <1>3, <2>1, RankNext
<1>5. e = Rank(Newlines, n) /\ p = LineStart(e + 1)
  BY DEF ReadTo, LinesEnded
<1>6. LinesEnded(n + 1) = e + 1
  BY <1>4, <1>5 DEF LinesEnded
<1>7. Newline(e + 1) = n + 1
  <2>1. (CHOOSE x \in Newlines : Rank(Newlines, x) = Rank(Newlines, n + 1)) = n + 1
    BY <1>2, <1>3, RankChosen
  <2> QED BY <1>4, <1>5, <2>1 DEF Newline, Rank
<1>8. Line(e + 1) = stringBuf
  <2>1. (n + 1) - p - 1 = n - p
    OBVIOUS
  <2>2. LineLength(e + 1) = Min({maxStrLen, n - p})
    BY <1>5, <1>7, <2>1 DEF LineLength
  <2> QED BY <1>5, <2>2 DEF Line, ReadTo
<1> QED BY <1>6, <1>7, <1>8

(* Any other character ends no line.                                       *)
LEMMA OtherRead ==
  ASSUME SourceTypeOK, NEW n \in Nat, NEW e \in Nat, NEW p \in Nat, ReadTo(n, e, p),
         Reading, Character # "newline"
  PROVE  LinesEnded(n + 1) = e
<1>1. n + 1 \in Frames /\ bufData[Sample(n + 1)] # "newline"
  BY NextFrame
<1>2. n + 1 \notin Newlines /\ Newlines \subseteq Nat
  BY <1>1, NewlinesFinite DEF Newlines
<1>3. {j \in Newlines : j <= n + 1} = {j \in Newlines : j <= n}
  <2>1. \A j \in Newlines : j \in Nat /\ j # n + 1
    BY <1>2
  <2>2. \A j \in Newlines : j <= n + 1 <=> j <= n
    BY <2>1
  <2> QED BY <2>2
<1> QED BY <1>3 DEF ReadTo, LinesEnded, Rank

(* The strings the labels are made of                                      *)
LEMMA StringRead ==
  ASSUME SourceTypeOK, FromBuffer(stringBuf), Reading
  PROVE  LET s == IF Len(stringBuf) < maxStrLen
                  THEN Append(stringBuf, bufIndex + 1) ELSE stringBuf
         IN  FromBuffer(s)
<1>1. bufIndex + 1 \in 1..MaxSamples
  BY SourceAssumption DEF SourceTypeOK, Reading
<1> DEFINE S == -2..MaxSamples
           x == bufIndex + 1
           s == Append(stringBuf, x)
<1>2. stringBuf \in Seq(S) /\ x \in S /\ x > 0
  BY <1>1 DEF FromBuffer, Strings
<1> HIDE DEF S, x
<1>3. /\ s \in Seq(S) /\ Len(s) = Len(stringBuf) + 1 /\ Len(stringBuf) \in Nat
      /\ \A k \in 1..Len(stringBuf) : s[k] = stringBuf[k]
      /\ s[Len(stringBuf) + 1] = x
  BY <1>2, AppendProperties, LenProperties
<1> HIDE DEF s
<1>4. \A k \in 1..Len(s) : s[k] > 0
  <2> SUFFICES ASSUME NEW k \in 1..Len(s) PROVE s[k] > 0
    OBVIOUS
  <2>1. k \in 1..Len(stringBuf) \/ k = Len(stringBuf) + 1
    BY <1>3
  <2> QED BY <1>2, <1>3, <2>1 DEF FromBuffer
<1>5. FromBuffer(s)
  BY <1>3, <1>4 DEF FromBuffer, Strings, S
<1> QED BY <1>5 DEF s, x

(* A character is added: the string is still what follows the newline.     *)
LEMMA ReadOtherInv == SourceInv /\ ReadOther => SourceInv'
<1> SUFFICES ASSUME SourceInv, ReadOther PROVE SourceInv'
  OBVIOUS
<1> USE SourceAssumption
<1>1. /\ Reading /\ Character \notin {"null", "newline"} /\ source = "reading"
      /\ bufIndex' = bufIndex + bufChannels
      /\ stringBuf' = IF Len(stringBuf) < maxStrLen
                      THEN Append(stringBuf, bufIndex + 1) ELSE stringBuf
      /\ source' = source /\ bufData' = bufData /\ bufChannels' = bufChannels
      /\ queue' = queue
  BY DEF ReadOther, Reading, bufVars
<1>2. SourceTypeOK'
  BY ReadKeeps DEF SourceInv, Read
<1>3. FromBuffer(stringBuf')
  BY <1>1, StringRead DEF SourceInv
<1>4. PICK n \in Nat, e \in Nat, p \in Nat : ReadTo(n, e, p)
  BY <1>1 DEF SourceInv
<1>5. /\ n + 1 \in Frames /\ bufIndex + 1 = Sample(n + 1)
      /\ Character = bufData[Sample(n + 1)]
      /\ bufIndex + bufChannels = (n + 1) * bufChannels
  BY <1>1, <1>4, NextFrame DEF SourceInv
<1>6. LinesEnded(n + 1) = e
  BY <1>1, <1>4, OtherRead DEF SourceInv
<1>7. Frames = 1..BufFrames /\ BufFrames \in Nat
  BY NewlinesFinite DEF SourceInv
<1> DEFINE m == Min({maxStrLen, n - p})
           M == Min({maxStrLen, (n + 1) - p})
           f == [k \in 1..M |-> Sample(p + k)]
<1>8. p \in 0..n /\ stringBuf = [k \in 1..m |-> Sample(p + k)]
  BY <1>4 DEF ReadTo
<1>9. /\ m = IF maxStrLen <= n - p THEN maxStrLen ELSE n - p
      /\ M = IF maxStrLen <= (n + 1) - p THEN maxStrLen ELSE (n + 1) - p
  <2>1. maxStrLen \in Int /\ n - p \in Int /\ (n + 1) - p \in Int
    BY <1>8
  <2> QED BY <2>1, MinOfTwo
<1> HIDE DEF m, M
<1>10. m \in Nat /\ M \in Nat
  BY <1>8, <1>9
<1>11. Len(stringBuf) = m /\ DOMAIN stringBuf = 1..m /\ stringBuf \in Strings
  <2>1. stringBuf \in Strings /\ DOMAIN stringBuf = 1..m
    BY <1>8 DEF SourceInv, FromBuffer
  <2>2. DOMAIN stringBuf = 1..Len(stringBuf) /\ Len(stringBuf) \in Nat
    BY <2>1, LenProperties DEF Strings
  <2>3. Len(stringBuf) = m
    BY <1>10, <2>1, <2>2
  <2> QED BY <2>1, <2>3
<1>12. stringBuf' = f
  <2>1. CASE m < maxStrLen
    <3>1. M = m + 1 /\ p + (m + 1) = n + 1
      BY <1>8, <1>9, <2>1
    <3> DEFINE S == -2..MaxSamples
               x == bufIndex + 1
    <3>2. stringBuf \in Seq(S) /\ x \in S /\ stringBuf' = Append(stringBuf, x)
      BY <1>1, <1>11, <2>1 DEF Strings, SourceInv, SourceTypeOK, Reading
    <3> HIDE DEF S, x
    <3>3. /\ stringBuf' \in Seq(S) /\ Len(stringBuf') = m + 1
          /\ DOMAIN stringBuf' = 1..(m + 1)
          /\ \A k \in 1..m : stringBuf'[k] = stringBuf[k]
          /\ stringBuf'[m + 1] = x
      BY <1>11, <3>2, AppendProperties, LenProperties
    <3>4. stringBuf' = [k \in 1..(m + 1) |-> stringBuf'[k]]
      BY <3>3, LenProperties
    <3>5. \A k \in 1..(m + 1) : stringBuf'[k] = Sample(p + k)
      <4> SUFFICES ASSUME NEW k \in 1..(m + 1) PROVE stringBuf'[k] = Sample(p + k)
        OBVIOUS
      <4>1. CASE k \in 1..m
        BY <1>8, <3>3, <4>1
      <4>2. CASE k = m + 1
        BY <1>5, <3>1, <3>3, <4>2 DEF x
      <4> QED BY <1>10, <4>1, <4>2
    <3> QED BY <3>1, <3>4, <3>5
  <2>2. CASE ~(m < maxStrLen)
    <3>1. M = m
      BY <1>8, <1>9, <2>2
    <3> QED BY <1>1, <1>8, <1>11, <2>2, <3>1
  <2> QED BY <2>1, <2>2
<1>13. ReadTo(n + 1, e, p)'
  <2>1. n + 1 \in 0..BufFrames /\ p \in 0..(n + 1) /\ n + 1 \in Nat
    BY <1>5, <1>7, <1>8
  <2>2. \A k \in 1..(n + 1) : bufData[Sample(k)] # "null"
    <3>1. \A k \in 1..(n + 1) : k \in 1..n \/ k = n + 1
      OBVIOUS
    <3> QED BY <1>1, <1>4, <1>5, <3>1 DEF ReadTo
  <2>3. p = LineStart(e + 1) /\ Len(queue) = Min({maxLabelQueueLen, e})
        /\ Len(bufData) = BufFrames * bufChannels
    BY <1>4 DEF ReadTo
  <2>4. \A k : Sample(k)' = Sample(k)
    BY <1>1, SameBuffer
  <2>5. BufFrames' = BufFrames /\ LinesEnded(n + 1)' = e /\ LineStart(e + 1)' = p
    BY <1>1, <1>6, <2>3, SameBuffer
  <2> QED BY <1>1, <1>5, <1>12, <2>1, <2>2, <2>3, <2>4, <2>5 DEF ReadTo, M
<1>14. \A i \in DOMAIN queue' : queue'[i].line = Line(i)'
  BY <1>1, SameBuffer DEF SourceInv
<1>15. queue' \in Seq(AloneLabels')
  BY <1>1, SameBuffer DEF SourceInv
<1>16. LabelsAsDocumented'
  BY <1>1 DEF LabelsAsDocumented
<1>17. n + 1 \in Nat
  OBVIOUS
<1> QED BY <1>2, <1>3, <1>13, <1>14, <1>15, <1>16, <1>17 DEF SourceInv, FromBuffer

(* A newline ends a line: the label made of it is the next documented one, *)
(* or there is no room for it.                                             *)
LEMMA ReadNewlineInv == SourceInv /\ ReadNewline => SourceInv'
<1> SUFFICES ASSUME SourceInv, ReadNewline PROVE SourceInv'
  OBVIOUS
<1> USE SourceAssumption
<1> DEFINE label == Label(stringBuf, Field(stringBuf), NextMiddle(stringBuf),
                          NextLast(stringBuf))
<1>1. /\ Reading /\ Character = "newline" /\ source = "reading"
      /\ bufIndex' = bufIndex + bufChannels
      /\ stringBuf' = Empty
      /\ source' = source /\ bufData' = bufData /\ bufChannels' = bufChannels
      /\ queue' = IF Len(queue) < maxLabelQueueLen THEN Append(queue, label) ELSE queue
  BY DEF ReadNewline, Reading, bufVars, ParseQuery
<1>2. SourceTypeOK'
  BY ReadKeeps DEF SourceInv, Read
<1>3. label.line = stringBuf /\ label \in AloneLabels
  <2>1. stringBuf \in Strings /\ FromBuffer(stringBuf) /\ SourceTypeOK
    BY DEF SourceInv, FromBuffer
  <2>2. /\ Field(stringBuf) \in Strings /\ NextMiddle(stringBuf) \in Strings
        /\ NextLast(stringBuf) \in Strings
    BY <2>1, ParseType
  <2>3. label \in Labels
    BY <2>1, <2>2, LabelType
  <2>4. Alone(label)
    BY <2>1, LabelAlone
  <2>5. label.line = stringBuf
    BY DEF Label
  <2> HIDE DEF label
  <2> QED BY <2>3, <2>4, <2>5 DEF AloneLabels
<1> HIDE DEF label
<1>4. PICK n \in Nat, e \in Nat, p \in Nat : ReadTo(n, e, p)
  BY <1>1 DEF SourceInv
<1>5. /\ n + 1 \in Frames /\ bufIndex + 1 = Sample(n + 1)
      /\ Character = bufData[Sample(n + 1)]
      /\ bufIndex + bufChannels = (n + 1) * bufChannels
  BY <1>1, <1>4, NextFrame DEF SourceInv
<1>6. LinesEnded(n + 1) = e + 1 /\ Newline(e + 1) = n + 1 /\ Line(e + 1) = stringBuf
  BY <1>1, <1>4, NewlineRead DEF SourceInv
<1>7. Frames = 1..BufFrames /\ BufFrames \in Nat
  BY NewlinesFinite DEF SourceInv
<1>8. LineStart((e + 1) + 1) = n + 1
  <2>1. (e + 1) + 1 # 1 /\ ((e + 1) + 1) - 1 = e + 1
    OBVIOUS
  <2> QED BY <1>6, <2>1 DEF LineStart
<1> DEFINE q == Len(queue)
           M == maxLabelQueueLen
<1>9. queue \in Seq(AloneLabels) /\ q \in Nat /\ DOMAIN queue = 1..q
      /\ \A i \in 1..q : queue[i].line = Line(i)
  <2>1. queue \in Seq(AloneLabels) /\ \A i \in DOMAIN queue : queue[i].line = Line(i)
    BY <1>1 DEF SourceInv
  <2> QED BY <2>1, LenProperties
<1>10. /\ q = IF M <= e THEN M ELSE e
       /\ Min({M, e + 1}) = IF M <= e + 1 THEN M ELSE e + 1
  <2>1. M \in Int /\ e \in Int /\ e + 1 \in Int
    OBVIOUS
  <2>2. q = Min({M, e})
    BY <1>4 DEF ReadTo
  <2> QED BY <2>1, <2>2, MinOfTwo
<1>11. /\ queue' \in Seq(AloneLabels) /\ Len(queue') = Min({M, e + 1})
       /\ \A i \in DOMAIN queue' : queue'[i].line = Line(i)
  <2> HIDE DEF q
  <2>1. CASE q < M
    <3>1. q = e /\ Min({M, e + 1}) = e + 1 /\ queue' = Append(queue, label)
      BY <1>1, <1>10, <2>1 DEF q
    <3> HIDE DEF M
    <3>2. /\ queue' \in Seq(AloneLabels) /\ Len(queue') = q + 1
          /\ \A i \in 1..q : queue'[i] = queue[i]
          /\ queue'[q + 1] = label
      BY <1>3, <1>9, <3>1, AppendProperties DEF q
    <3>3. DOMAIN queue' = 1..(q + 1)
      BY <3>2, LenProperties
    <3>4. ASSUME NEW i \in DOMAIN queue' PROVE queue'[i].line = Line(i)
      <4>1. i \in 1..q \/ i = q + 1
        BY <1>9, <3>3
      <4>2. CASE i \in 1..q
        BY <1>9, <3>2, <4>2
      <4>3. CASE i = q + 1
        BY <1>3, <1>6, <3>1, <3>2, <4>3
      <4> QED BY <4>1, <4>2, <4>3
    <3> QED BY <3>1, <3>2, <3>4
  <2>2. CASE ~(q < M)
    <3>1. queue' = queue /\ Min({M, e + 1}) = q
      BY <1>1, <1>10, <2>2 DEF q
    <3> QED BY <1>9, <3>1 DEF q
  <2> QED BY <2>1, <2>2
<1>12. Empty = [k \in 1..Min({maxStrLen, (n + 1) - (n + 1)}) |-> Sample((n + 1) + k)]
  <2> DEFINE f == [k \in 1..0 |-> Sample((n + 1) + k)]
  <2>1. Min({maxStrLen, (n + 1) - (n + 1)}) = 0
    <3>1. maxStrLen \in Int /\ (n + 1) - (n + 1) = 0 /\ 0 \in Int
      OBVIOUS
    <3> QED BY <3>1, MinOfTwo
  <2>2. f = [k \in 1..0 |-> f[k]]
    OBVIOUS
  <2>3. f = <<>>
    <3> HIDE DEF f
    <3> QED BY <2>2, NoElements
  <2> QED BY <2>1, <2>3 DEF Empty
<1>13. ReadTo(n + 1, e + 1, n + 1)'
  <2>1. n + 1 \in 0..BufFrames /\ n + 1 \in 0..(n + 1)
    BY <1>5, <1>7
  <2>2. \A k \in 1..(n + 1) : bufData[Sample(k)] # "null"
    <3>1. \A k \in 1..(n + 1) : k \in 1..n \/ k = n + 1
      OBVIOUS
    <3> QED BY <1>1, <1>4, <1>5, <3>1 DEF ReadTo
  <2>3. Len(bufData) = BufFrames * bufChannels
    BY <1>4 DEF ReadTo
  <2>4. \A k : Sample(k)' = Sample(k)
    BY <1>1, SameBuffer
  <2>5. BufFrames' = BufFrames /\ LinesEnded(n + 1)' = e + 1
        /\ LineStart((e + 1) + 1)' = n + 1
    BY <1>1, <1>6, <1>8, SameBuffer
  <2> QED BY <1>1, <1>5, <1>11, <1>12, <2>1, <2>2, <2>3, <2>4, <2>5 DEF ReadTo
<1>14. \A i \in DOMAIN queue' : queue'[i].line = Line(i)'
  BY <1>1, <1>11, SameBuffer
<1>15. queue' \in Seq(AloneLabels')
  BY <1>1, <1>11, SameBuffer
<1>16. LabelsAsDocumented'
  BY <1>1 DEF LabelsAsDocumented
<1>17. n + 1 \in Nat /\ e + 1 \in Nat
  OBVIOUS
<1>18. FromBuffer(stringBuf')
  <2>1. Empty \in Seq(-2..MaxSamples) /\ Len(Empty) = 0
    BY DEF Empty
  <2> QED BY <1>1, <2>1 DEF FromBuffer, Strings
<1> QED BY <1>2, <1>13, <1>14, <1>15, <1>16, <1>17, <1>18 DEF SourceInv, FromBuffer

(* At a null character, or at the end of the buffer, no newline is left.   *)
LEMMA ReadStopInv == SourceInv /\ (ReadNull \/ ReadEnd) => SourceInv'
<1> SUFFICES ASSUME SourceInv, ReadNull \/ ReadEnd PROVE SourceInv'
  OBVIOUS
<1> USE SourceAssumption
<1>1. /\ source = "reading" /\ source' = "done"
      /\ stringBuf' = stringBuf /\ queue' = queue
      /\ bufData' = bufData /\ bufChannels' = bufChannels
  BY DEF ReadNull, ReadEnd, Reading, bufVars
<1>2. SourceTypeOK'
  BY ReadKeeps DEF SourceInv, Read
<1>3. PICK n \in Nat, e \in Nat, p \in Nat : ReadTo(n, e, p)
  BY <1>1 DEF SourceInv
<1>4. /\ Frames = 1..BufFrames /\ BufFrames \in Nat /\ Newlines \subseteq Frames
      /\ IsFiniteSet(Newlines)
  BY NewlinesFinite DEF SourceInv
<1>5. \A j \in Newlines : j <= n
  <2>1. CASE ReadNull
    <3>1. Reading /\ Character = "null"
      BY <2>1 DEF ReadNull
    <3>2. n + 1 \in Nulls
      BY <1>3, <3>1, NextFrame DEF SourceInv, Nulls
    <3>3. \A j \in Newlines : j < n + 1 /\ j \in Nat
      BY <1>4, <3>2 DEF Newlines
    <3> QED BY <3>3
  <2>2. CASE ReadEnd
    <3> DEFINE c == bufChannels
               N == BufFrames
    <3>1. /\ bufIndex = n * c /\ Len(bufData) = N * c /\ bufIndex >= Len(bufData)
          /\ n <= N /\ c \in Nat \ {0} /\ N \in Nat
      BY <1>3, <1>4, <2>2 DEF ReadTo, ReadEnd, SourceInv, SourceTypeOK
    <3> HIDE DEF c, N
    <3>2. n >= N
      <4> SUFFICES ASSUME n + 1 <= N PROVE FALSE
        BY <3>1
      <4>1. PICK d \in Nat : N = n + 1 + d
        <5>1. N - (n + 1) \in Nat /\ N = n + 1 + (N - (n + 1))
          BY <3>1
        <5> QED BY <5>1
      <4>2. N * c = n * c + c + d * c /\ n * c \in Nat /\ d * c \in Nat
        BY <3>1, <4>1
      <4> QED BY <3>1, <4>2
    <3> QED BY <1>4, <3>1, <3>2 DEF N
  <2> QED BY <2>1, <2>2
<1>6. e = Cardinality(Newlines)
  BY <1>3, <1>4, <1>5, RankEnds DEF ReadTo, LinesEnded
<1>7. Len(queue) = Min({maxLabelQueueLen, Cardinality(Newlines)})
  BY <1>3, <1>6 DEF ReadTo
<1>8. LabelsAsDocumented'
  BY <1>1, <1>7, SameBuffer DEF LabelsAsDocumented, SourceInv
<1>9. queue' \in Seq(AloneLabels')
  BY <1>1, SameBuffer DEF SourceInv
<1> QED BY <1>1, <1>2, <1>8, <1>9 DEF SourceInv, FromBuffer

(* The constructor opens a buffer: nothing of it is read.                  *)
LEMMA OpenInv == SourceInv /\ CtorOpen => SourceInv'
<1> SUFFICES ASSUME SourceInv, CtorOpen PROVE SourceInv'
  OBVIOUS
<1> USE SourceAssumption
<1>1. PICK data \in Buffers, channels \in 1..MaxChannels : OpenBuf(data, channels)
  BY DEF CtorOpen
<1>2. SourceTypeOK'
  BY OpenKeeps DEF SourceInv
<1>3. /\ source' = "reading" /\ bufData' = data /\ bufChannels' = channels
      /\ bufIndex' = 0 /\ stringBuf' = Empty /\ queue' = <<>>
      /\ Len(data) % channels = 0
  BY <1>1 DEF OpenBuf
<1> DEFINE L == Len(data)
           c == channels
           N == L \div c
<1>4. L \in Nat /\ c \in Nat \ {0}
  BY <1>2, <1>3 DEF SourceTypeOK
<1>5. BufFrames' = N /\ Newlines' \subseteq 1..N
  BY <1>3 DEF BufFrames, Newlines, Frames
<1>6. N \in Nat /\ L = N * c
  <2> HIDE DEF L, c
  <2>1. L = c * (L \div c) + (L % c) /\ L \div c \in Nat
    BY <1>4
  <2>2. L % c = 0
    BY <1>3 DEF L, c
  <2> QED BY <1>4, <2>1, <2>2
<1> HIDE DEF N
<1>7. LinesEnded(0)' = 0
  <2>1. {j \in Newlines' : j <= 0} = {}
    <3>1. \A j \in 1..N : ~(j <= 0)
      BY <1>6
    <3> QED BY <1>5, <3>1
  <2>2. Cardinality({j \in Newlines' : j <= 0}) = 0
    BY <2>1, FS_EmptySet
  <2> QED BY <2>2 DEF LinesEnded, Rank
<1>8. Min({maxLabelQueueLen, 0}) = 0 /\ Min({maxStrLen, 0 - 0}) = 0
  <2>1. maxLabelQueueLen \in Int /\ maxStrLen \in Int /\ 0 \in Int /\ 0 - 0 = 0
    OBVIOUS
  <2> QED BY <2>1, MinOfTwo
<1>9. LineStart(0 + 1)' = 0
  BY DEF LineStart
<1>10. Empty = [k \in 1..0 |-> Sample(0 + k)']
  <2> DEFINE f == [k \in 1..0 |-> Sample(0 + k)']
  <2>1. f = [k \in 1..0 |-> f[k]]
    OBVIOUS
  <2>2. f = <<>>
    <3> HIDE DEF f
    <3> QED BY <2>1, NoElements
  <2> QED BY <2>2 DEF Empty
<1>11. ReadTo(0, 0, 0)'
  <2>1. 0 \in 0..N /\ 0 = 0 * c /\ 0 \in 0..0 /\ Len(<<>>) = 0 /\ \A k : k \notin 1..0
    BY <1>4, <1>6
  <2> QED BY <1>3, <1>5, <1>6, <1>7, <1>8, <1>9, <1>10, <2>1 DEF ReadTo
<1>12. FromBuffer(stringBuf')
  <2>1. Empty \in Seq(-2..MaxSamples) /\ Len(Empty) = 0
    BY DEF Empty
  <2> QED BY <1>3, <2>1 DEF FromBuffer, Strings
<1>13. queue' \in Seq(AloneLabels') /\ DOMAIN queue' = {}
  BY <1>3
<1>14. LabelsAsDocumented'
  BY <1>3 DEF LabelsAsDocumented
<1> QED BY <1>2, <1>3, <1>11, <1>12, <1>13, <1>14 DEF SourceInv, FromBuffer

(* Between buffers there is no label.                                      *)
LEMMA ClosedInv ==
  ASSUME SourceTypeOK', source' = "none", stringBuf' = Empty, queue' = <<>>
  PROVE  SourceInv'
<1>1. FromBuffer(stringBuf')
  <2>1. Empty \in Seq(-2..MaxSamples) /\ Len(Empty) = 0
    BY DEF Empty
  <2> QED BY <2>1 DEF FromBuffer, Strings
<1>2. queue' \in Seq(AloneLabels') /\ LabelsAsDocumented'
  BY DEF LabelsAsDocumented
<1> QED BY <1>1, <1>2 DEF SourceInv, FromBuffer

(* SourceInv holds in every state of a unit.                               *)
LEMMA SourceInvAlways == UnitSpec => []SourceInv
<1> USE SourceAssumption
<1>1. UnitInit => SourceInv
  <2> SUFFICES ASSUME UnitInit PROVE SourceInv
    OBVIOUS
  <2>1. /\ Empty \in Strings /\ Len(Empty) = 0
        /\ OldNumber \in Strings /\ OldText \in Strings
    BY DEF Empty, OldNumber, OldText, Strings
  <2>2. SourceTypeOK
    BY <2>1 DEF UnitInit, SourceInit, SourceTypeOK
  <2>3. source = "none" /\ stringBuf = Empty /\ queue = <<>>
    BY DEF UnitInit, SourceInit
  <2>4. FromBuffer(stringBuf)
    BY <2>1, <2>3 DEF FromBuffer
  <2>5. queue \in Seq(AloneLabels) /\ LabelsAsDocumented
    BY <2>3 DEF LabelsAsDocumented
  <2> QED BY <2>2, <2>3, <2>4, <2>5 DEF SourceInv
<1>2. SourceInv /\ [UnitNext]_vars => SourceInv'
  <2> SUFFICES ASSUME SourceInv, [UnitNext]_vars PROVE SourceInv'
    OBVIOUS
  <2>1. CASE CtorOpen
    BY <2>1, OpenInv
  <2>2. CASE CtorRead
    BY <2>2, ReadNewlineInv, ReadOtherInv, ReadStopInv DEF CtorRead, Read
  <2>3. CASE CtorEnd
    <3>1. SourceTypeOK' /\ source' = "none" /\ stringBuf' = Empty /\ queue' = <<>>
      BY <2>3, CloseKeeps DEF CtorEnd, CloseBuf, SourceInv
    <3> QED BY <3>1, ClosedInv
  <2>4. CASE UNCHANGED sourceVars
    <3>1. /\ source' = source /\ bufData' = bufData /\ bufChannels' = bufChannels
          /\ bufIndex' = bufIndex /\ stringBuf' = stringBuf /\ queue' = queue
          /\ first' = first /\ middle' = middle /\ last' = last
      BY <2>4 DEF sourceVars, bufVars, statics
    <3>2. SourceTypeOK' /\ FromBuffer(stringBuf')
      BY <3>1 DEF SourceInv, SourceTypeOK, FromBuffer
    <3>3. queue' \in Seq(AloneLabels') /\ LabelsAsDocumented'
      BY <3>1, SameBuffer DEF SourceInv, LabelsAsDocumented
    <3>4. ASSUME source' = "reading"
          PROVE  /\ \E n, e, p \in Nat : ReadTo(n, e, p)'
                 /\ \A i \in DOMAIN queue' : queue'[i].line = Line(i)'
      <4>1. PICK n \in Nat, e \in Nat, p \in Nat : ReadTo(n, e, p)
        BY <3>1, <3>4 DEF SourceInv
      <4>2. ReadTo(n, e, p)'
        <5>1. /\ BufFrames' = BufFrames /\ LinesEnded(n)' = LinesEnded(n)
              /\ LineStart(e + 1)' = LineStart(e + 1) /\ \A k : Sample(k)' = Sample(k)
          BY <3>1, SameBuffer
        <5> QED BY <3>1, <4>1, <5>1 DEF ReadTo
      <4>3. \A i \in DOMAIN queue' : queue'[i].line = Line(i)'
        BY <3>1, <3>4, SameBuffer DEF SourceInv
      <4> QED BY <4>2, <4>3
    <3> QED BY <3>2, <3>3, <3>4 DEF SourceInv, FromBuffer
  <2> QED BY <2>1, <2>2, <2>3, <2>4 DEF UnitNext, CtorNoBuf, UnitRest, vars
<1> QED BY <1>1, <1>2, PTL DEF UnitSpec

(* The labels a constructor finds in a buffer of any size and any number   *)
(* of channels are the documented lines, in order, as far as the queue has *)
(* room.                                                                   *)
THEOREM LabelsReadAsDocumented == UnitSpec => []LabelsAsDocumented
<1>1. SourceInv => LabelsAsDocumented
  BY DEF SourceInv
<1> QED BY <1>1, SourceInvAlways, PTL

(* A well-formed label of whatever length, in whatever buffer, gets none   *)
(* of the fields earlier labels left in parseQuery's static strings.       *)
THEOREM LabelsParsedAlone == UnitSpec => []WellFormedParsedAlone
<1>1. SourceInv => WellFormedParsedAlone
  <2> SUFFICES ASSUME SourceInv, NEW i \in DOMAIN queue PROVE Alone(queue[i])
    BY DEF WellFormedParsedAlone, Alone
  <2>1. queue \in Seq(AloneLabels)
    BY DEF SourceInv
  <2>2. queue[i] \in AloneLabels
    BY <2>1, LenProperties, ElementOfSeq
  <2> QED BY <2>2 DEF AloneLabels
<1> QED BY <1>1, SourceInvAlways, PTL
=============================================================================
