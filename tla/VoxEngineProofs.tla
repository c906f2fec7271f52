--------------------------- MODULE VoxEngineProofs ---------------------------
(***************************************************************************)
(* Proofs about the norns engine under its script: its types, that a       *)
(* labelling that keeps to its five seconds puts every phrase where the    *)
(* variants of the synth look for it, and that the engine ends up with     *)
(* what the screen shows, for any number of phrases, commands, controls    *)
(* and values.                                                             *)
(***************************************************************************)
EXTENDS VoxEngine, DataInduction

(* The phrases whose chain of commands has ended: one buffer for each.     *)
Done == {p \in Phrases : Labelled(p)}

EngineInv == /\ index \in 0..NPhrases
             /\ step \in [Phrases -> 0..(NCommands + 1)]
             /\ failed \subseteq Phrases
             /\ buffers \in Seq(Phrases \cup {Silence})
             /\ Len(buffers) = Cardinality(Done)
             /\ late \in BOOLEAN /\ ready \in BOOLEAN
             /\ synths \in Seq([asked : Phrases, spoken : Phrases \cup {Silence}])
             /\ Len(synths) <= MaxPlays

(* While nothing is late the chains run one at a time: all phrases before  *)
(* the one waited for are done, none after it is started, and the buffers  *)
(* are those of the phrases in their order.                                *)
Place(p) == IF p \in failed THEN Silence ELSE p
InOrder == /\ \A p \in Phrases : p < index => Labelled(p)
           /\ \A p \in Phrases : p > index => step[p] = 0
           /\ \A p \in Phrases : p \in failed => step[p] > 0
           /\ Len(buffers) = IF index < NPhrases /\ Labelled(index)
                             THEN index + 1 ELSE index
           /\ \A b \in DOMAIN buffers : buffers[b] = Place(b - 1)
OrderInv == /\ ready => index = NPhrases
            /\ ~ready => synths = <<>>
            /\ ~late => InOrder /\ OnTimeSpeaksAsked

-----------------------------------------------------------------------------
(* There are finitely many phrases, and at most as many are done.          *)
LEMMA DoneFinite ==
  /\ IsFiniteSet(Done) /\ Cardinality(Done) \in Nat
  /\ Cardinality(Done) <= NPhrases
<1>1. NPhrases \in Nat \ {0} /\ 0 \in Int /\ NPhrases - 1 \in Int
  BY PhrasesAssumption
<1>2. IsFiniteSet(Phrases) /\ Cardinality(Phrases) = NPhrases
  BY <1>1, FS_Interval DEF Phrases
<1>3. Done \in SUBSET Phrases
  BY DEF Done
<1> QED BY <1>2, <1>3, FS_Subset, FS_CardinalityType

(* A step of the whole is one of the engine, or leaves its state alone.    *)
LEMMA EngineStep ==
  ASSUME [Next]_allVars
  PROVE  \/ Labelize \/ WaitOver \/ Alloc
         \/ \E p \in Phrases, ok \in BOOLEAN : CommandDone(p, ok)
         \/ \E p \in Phrases, ok \in BOOLEAN : LastCommandDone(p, ok)
         \/ \E p \in Phrases : Play(p)
         \/ UNCHANGED vars
<1>1. CASE Labelling
  BY <1>1 DEF Labelling, Progress
<1>2. CASE Script
  BY <1>2 DEF Script
<1>3. CASE Handle
  BY <1>3 DEF Handle
<1>4. CASE UNCHANGED allVars
  BY <1>4 DEF allVars
<1> QED BY <1>1, <1>2, <1>3, <1>4 DEF Next

(* The initial state has no phrase done. *)
LEMMA EngineInvInit == Init => EngineInv /\ OrderInv
<1> SUFFICES ASSUME EngineInit PROVE EngineInv /\ OrderInv
  BY DEF Init
<1> USE PhrasesAssumption, PlaysAssumption DEF EngineInit
<1>1. \A p \in Phrases : step[p] = 0
  OBVIOUS
<1>2. Done = {}
  BY <1>1 DEF Done, Labelled
<1>3. EngineInv
  <2>1. Cardinality(Done) = 0
    BY <1>2, FS_EmptySet
  <2>2. /\ buffers \in Seq(Phrases \cup {Silence}) /\ Len(buffers) = 0
        /\ synths \in Seq([asked : Phrases, spoken : Phrases \cup {Silence}])
        /\ Len(synths) = 0
    OBVIOUS
  <2>3. step \in [Phrases -> 0..(NCommands + 1)] /\ index \in 0..NPhrases
    OBVIOUS
  <2>4. late \in BOOLEAN /\ ready \in BOOLEAN /\ failed \subseteq Phrases
    OBVIOUS
  <2> QED BY <2>1, <2>2, <2>3, <2>4 DEF EngineInv
<1>4. ~Labelled(0)
  BY <1>1 DEF Labelled, Phrases
<1>5. OrderInv
  BY <1>1, <1>4 DEF OrderInv, InOrder, OnTimeSpeaksAsked, Phrases
<1> QED BY <1>3, <1>5

(* A step that ends no chain leaves the set of done phrases alone.         *)
LEMMA SameDone ==
  ASSUME \A p \in Phrases : Labelled(p)' <=> Labelled(p)
  PROVE  Done' = Done
BY DEF Done, Phrases

(* Types and the number of buffers are kept by every step. *)
LEMMA EngineInvStep == EngineInv /\ [Next]_allVars => EngineInv'
<1> SUFFICES ASSUME EngineInv, [Next]_allVars PROVE EngineInv'
  OBVIOUS
<1> USE PhrasesAssumption, PlaysAssumption
<1>1. CASE Labelize
  <2>1. index \in Phrases
    BY <1>1 DEF Labelize, EngineInv, Phrases
  <2>2. step' \in [Phrases -> 0..(NCommands + 1)]
    BY <1>1, <2>1 DEF Labelize, EngineInv
  <2>3. Done' = Done
    <3>1. \A p \in Phrases : Labelled(p)' <=> Labelled(p)
      BY <1>1, <2>1 DEF Labelize, EngineInv, Labelled
    <3> QED BY <3>1, SameDone
  <2> QED BY <1>1, <2>2, <2>3 DEF Labelize, EngineInv
<1>2. CASE WaitOver
  <2>1. Done' = Done
    BY <1>2, SameDone DEF WaitOver, Labelled
  <2> QED BY <1>2, <2>1 DEF WaitOver, EngineInv
<1>3. CASE Alloc
  <2>1. Done' = Done
    BY <1>3, SameDone DEF Alloc, Labelled
  <2> QED BY <1>3, <2>1 DEF Alloc, EngineInv
<1>4. ASSUME NEW p \in Phrases, NEW ok \in BOOLEAN, CommandDone(p, ok)
      PROVE  EngineInv'
  <2>1. step' \in [Phrases -> 0..(NCommands + 1)]
    BY <1>4 DEF CommandDone, EngineInv
  <2>2. Done' = Done
    <3>1. \A q \in Phrases : Labelled(q)' <=> Labelled(q)
      BY <1>4 DEF CommandDone, EngineInv, Labelled
    <3> QED BY <3>1, SameDone
  <2>3. failed' \subseteq Phrases
    BY <1>4 DEF CommandDone, EngineInv
  <2> QED BY <1>4, <2>1, <2>2, <2>3 DEF CommandDone, EngineInv
<1>5. ASSUME NEW p \in Phrases, NEW ok \in BOOLEAN, LastCommandDone(p, ok)
      PROVE  EngineInv'
  <2>1. step' \in [Phrases -> 0..(NCommands + 1)]
    BY <1>5 DEF LastCommandDone, EngineInv
  <2>2. p \notin Done /\ Done' = Done \cup {p}
    BY <1>5 DEF LastCommandDone, EngineInv, Labelled, Done, Phrases
  <2>3. Cardinality(Done') = Cardinality(Done) + 1
    BY <2>2, DoneFinite, FS_AddElement
  <2>4. failed' \subseteq Phrases
    BY <1>5 DEF LastCommandDone, EngineInv
  <2>5. /\ buffers' \in Seq(Phrases \cup {Silence})
        /\ Len(buffers') = Len(buffers) + 1
    BY <1>5 DEF LastCommandDone, EngineInv
  <2> QED BY <1>5, <2>1, <2>3, <2>4, <2>5 DEF LastCommandDone, EngineInv
<1>6. ASSUME NEW p \in Phrases, Play(p) PROVE EngineInv'
  <2>1. Done' = Done
    BY <1>6, SameDone DEF Play, Labelled
  <2>2. Spoken(p) \in Phrases \cup {Silence}
    BY DEF Spoken, EngineInv, Phrases
  <2>3. /\ synths' \in Seq([asked : Phrases, spoken : Phrases \cup {Silence}])
        /\ Len(synths') <= MaxPlays
    BY <1>6, <2>2 DEF Play, EngineInv
  <2> QED BY <1>6, <2>1, <2>3 DEF Play, EngineInv
<1>7. CASE UNCHANGED vars
  <2>1. Done' = Done
    BY <1>7, SameDone DEF vars, Labelled
  <2> QED BY <1>7, <2>1 DEF vars, EngineInv
<1> QED BY <1>1, <1>2, <1>3, <1>4, <1>5, <1>6, <1>7, EngineStep
(* The order of the buffers is kept: only the phrase waited for is under   *)
(* way, and when its wait ends in time it is done.                         *)
LEMMA OrderInvStep == EngineInv /\ OrderInv /\ [Next]_allVars => OrderInv'
<1> SUFFICES ASSUME EngineInv, OrderInv, [Next]_allVars PROVE OrderInv'
  OBVIOUS
<1> USE PhrasesAssumption, PlaysAssumption
<1>0. /\ index \in 0..NPhrases /\ step \in [Phrases -> 0..(NCommands + 1)]
      /\ buffers \in Seq(Phrases \cup {Silence}) /\ failed \subseteq Phrases
      /\ NPhrases \in Nat /\ NCommands \in Nat \ {0}
  BY DEF EngineInv
<1>1. CASE Labelize
  <2>1. index \in Phrases /\ step[index] = 0 /\ index # NPhrases
    BY <1>0, <1>1 DEF Labelize, Phrases
  <2>2. \A p \in Phrases : /\ Labelled(p)' <=> Labelled(p)
                           /\ p # index => step'[p] = step[p]
                           /\ step[p] > 0 => step'[p] > 0
    BY <1>0, <1>1, <2>1 DEF Labelize, Labelled
  <2>3. ~late => InOrder'
    BY <1>0, <1>1, <2>1, <2>2 DEF Labelize, OrderInv, InOrder, Place
  <2> QED BY <1>1, <2>1, <2>3 DEF Labelize, OrderInv, OnTimeSpeaksAsked
<1>2. CASE WaitOver
  <2>1. index \in Phrases /\ index # NPhrases /\ index' = index + 1
    BY <1>0, <1>2 DEF WaitOver, Phrases
  <2>2. ASSUME ~late' PROVE InOrder'
    <3>1. ~late /\ Labelled(index) /\ InOrder
      BY <1>2, <2>2 DEF WaitOver, OrderInv
    <3>2. \A p \in Phrases : Labelled(p)' <=> Labelled(p)
      BY <1>2 DEF WaitOver, Labelled
    <3>3. \A p \in Phrases : p > index + 1 => p > index
      BY <1>0 DEF Phrases
    <3>4. \A p \in Phrases : p < index + 1 => p < index \/ p = index
      BY <1>0 DEF Phrases
    <3>5. index' < NPhrases => index' \in Phrases /\ ~Labelled(index')
      BY <1>0, <2>1, <3>1 DEF InOrder, Labelled, Phrases
    <3>6. index' < NPhrases => ~(Labelled(index)')
      BY <1>2, <3>5 DEF WaitOver, Labelled
    <3>7. Len(buffers) = index + 1
      BY <1>0, <2>1, <3>1 DEF InOrder, Phrases
    <3> QED BY <1>2, <2>1, <3>1, <3>2, <3>3, <3>4, <3>6, <3>7
            DEF WaitOver, InOrder, Place
  <2>3. ready' => index' = NPhrases
    BY <1>2, <2>1 DEF WaitOver, OrderInv
  <2> QED BY <1>2, <2>2, <2>3 DEF WaitOver, OrderInv, OnTimeSpeaksAsked
<1>3. CASE Alloc
  BY <1>3 DEF Alloc, OrderInv, InOrder, OnTimeSpeaksAsked, Place, Labelled
<1>4. ASSUME NEW p \in Phrases, NEW ok \in BOOLEAN,
             CommandDone(p, ok) \/ LastCommandDone(p, ok)
      PROVE  OrderInv'
  <2>1. /\ step[p] \in 1..NCommands /\ step' = [step EXCEPT ![p] = @ + 1]
        /\ UNCHANGED <<index, late, ready, synths>>
        /\ failed' = IF ok THEN failed ELSE failed \cup {p}
    BY <1>0, <1>4 DEF CommandDone, LastCommandDone
  <2>2. CASE late
    BY <2>1, <2>2 DEF OrderInv
  <2>3. CASE ~late
    <3>1. InOrder /\ p = index /\ index < NPhrases /\ ~Labelled(p)
      BY <1>0, <2>1, <2>3 DEF OrderInv, InOrder, Labelled, Phrases
    <3>2. ~ready /\ Len(buffers) = index
      BY <1>0, <3>1 DEF OrderInv, InOrder
    <3>3. /\ \A q \in Phrases : q # p => step'[q] = step[q]
          /\ \A q \in Phrases : q # p => (q \in failed' <=> q \in failed)
          /\ step'[p] = step[p] + 1 /\ step'[p] > 0
      BY <1>0, <2>1
    <3>4. /\ \A q \in Phrases : q < index => Labelled(q)'
          /\ \A q \in Phrases : q > index => step'[q] = 0
          /\ \A q \in Phrases : q \in failed' => step'[q] > 0
      BY <1>0, <3>1, <3>3 DEF InOrder, Labelled, Phrases
    <3>5. /\ Len(buffers') = IF Labelled(p)' THEN index + 1 ELSE index
          /\ \A b \in DOMAIN buffers' : buffers'[b] = Place(b - 1)'
      <4>1. CASE CommandDone(p, ok)
        <5>1. buffers' = buffers /\ ~Labelled(p)'
          BY <1>0, <2>1, <4>1 DEF CommandDone, Labelled
        <5>2. \A b \in DOMAIN buffers : b - 1 \in Phrases /\ b - 1 # p
          BY <1>0, <3>1, <3>2 DEF Phrases
        <5> QED BY <3>1, <3>2, <3>3, <5>1, <5>2 DEF InOrder, Place
      <4>2. CASE LastCommandDone(p, ok)
        <5>1. Labelled(p)'
          BY <1>0, <2>1, <4>2 DEF LastCommandDone, Labelled
        <5>2. \A b \in DOMAIN buffers : b - 1 \in Phrases /\ b - 1 # p
          BY <1>0, <3>1, <3>2 DEF Phrases
        <5>3. /\ buffers' = Append(buffers, Place(p)')
              /\ Place(p)' \in Phrases \cup {Silence}
          BY <4>2 DEF LastCommandDone, Place
        <5>4. /\ Len(buffers') = index + 1
              /\ \A b \in DOMAIN buffers : buffers'[b] = buffers[b]
              /\ buffers'[index + 1] = Place(p)'
              /\ \A b \in DOMAIN buffers' : b \in DOMAIN buffers \/ b = index + 1
          BY <1>0, <3>2, <5>3
        <5>5. \A b \in DOMAIN buffers : Place(b - 1)' = Place(b - 1)
          BY <3>3, <5>2 DEF Place
        <5>6. index + 1 - 1 = p
          BY <1>0, <3>1
        <5> QED BY <3>1, <5>1, <5>4, <5>5, <5>6 DEF InOrder
      <4> QED BY <1>4, <4>1, <4>2
    <3>6. InOrder'
      BY <2>1, <3>1, <3>4, <3>5 DEF InOrder
    <3>7. synths' = <<>> /\ ~ready'
      BY <2>1, <3>2 DEF OrderInv
    <3>8. OnTimeSpeaksAsked'
      BY <3>7 DEF OnTimeSpeaksAsked
    <3> QED BY <3>6, <3>7, <3>8 DEF OrderInv
  <2> QED BY <2>2, <2>3
<1>6. ASSUME NEW p \in Phrases, Play(p) PROVE OrderInv'
  <2>1. ready /\ UNCHANGED <<index, step, failed, buffers, late, ready>>
    BY <1>6 DEF Play
  <2>2. ASSUME ~late PROVE InOrder' /\ OnTimeSpeaksAsked'
    <3>1. InOrder /\ OnTimeSpeaksAsked /\ index = NPhrases
      BY <2>1, <2>2 DEF OrderInv
    <3>2. InOrder'
      BY <2>1, <3>1 DEF InOrder, Place, Labelled
    <3>3. p + 1 \in DOMAIN buffers /\ p < Len(buffers) /\ p + 1 - 1 = p
      BY <1>0, <3>1 DEF InOrder, Phrases
    <3>4. Spoken(p) = Place(p)
      <4>1. \A b \in DOMAIN buffers :
               buffers[b] = IF b - 1 \in failed THEN Silence ELSE b - 1
        BY <3>1 DEF InOrder, Place
      <4> DEFINE b == p + 1
      <4>2. b \in DOMAIN buffers /\ b - 1 = p
        BY <1>0, <3>1, <3>3 DEF InOrder, Phrases
      <4> HIDE DEF b
      <4>3. buffers[b] = IF p \in failed THEN Silence ELSE p
        BY <4>1, <4>2
      <4>4. buffers[p + 1] = IF p \in failed THEN Silence ELSE p
        BY <4>3 DEF b
      <4> QED BY <3>3, <4>4 DEF Spoken, Place
    <3>5. /\ synths \in Seq([asked : Phrases, spoken : Phrases \cup {Silence}])
          /\ Place(p) \in Phrases \cup {Silence}
      BY DEF EngineInv, Place
    <3>6. synths' = Append(synths, [asked |-> p, spoken |-> Place(p)])
      BY <1>6, <3>4 DEF Play
    <3>7. /\ \A i \in DOMAIN synths : synths'[i] = synths[i]
          /\ \A i \in DOMAIN synths' : i \in DOMAIN synths \/ i = Len(synths) + 1
          /\ synths'[Len(synths) + 1] = [asked |-> p, spoken |-> Place(p)]
      BY <3>5, <3>6
    <3>8. OnTimeSpeaksAsked'
      BY <2>1, <3>1, <3>7 DEF OnTimeSpeaksAsked, Place
    <3> QED BY <3>2, <3>8
  <2> QED BY <2>1, <2>2 DEF OrderInv
<1>7. CASE UNCHANGED vars
  BY <1>7 DEF vars, OrderInv, InOrder, OnTimeSpeaksAsked, Place, Labelled
<1> QED BY <1>1, <1>2, <1>3, <1>4, <1>6, <1>7, EngineStep

-----------------------------------------------------------------------------
(* The engine's state has its types, whatever the script sends: there are  *)
(* never more buffers than phrases.                                        *)
THEOREM EngineTypeCorrect == Spec => []EngineTypeOK
<1>1. EngineInv => EngineTypeOK
  BY DoneFinite DEF EngineInv, EngineTypeOK
<1>2. Init => EngineInv
  BY EngineInvInit
<1> QED BY <1>1, <1>2, EngineInvStep, PTL DEF Spec

(* While every labelling is done within its five seconds, a phrase command *)
(* of the script speaks its phrase, or nothing when its labelling failed.  *)
THEOREM PhrasesSpokenAsAsked == Spec => []OnTimeSpeaksAsked
<1> DEFINE Inv == EngineInv /\ OrderInv
<1>1. Init => Inv
  BY EngineInvInit
<1>2. Inv /\ [Next]_allVars => Inv'
  BY EngineInvStep, OrderInvStep
<1>3. Inv => OnTimeSpeaksAsked
  BY DEF OrderInv, OnTimeSpeaksAsked
<1> QED BY <1>1, <1>2, <1>3, PTL DEF Spec

-----------------------------------------------------------------------------
(* What the screen shows of a control is what the engine will have once it *)
(* has handled the commands on their way: the last command for it carries  *)
(* that value, and without one the engine has it already.                  *)
Command == (AllControls \cup {"phrase"}) \X Int
Followed == Controls \ {"voice", "mode"}
LastFor(c, k) == /\ pending[k][1] = c
                 /\ \A j \in DOMAIN pending : j > k => pending[j][1] # c
Follows(c) == \/ shown[c] = Nil
              \/ /\ shown[c] \in Values(c)
                 /\ \A k \in DOMAIN pending : LastFor(c, k) => pending[k][2] = shown[c]
                 /\ SentTo(c) = {} => vox[c] = shown[c]
ScriptInv == /\ shown \in [Controls -> Int]
             /\ vox \in [Controls -> Int]
             /\ pending \in Seq(Command)
             /\ dac = mute
             /\ \A c \in Followed : Follows(c)

(* The range of a followed control *)
LEMMA FollowedValues ==
  ASSUME NEW c \in Followed
  PROVE  /\ c \in Controls /\ c \in AllControls /\ c # "phrase"
         /\ Low(c) = 1 /\ High(c) = MaxLevel /\ Values(c) = 1..MaxLevel
         /\ 1 \in Values(c) /\ Nil \notin Values(c)
<1>1. c \in AllControls
  BY ScriptAssumption DEF Followed
<1>2. c # "phrase"
  BY <1>1 DEF AllControls
<1>3. c # "voice" /\ c # "mode" /\ c \in Controls
  BY DEF Followed
<1>4. Low(c) = 1 /\ High(c) = MaxLevel
  BY <1>3 DEF Low, High
<1> QED BY <1>1, <1>2, <1>3, <1>4, ScriptAssumption DEF Values, Nil

(* Every value of a control is an integer. *)
LEMMA ValuesAreInt == \A c : Values(c) \subseteq Int
<1> TAKE c
<1>1. Low(c) \in Int /\ High(c) \in Int
  BY ScriptAssumption DEF Low, High
<1> QED BY <1>1 DEF Values

(* At first nothing is on its way, and screen and engine agree. *)
LEMMA ScriptInvInit == ScriptInit => ScriptInv
<1> SUFFICES ASSUME ScriptInit PROVE ScriptInv
  OBVIOUS
<1>1. shown \in [Controls -> Int] /\ vox \in [Controls -> Int]
  BY ScriptAssumption DEF ScriptInit
<1>2. pending \in Seq(Command) /\ DOMAIN pending = {}
  BY DEF ScriptInit
<1>3. dac = mute
  BY DEF ScriptInit
<1>4. ASSUME NEW c \in Followed PROVE Follows(c)
  <2>1. c # "voice" /\ c \in Controls
    BY DEF Followed
  <2>2. shown[c] = 1 /\ vox[c] = 1
    BY <2>1 DEF ScriptInit
  <2> QED BY <1>2, <2>2, FollowedValues DEF Follows
<1> QED BY <1>1, <1>2, <1>3, <1>4 DEF ScriptInv

(* Commands sent after the ones on their way: none for c, and the screen   *)
(* shows what it did, or at least one, all of them with what it now shows. *)
LEMMA SentFollows ==
  ASSUME ScriptInv, NEW cmds \in Seq(Command), pending' = pending \o cmds,
         vox' = vox, NEW c \in Followed,
         \/ /\ shown'[c] = shown[c]
            /\ \A k \in DOMAIN cmds : cmds[k][1] # c
         \/ /\ shown'[c] \in Values(c)
            /\ \E k \in DOMAIN cmds : cmds[k][1] = c
            /\ \A k \in DOMAIN cmds : cmds[k][1] = c => cmds[k][2] = shown'[c]
  PROVE  Follows(c)'
<1> DEFINE m == Len(pending)
           n == Len(cmds)
<1>1. /\ m \in Nat /\ DOMAIN pending = 1..m
      /\ n \in Nat /\ DOMAIN cmds = 1..n
      /\ DOMAIN pending' = 1..(m + n)
      /\ \A k \in 1..(m + n) : pending'[k] = IF k <= m THEN pending[k] ELSE cmds[k - m]
  BY ConcatProperties, LenProperties DEF ScriptInv
<1>2. Follows(c)
  BY DEF ScriptInv
<1> HIDE DEF m, n
<1>3. CASE shown'[c] = shown[c] /\ \A k \in DOMAIN cmds : cmds[k][1] # c
  <2>1. ASSUME NEW k \in 1..(m + n), pending'[k][1] = c
        PROVE  k \in 1..m /\ pending'[k] = pending[k]
    BY <1>1, <1>3, <2>1
  <2>2. ASSUME NEW k \in DOMAIN pending', LastFor(c, k)'
        PROVE  k \in 1..m /\ LastFor(c, k) /\ pending'[k] = pending[k]
    <3>1. k \in 1..m /\ pending'[k] = pending[k]
      BY <1>1, <2>1, <2>2 DEF LastFor
    <3>2. \A j \in 1..m : pending'[j] = pending[j] /\ j \in DOMAIN pending'
      BY <1>1
    <3> QED BY <1>1, <2>2, <3>1, <3>2 DEF LastFor
  <2>3. SentTo(c)' = {} => SentTo(c) = {}
    BY <1>1 DEF SentTo
  <2> QED BY <1>1, <1>2, <1>3, <2>2, <2>3 DEF Follows
<1>4. CASE /\ shown'[c] \in Values(c)
           /\ \E k \in DOMAIN cmds : cmds[k][1] = c
           /\ \A k \in DOMAIN cmds : cmds[k][1] = c => cmds[k][2] = shown'[c]
  <2>1. PICK i \in 1..n : cmds[i][1] = c
    BY <1>1, <1>4
  <2>2. m + i \in DOMAIN pending' /\ pending'[m + i][1] = c
    BY <1>1, <2>1
  <2>3. SentTo(c)' # {}
    BY <2>2 DEF SentTo
  <2>4. ASSUME NEW k \in DOMAIN pending', LastFor(c, k)'
        PROVE  pending'[k][2] = shown'[c]
    <3>1. k > m
      <4> SUFFICES ASSUME k <= m PROVE FALSE
        BY <1>1
      <4>1. m + i > k
        BY <1>1, <2>1
      <4> QED BY <2>2, <2>4, <4>1 DEF LastFor
    <3>2. k - m \in 1..n /\ pending'[k] = cmds[k - m]
      BY <1>1, <3>1
    <3> QED BY <1>1, <1>4, <2>4, <3>2 DEF LastFor
  <2> QED BY <1>4, <2>3, <2>4 DEF Follows
<1> QED BY <1>3, <1>4

(* The engine handles the command that came first: one for another control *)
(* or a phrase, which leaves the control's value alone, or one for c.      *)
LEMMA HandledFollows ==
  ASSUME ScriptInv, pending # <<>>, pending' = Tail(pending), shown' = shown,
         NEW c \in Followed,
         \/ pending[1][1] # c /\ vox'[c] = vox[c]
         \/ pending[1][1] = c /\ vox'[c] = pending[1][2]
  PROVE  Follows(c)'
<1> DEFINE m == Len(pending)
<1>1. /\ m \in Nat \ {0} /\ DOMAIN pending = 1..m
      /\ DOMAIN pending' = 1..(m - 1)
      /\ \A k \in 1..(m - 1) : pending'[k] = pending[k + 1]
  BY HeadTailProperties, LenProperties, EmptySeq DEF ScriptInv
<1> HIDE DEF m
<1>2. Follows(c)
  BY DEF ScriptInv
<1>3. ASSUME NEW k \in DOMAIN pending', LastFor(c, k)'
      PROVE  k + 1 \in 1..m /\ LastFor(c, k + 1) /\ pending'[k] = pending[k + 1]
  <2>1. k + 1 \in 1..m /\ pending'[k] = pending[k + 1]
    BY <1>1
  <2>2. ASSUME NEW j \in 1..m, j > k + 1 PROVE pending[j][1] # c
    <3>1. j - 1 \in 1..(m - 1) /\ j - 1 > k /\ (j - 1) + 1 = j
      BY <1>1, <2>2
    <3> QED BY <1>1, <1>3, <3>1 DEF LastFor
  <2> QED BY <1>1, <1>3, <2>1, <2>2 DEF LastFor
<1>4. ASSUME SentTo(c)' = {}, shown[c] # Nil PROVE vox'[c] = shown[c]
  <2>1. \A k \in 2..m : pending[k][1] # c
    <3> SUFFICES ASSUME NEW k \in 2..m, pending[k][1] = c PROVE FALSE
      OBVIOUS
    <3>1. k - 1 \in DOMAIN pending' /\ pending'[k - 1] = pending[k]
      BY <1>1
    <3> QED BY <1>4, <3>1 DEF SentTo
  <2>2. CASE pending[1][1] # c
    <3>1. SentTo(c) = {}
      BY <1>1, <2>1, <2>2 DEF SentTo
    <3> QED BY <1>2, <1>4, <2>2, <3>1 DEF Follows
  <2>3. CASE pending[1][1] = c
    <3>1. LastFor(c, 1) /\ 1 \in DOMAIN pending
      BY <1>1, <2>1, <2>3 DEF LastFor
    <3> QED BY <1>2, <1>4, <2>3, <3>1 DEF Follows
  <2> QED BY <2>2, <2>3
<1> QED BY <1>1, <1>2, <1>3, <1>4 DEF Follows

(* The lists of controls: what is on the norns screen's list and present   *)
LEMMA PresentIs ==
  ASSUME NEW list \in Seq(AllControls), NEW c \in Controls
  PROVE  /\ Present(list) \in Seq(AllControls)
         /\ Contains(Present(list), c) <=> Contains(list, c)
<1>1. Present(list) = Kept(list, Controls \cup {"mute", "phrase"})
  BY DEF Present, Kept
<1>2. Present(list) \in Seq(AllControls)
  BY <1>1, KeptType
<1>3. Contains(Present(list), c) <=> Contains(list, c)
  BY <1>1, KeptElements
<1> QED BY <1>2, <1>3

(* Sending the commands for a list of controls                             *)
LEMMA CommandsAre ==
  ASSUME NEW list \in Seq(AllControls), NEW val \in Settings(list)
  PROVE  /\ Commands(list, val) \in Seq(Command)
         /\ \A c \in Controls :
               /\ Contains(list, c) => /\ val[c] \in Values(c)
                                       /\ \E k \in DOMAIN Commands(list, val) :
                                             Commands(list, val)[k][1] = c
               /\ \A k \in DOMAIN Commands(list, val) :
                     Commands(list, val)[k][1] = c =>
                        Contains(list, c) /\ Commands(list, val)[k][2] = val[c]
<1> DEFINE N == Len(list)
           cmds == Commands(list, val)
<1>1. N \in Nat /\ DOMAIN list = 1..N /\ \A k \in 1..N : list[k] \in AllControls
  BY LenProperties, ElementOfSeq
<1>2. \A k \in 1..N : val[list[k]] \in Values(list[k])
  BY <1>1 DEF Settings, Range
<1>3. \A k \in 1..N : val[list[k]] \in Int
  BY <1>2, ValuesAreInt
<1>4. cmds = [k \in 1..N |-> <<list[k], val[list[k]]>>]
  BY <1>1 DEF Commands
<1> HIDE DEF N, cmds
<1>5. \A k \in 1..N : <<list[k], val[list[k]]>> \in Command
  BY <1>1, <1>3 DEF Command
<1>6. cmds \in Seq(Command) /\ DOMAIN cmds = 1..N
  BY <1>1, <1>4, <1>5
<1>7. \A k \in 1..N : cmds[k][1] = list[k] /\ cmds[k][2] = val[list[k]]
  BY <1>4
<1>8. ASSUME NEW c \in Controls, Contains(list, c)
      PROVE  val[c] \in Values(c) /\ \E k \in DOMAIN cmds : cmds[k][1] = c
  <2>1. PICK k \in 1..N : list[k] = c
    BY <1>8 DEF Contains, N
  <2> QED BY <1>2, <1>6, <1>7, <2>1
<1>9. ASSUME NEW c \in Controls, NEW k \in DOMAIN cmds, cmds[k][1] = c
      PROVE  Contains(list, c) /\ cmds[k][2] = val[c]
  <2>1. list[k] = c /\ k \in 1..N /\ cmds[k][2] = val[list[k]]
    BY <1>6, <1>7, <1>9
  <2> QED BY <2>1 DEF Contains, N
<1> QED BY <1>6, <1>8, <1>9 DEF cmds

(* The lists of the two OSC handlers agree on what is shown and what is    *)
(* sent, but for the voice.                                                *)
LEMMA NetLists ==
  /\ NetControls \in Seq(AllControls)
  /\ \A c \in Controls : /\ Contains(NetControls, c) <=>
                              c \in {"voice", "freq", "scale", "gap"}
                         /\ Contains(Present(<<"freq", "scale", "gap">>), c) <=>
                              c \in {"freq", "scale", "gap"}
<1> DEFINE net == <<"voice", "freq", "scale", "gap">>
           seen == <<"freq", "scale", "gap">>
<1>1. net \in Seq(AllControls) /\ seen \in Seq(AllControls)
  BY DEF AllControls
<1>2. NetControls \in Seq(AllControls)
  <2>1. NetControls = Kept(net, Controls \cup {"mute", "phrase"})
    BY DEF NetControls, Present, Kept
  <2> QED BY <1>1, <2>1, KeptType
<1>3. ASSUME NEW c
      PROVE  /\ Contains(net, c) <=> c \in {"voice", "freq", "scale", "gap"}
             /\ Contains(seen, c) <=> c \in {"freq", "scale", "gap"}
  <2>1. /\ Len(net) = 4 /\ net[1] = "voice" /\ net[2] = "freq" /\ net[3] = "scale"
        /\ net[4] = "gap"
    OBVIOUS
  <2>2. Len(seen) = 3 /\ seen[1] = "freq" /\ seen[2] = "scale" /\ seen[3] = "gap"
    OBVIOUS
  <2> HIDE DEF net, seen
  <2>3. 1..4 = {1, 2, 3, 4} /\ 1..3 = {1, 2, 3}
    OBVIOUS
  <2> QED BY <2>1, <2>2, <2>3 DEF Contains
<1> HIDE DEF net, seen
<1>4. ASSUME NEW c \in Controls
      PROVE  /\ Contains(Present(net), c) <=> Contains(net, c)
             /\ Contains(Present(seen), c) <=> Contains(seen, c)
  BY <1>1, PresentIs
<1>5. ASSUME NEW c \in Controls
      PROVE  /\ Contains(Present(net), c) <=> c \in {"voice", "freq", "scale", "gap"}
             /\ Contains(Present(seen), c) <=> c \in {"freq", "scale", "gap"}
  BY <1>3, <1>4
<1> QED BY <1>2, <1>5 DEF NetControls, net, seen

(* The list of /hexvoltage is one of controls.                             *)
LEMMA HexLists == HexControls \in Seq(AllControls)
<1>1. <<"alpha", "voice">> \in Seq(AllControls)
  BY DEF AllControls
<1> DEFINE hex == <<"alpha", "voice">>
<1>2. HexControls = Kept(hex, Controls \cup {"mute", "phrase"})
  BY DEF HexControls, Present, Kept
<1> QED BY <1>1, <1>2, KeptType

(* Nothing is sent and no control changes. *)
LEMMA QuietFollows ==
  ASSUME ScriptInv, pending' = pending, vox' = vox, NEW c \in Followed,
         shown'[c] = shown[c] \/ shown'[c] = Nil
  PROVE  Follows(c)'
<1>1. Follows(c)
  BY DEF ScriptInv
<1> QED BY <1>1 DEF Follows, LastFor, SentTo

(* set_voice .. set_gap with a value of the control's range                *)
LEMMA SetFollows ==
  ASSUME ScriptInv, NEW c \in Controls, NEW v \in Values(c), Set(c, v)
  PROVE  ScriptInv'
<1> DEFINE cmds == <<<<c, v>>>>
<1>0. v \in Int /\ c \in AllControls
  BY ValuesAreInt, ScriptAssumption
<1>1. cmds \in Seq(Command) /\ DOMAIN cmds = {1} /\ cmds[1][1] = c /\ cmds[1][2] = v
  BY <1>0 DEF Command
<1>2. /\ shown' = [shown EXCEPT ![c] = v] /\ pending' = pending \o cmds
      /\ mute' = mute /\ dac' = dac /\ vox' = vox
  BY DEF Set, Send
<1> HIDE DEF cmds
<1>3. shown' \in [Controls -> Int] /\ vox' \in [Controls -> Int] /\ dac' = mute'
  BY <1>0, <1>2 DEF ScriptInv
<1>4. pending' \in Seq(Command)
  BY <1>1, <1>2, ConcatProperties DEF ScriptInv
<1>5. ASSUME NEW d \in Followed PROVE Follows(d)'
  <2>1. d \in Controls
    BY DEF Followed
  <2>2. CASE d = c
    <3>1. shown'[d] = v
      BY <1>2, <2>1, <2>2 DEF ScriptInv
    <3> QED BY <1>1, <1>2, <2>2, <3>1, SentFollows
  <2>3. CASE d # c
    <3>1. shown'[d] = shown[d]
      BY <1>2, <2>1, <2>3 DEF ScriptInv
    <3> QED BY <1>1, <1>2, <2>3, <3>1, SentFollows
  <2> QED BY <2>2, <2>3
<1> QED BY <1>3, <1>4, <1>5 DEF ScriptInv

(* set_mute *)
LEMMA ToggleFollows == ScriptInv /\ Toggle => ScriptInv'
<1> SUFFICES ASSUME ScriptInv, Toggle PROVE ScriptInv'
  OBVIOUS
<1>1. dac' = mute' /\ shown' = shown /\ pending' = pending /\ vox' = vox
  BY DEF Toggle
<1>2. \A c \in Followed : Follows(c)'
  BY <1>1, QuietFollows
<1> QED BY <1>1, <1>2 DEF ScriptInv

(* set_phrase *)
LEMMA PhraseFollows ==
  ASSUME ScriptInv, NEW p \in Int, SetPhrase(p)
  PROVE  ScriptInv'
<1> DEFINE cmds == <<<<"phrase", p>>>>
<1>1. cmds \in Seq(Command) /\ DOMAIN cmds = {1} /\ cmds[1][1] = "phrase"
  BY DEF Command
<1>2. /\ shown' = shown /\ pending' = pending \o cmds
      /\ mute' = mute /\ dac' = dac /\ vox' = vox
  BY DEF SetPhrase, Send
<1> HIDE DEF cmds
<1>3. pending' \in Seq(Command)
  BY <1>1, <1>2, ConcatProperties DEF ScriptInv
<1>4. ASSUME NEW c \in Followed PROVE Follows(c)'
  <2>1. c # "phrase"
    BY FollowedValues
  <2> QED BY <1>1, <1>2, <2>1, SentFollows
<1> QED BY <1>2, <1>3, <1>4 DEF ScriptInv

(* The K3 key: the next value of a control is in its range again, or nil. *)
LEMMA KeyFollows == ScriptInv /\ Key => ScriptInv'
<1> SUFFICES ASSUME ScriptInv, Key PROVE ScriptInv'
  OBVIOUS
<1>1. CASE Toggle
  BY <1>1, ToggleFollows
<1>2. ASSUME NEW c \in Controls, KeyStep(c), c \in Followed PROVE ScriptInv'
  <2>1. Follows(c) /\ shown[c] # Nil
    BY <1>2 DEF ScriptInv, KeyStep
  <2>2. shown[c] \in 1..MaxLevel
    BY <1>2, <2>1, FollowedValues DEF Follows
  <2> DEFINE v == IF shown[c] = High(c) THEN Low(c) ELSE shown[c] + 1
  <2>3. v \in Values(c)
    BY <1>2, <2>2, FollowedValues, ScriptAssumption
  <2>4. Set(c, v)
    BY <1>2 DEF KeyStep
  <2> QED BY <2>3, <2>4, SetFollows
<1>3. ASSUME NEW c \in Controls, KeyStep(c), c \notin Followed PROVE ScriptInv'
  <2> DEFINE v == IF shown[c] = High(c) THEN Low(c) ELSE shown[c] + 1
             cmds == <<<<c, v>>>>
  <2>1. v \in Int /\ c \in AllControls
    BY ScriptAssumption DEF ScriptInv, Low
  <2>2. cmds \in Seq(Command) /\ DOMAIN cmds = {1} /\ cmds[1][1] = c
    BY <2>1 DEF Command
  <2>3. /\ shown' = [shown EXCEPT ![c] = v] /\ pending' = pending \o cmds
        /\ mute' = mute /\ dac' = dac /\ vox' = vox
    BY <1>3 DEF KeyStep, Set, Send
  <2> HIDE DEF v, cmds
  <2>4. shown' \in [Controls -> Int] /\ dac' = mute' /\ vox' \in [Controls -> Int]
    BY <2>1, <2>3 DEF ScriptInv
  <2>5. pending' \in Seq(Command)
    BY <2>2, <2>3, ConcatProperties DEF ScriptInv
  <2>6. ASSUME NEW d \in Followed PROVE Follows(d)'
    <3>1. d # c /\ d \in Controls
      BY <1>3 DEF Followed
    <3>2. shown'[d] = shown[d]
      BY <2>3, <3>1 DEF ScriptInv
    <3> QED BY <2>2, <2>3, <3>1, <3>2, SentFollows
  <2> QED BY <2>4, <2>5, <2>6 DEF ScriptInv
<1>4. CASE KeyNil
  <2>1. /\ shown' = [shown EXCEPT !["scale"] = Nil] /\ pending' = pending
        /\ mute' = mute /\ dac' = dac /\ vox' = vox
    BY <1>4 DEF KeyNil
  <2>2. shown' \in [Controls -> Int]
    <3>1. Nil \in Int /\ shown \in [Controls -> Int]
      BY DEF Nil, ScriptInv
    <3> QED BY <2>1, <3>1
  <2>3. ASSUME NEW c \in Followed PROVE Follows(c)'
    <3>1. c \in Controls
      BY DEF Followed
    <3>2. shown'[c] = shown[c] \/ shown'[c] = Nil
      BY <2>1, <3>1 DEF ScriptInv
    <3> QED BY <2>1, <3>2, QuietFollows
  <2> QED BY <2>1, <2>2, <2>3 DEF ScriptInv
<1> QED BY <1>1, <1>2, <1>3, <1>4 DEF Key

(* The E3 encoder *)
LEMMA EncoderFollows == ScriptInv /\ Encoder(NewPhrases) => ScriptInv'
<1> SUFFICES ASSUME ScriptInv, Encoder(NewPhrases) PROVE ScriptInv'
  OBVIOUS
<1>1. CASE Toggle
  BY <1>1, ToggleFollows
<1>2. ASSUME NEW p \in NewPhrases, SetPhrase(p) PROVE ScriptInv'
  <2>1. p \in Int
    BY PhrasesAssumption DEF NewPhrases, Phrases
  <2> QED BY <1>2, <2>1, PhraseFollows
<1>3. ASSUME NEW c \in Controls \ {"voice"}, NEW v \in Values(c), Set(c, v)
      PROVE  ScriptInv'
  BY <1>3, SetFollows
<1> QED BY <1>1, <1>2, <1>3 DEF Encoder

(* /netvoltage: every followed control that is shown anew is sent.         *)
LEMMA NetFollows ==
  ASSUME ScriptInv, NEW val \in Settings(NetControls), NetVoltage(val)
  PROVE  ScriptInv'
<1> DEFINE cmds == Commands(NetControls, val)
<1>1. /\ shown' = Assign(Present(<<"freq", "scale", "gap">>), val)
      /\ pending' = pending \o cmds /\ mute' = mute /\ dac' = dac /\ vox' = vox
  BY DEF NetVoltage, Send
<1>2. /\ cmds \in Seq(Command)
      /\ \A c \in Controls :
            /\ Contains(NetControls, c) => /\ val[c] \in Values(c)
                                           /\ \E k \in DOMAIN cmds : cmds[k][1] = c
            /\ \A k \in DOMAIN cmds : cmds[k][1] = c =>
                  Contains(NetControls, c) /\ cmds[k][2] = val[c]
  BY NetLists, CommandsAre
<1> HIDE DEF cmds
<1>3. ASSUME NEW c \in Controls
      PROVE  shown'[c] = IF c \in {"freq", "scale", "gap"} THEN val[c] ELSE shown[c]
  BY <1>1, NetLists DEF Assign
<1>4. shown' \in [Controls -> Int]
  <2>1. ASSUME NEW c \in Controls PROVE shown'[c] \in Int
    <3>1. c \in {"freq", "scale", "gap"} => val[c] \in Values(c)
      BY <1>2, NetLists
    <3> QED BY <1>3, <3>1, ValuesAreInt DEF ScriptInv
  <2> QED BY <1>1, <2>1 DEF Assign
<1>5. pending' \in Seq(Command)
  BY <1>1, <1>2, ConcatProperties DEF ScriptInv
<1>6. ASSUME NEW c \in Followed PROVE Follows(c)'
  <2>1. c \in Controls /\ c # "voice"
    BY DEF Followed
  <2>2. CASE c \in {"freq", "scale", "gap"}
    <3>1. Contains(NetControls, c) /\ shown'[c] = val[c]
      BY <1>3, <2>1, <2>2, NetLists
    <3> QED BY <1>1, <1>2, <2>1, <3>1, SentFollows
  <2>3. CASE c \notin {"freq", "scale", "gap"}
    <3>1. ~Contains(NetControls, c) /\ shown'[c] = shown[c]
      BY <1>3, <2>1, <2>3, NetLists
    <3> QED BY <1>1, <1>2, <2>1, <3>1, SentFollows
  <2> QED BY <2>2, <2>3
<1> QED BY <1>1, <1>4, <1>5, <1>6 DEF ScriptInv

(* /hexvoltage: the phrase first, then the alpha and the voice             *)
LEMMA HexFollows ==
  ASSUME ScriptInv, NEW p \in Int, NEW val \in Settings(HexControls),
         HexVoltage(p, val)
  PROVE  ScriptInv'
<1> DEFINE hex == Commands(HexControls, val)
           cmds == <<<<"phrase", p>>>> \o hex
<1>1. /\ shown' = Assign(HexControls, val)
      /\ pending' = pending \o cmds /\ mute' = mute /\ dac' = dac /\ vox' = vox
  BY DEF HexVoltage, Send
<1>2. /\ hex \in Seq(Command)
      /\ \A c \in Controls :
            /\ Contains(HexControls, c) => /\ val[c] \in Values(c)
                                           /\ \E k \in DOMAIN hex : hex[k][1] = c
            /\ \A k \in DOMAIN hex : hex[k][1] = c =>
                  Contains(HexControls, c) /\ hex[k][2] = val[c]
  BY HexLists, CommandsAre
<1> HIDE DEF hex
<1>3. /\ cmds \in Seq(Command) /\ Len(hex) \in Nat /\ DOMAIN hex = 1..Len(hex)
      /\ DOMAIN cmds = 1..(Len(hex) + 1)
      /\ cmds[1][1] = "phrase"
      /\ \A k \in 1..Len(hex) : cmds[k + 1] = hex[k]
  <2> DEFINE first == <<<<"phrase", p>>>>
  <2>1. first \in Seq(Command) /\ Len(first) = 1 /\ first[1][1] = "phrase"
    BY DEF Command
  <2> HIDE DEF first
  <2>2. /\ first \o hex \in Seq(Command) /\ Len(first \o hex) = 1 + Len(hex)
        /\ \A k \in 1..(1 + Len(hex)) : (first \o hex)[k] =
              IF k <= 1 THEN first[k] ELSE hex[k - 1]
    <3>0. hex \in Seq(Command) /\ first \in Seq(Command)
      BY <1>2, <2>1
    <3>1. /\ first \o hex \in Seq(Command) /\ Len(first \o hex) = Len(first) + Len(hex)
          /\ \A k \in 1..(Len(first) + Len(hex)) : (first \o hex)[k] =
                IF k <= Len(first) THEN first[k] ELSE hex[k - Len(first)]
      BY <3>0, ConcatProperties
    <3> QED BY <2>1, <3>1
  <2>3. Len(hex) \in Nat /\ DOMAIN hex = 1..Len(hex)
    BY <1>2, LenProperties
  <2>4. DOMAIN (first \o hex) = 1..(Len(hex) + 1)
    BY <2>2, <2>3, LenProperties
  <2>5. (first \o hex)[1] = first[1]
    BY <2>2, <2>3
  <2>6. \A k \in 1..Len(hex) : (first \o hex)[k + 1] = hex[k]
    BY <2>2, <2>3
  <2> QED BY <2>1, <2>2, <2>3, <2>4, <2>5, <2>6 DEF first
<1> HIDE DEF cmds
<1>4. \A k \in DOMAIN cmds : k = 1 \/ (k - 1 \in DOMAIN hex /\ cmds[k] = hex[k - 1])
  BY <1>3
<1>5. ASSUME NEW c \in Controls
      PROVE  shown'[c] = IF Contains(HexControls, c) THEN val[c] ELSE shown[c]
  BY <1>1 DEF Assign
<1>6. shown' \in [Controls -> Int]
  <2>1. ASSUME NEW c \in Controls PROVE shown'[c] \in Int
    BY <1>2, <1>5, ValuesAreInt DEF ScriptInv
  <2> QED BY <1>1, <2>1 DEF Assign
<1>7. pending' \in Seq(Command)
  BY <1>1, <1>3, ConcatProperties DEF ScriptInv
<1>8. ASSUME NEW c \in Followed PROVE Follows(c)'
  <2>1. c \in Controls /\ c # "phrase"
    BY FollowedValues
  <2>2. CASE Contains(HexControls, c)
    <3>1. shown'[c] = val[c] /\ val[c] \in Values(c)
      BY <1>2, <1>5, <2>1, <2>2
    <3>2. PICK k \in DOMAIN hex : hex[k][1] = c
      BY <1>2, <2>1, <2>2
    <3>3. k + 1 \in DOMAIN cmds /\ cmds[k + 1][1] = c
      BY <1>3, <3>2
    <3>4. \A j \in DOMAIN cmds : cmds[j][1] = c => cmds[j][2] = shown'[c]
      BY <1>2, <1>3, <1>4, <2>1, <3>1
    <3> QED BY <1>1, <1>3, <3>1, <3>3, <3>4, SentFollows
  <2>3. CASE ~Contains(HexControls, c)
    <3>1. shown'[c] = shown[c]
      BY <1>5, <2>1, <2>3
    <3>2. \A j \in DOMAIN cmds : cmds[j][1] # c
      BY <1>2, <1>3, <1>4, <2>1, <2>3
    <3> QED BY <1>1, <1>3, <3>1, <3>2, SentFollows
  <2> QED BY <2>2, <2>3
<1> QED BY <1>1, <1>6, <1>7, <1>8 DEF ScriptInv

(* The engine handles a command.                                           *)
LEMMA HandleFollows == ScriptInv /\ Handle => ScriptInv'
<1> SUFFICES ASSUME ScriptInv, Handle PROVE ScriptInv'
  OBVIOUS
<1>1. CASE Receive
  <2> DEFINE c == Head(pending)[1]
             v == Head(pending)[2]
  <2>1. /\ pending # <<>> /\ pending' = Tail(pending) /\ c \in Controls
        /\ vox' = [vox EXCEPT ![c] = Received(c, v)]
        /\ shown' = shown /\ dac' = dac /\ mute' = mute
    BY <1>1 DEF Receive
  <2>2. pending \in Seq(Command) /\ Head(pending) = pending[1] /\ Head(pending) \in Command
    BY <2>1, HeadTailProperties DEF ScriptInv
  <2>3. pending' \in Seq(Command)
    BY <2>1, <2>2, HeadTailProperties
  <2>4. v \in Int /\ Received(c, v) \in Int
    BY <2>2 DEF Command, Received
  <2>5. vox' \in [Controls -> Int]
    BY <2>1, <2>4 DEF ScriptInv
  <2>6. ASSUME NEW d \in Followed PROVE Follows(d)'
    <3>1. d \in Controls /\ d # "mode"
      BY DEF Followed
    <3>2. CASE d = c
      <4>1. vox'[d] = v
        BY <2>1, <3>1, <3>2 DEF Received, ScriptInv
      <4> QED BY <2>1, <2>2, <3>2, <4>1, HandledFollows
    <3>3. CASE d # c
      <4>1. vox'[d] = vox[d]
        BY <2>1, <3>1, <3>3 DEF ScriptInv
      <4> QED BY <2>1, <2>2, <3>3, <4>1, HandledFollows
    <3> QED BY <3>2, <3>3
  <2> QED BY <2>1, <2>3, <2>5, <2>6 DEF ScriptInv
<1>2. ASSUME NEW p \in Phrases, TakePhrase(p) PROVE ScriptInv'
  <2>1. /\ pending # <<>> /\ pending' = Tail(pending) /\ Head(pending) = <<"phrase", p>>
        /\ vox' = vox /\ shown' = shown /\ dac' = dac /\ mute' = mute
    BY <1>2 DEF TakePhrase
  <2>2. pending \in Seq(Command) /\ Head(pending) = pending[1]
    BY <2>1 DEF ScriptInv
  <2>3. pending' \in Seq(Command)
    BY <2>1, <2>2, HeadTailProperties
  <2>4. pending[1][1] = "phrase"
    BY <2>1, <2>2
  <2>5. ASSUME NEW d \in Followed PROVE Follows(d)'
    <3>1. d # "phrase"
      BY FollowedValues
    <3> QED BY <2>1, <2>4, <3>1, HandledFollows
  <2> QED BY <2>1, <2>3, <2>5 DEF ScriptInv
<1> QED BY <1>1, <1>2 DEF Handle

(* Every step of the script and the engine keeps the invariant.            *)
LEMMA ScriptInvStep == ScriptInv /\ [Next]_allVars => ScriptInv'
<1> SUFFICES ASSUME ScriptInv, [Next]_allVars PROVE ScriptInv'
  OBVIOUS
<1>1. CASE UNCHANGED <<shown, dac, mute, pending, vox>>
  <2>1. \A c \in Followed : Follows(c)'
    BY <1>1, QuietFollows
  <2> QED BY <1>1, <2>1 DEF ScriptInv
<1>2. CASE Script
  <2>1. CASE Key
    BY <2>1, KeyFollows
  <2>2. CASE MenuNext
    BY <1>1, <2>2 DEF MenuNext
  <2>3. CASE VoxVoltage
    BY <2>3, ToggleFollows DEF VoxVoltage
  <2>4. CASE Encoder(NewPhrases)
    BY <2>4, EncoderFollows
  <2>5. ASSUME NEW val \in Settings(NetControls), NetVoltage(val) PROVE ScriptInv'
    BY <2>5, NetFollows
  <2>6. ASSUME NEW p \in NewPhrases, NEW val \in Settings(HexControls),
               HexVoltage(p, val)
        PROVE  ScriptInv'
    <3>1. p \in Int
      BY PhrasesAssumption DEF NewPhrases, Phrases
    <3> QED BY <2>6, <3>1, HexFollows
  <2> QED BY <1>2, <2>1, <2>2, <2>3, <2>4, <2>5, <2>6 DEF Script
<1>3. CASE Handle
  BY <1>3, HandleFollows
<1>4. CASE Labelling
  BY <1>1, <1>4 DEF Labelling, scriptVars
<1>5. CASE UNCHANGED allVars
  BY <1>1, <1>5 DEF allVars, scriptVars
<1> QED BY <1>2, <1>3, <1>4, <1>5 DEF Next

(* The last command for a control, when there is one, is the one Latest    *)
(* looks at.                                                               *)
LEMMA LatestFollows ==
  ASSUME ScriptInv, NEW c \in Followed, shown[c] # Nil
  PROVE  shown[c] \in Values(c) /\ Latest(c) = shown[c]
<1>1. Follows(c)
  BY DEF ScriptInv
<1>2. CASE SentTo(c) = {}
  BY <1>1, <1>2 DEF Follows, Latest
<1>3. CASE SentTo(c) # {}
  <2> DEFINE m == Len(pending)
  <2>1. m \in Nat /\ DOMAIN pending = 1..m
    BY LenProperties DEF ScriptInv
  <2> HIDE DEF m
  <2>2. SentTo(c) \subseteq 0..m
    BY <2>1 DEF SentTo
  <2>3. PICK x \in SentTo(c) : \A y \in SentTo(c) : x >= y
    BY <1>3, <2>1, <2>2, GreatestNatural
  <2>4. Max(SentTo(c)) \in SentTo(c) /\ \A y \in SentTo(c) : Max(SentTo(c)) >= y
    BY <2>3 DEF Max
  <2> DEFINE k == Max(SentTo(c))
  <2> HIDE DEF k
  <2>5. k \in DOMAIN pending /\ pending[k][1] = c
    BY <2>4 DEF SentTo, k
  <2>6. LastFor(c, k)
    <3> SUFFICES ASSUME NEW j \in DOMAIN pending, j > k, pending[j][1] = c
                 PROVE  FALSE
      BY <2>5 DEF LastFor
    <3>1. j \in SentTo(c)
      BY DEF SentTo
    <3>2. k >= j
      BY <2>4, <3>1 DEF k
    <3> QED BY <2>1, <2>5, <3>2
  <2>7. pending[k][2] = shown[c] /\ shown[c] \in Values(c)
    BY <1>1, <2>5, <2>6 DEF Follows
  <2> QED BY <1>3, <2>7 DEF Latest, k
<1> QED BY <1>2, <1>3

(* Whatever keys, encoders and OSC messages come while earlier commands    *)
(* are on their way, the engine ends up with what the screen shows.        *)
THEOREM EngineEndsWithWhatIsShown == Spec => []EngineFollowsScreen
<1>1. Init => ScriptInv
  BY ScriptInvInit DEF Init
<1>2. ScriptInv => EngineFollowsScreen
  BY LatestFollows DEF ScriptInv, EngineFollowsScreen, Followed
<1> QED BY <1>1, <1>2, ScriptInvStep, PTL DEF Spec
=============================================================================
