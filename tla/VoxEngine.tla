----------------------------- MODULE VoxEngine -----------------------------
(***************************************************************************)
(* The norns script (VoxScript) and the engine it loads (EngineBuffers):   *)
(* the script runs once the engine's alloc is over, while labelling may    *)
(* still be under way, and the engine plays the phrases it is sent.        *)
(***************************************************************************)
EXTENDS EngineBuffers, VoxScript

allVars == <<vars, scriptVars>>

Init == EngineInit /\ ScriptInit

Labelling == Progress /\ UNCHANGED scriptVars

(* bound: as many phrases are asked for as synths are played *)
Asked == Len(synths) + Cardinality(SentTo("phrase"))
NewPhrases == IF Asked < MaxPlays THEN Phrases ELSE {}

Script == /\ ready
          /\ \/ Key \/ MenuNext \/ VoxVoltage
             \/ Encoder(NewPhrases)
             \/ \E val \in Settings(NetControls) : NetVoltage(val)
             \/ \E p \in NewPhrases, val \in Settings(HexControls) :
                   HexVoltage(p, val)
          /\ UNCHANGED vars

Handle == \/ Receive /\ UNCHANGED vars
          \/ \E p \in Phrases : TakePhrase(p) /\ Play(p)

Next == Labelling \/ Script \/ Handle

(* sclang handles the commands it gets, besides its routine and callbacks. *)
Spec == Init /\ [][Next]_allVars /\ WF_allVars(Labelling) /\ WF_allVars(Handle)
=============================================================================
