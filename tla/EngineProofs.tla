---------------------------- MODULE EngineProofs ----------------------------
(***************************************************************************)
(* Proofs about the engines: EngineMap for any set of names and any number *)
(* of loads, when removeEngine() is not called during run(), and VoiceArgs *)
(* for any set of parameters, any number of speakers and any size of argv. *)
(***************************************************************************)
EXTENDS EngineMap, VoiceArgs, DataInduction

(* The state of the map in every phase of the control thread's operations  *)
PhaseInv ==
  /\ NoName \notin DOMAIN engine
  /\ \A n \in DOMAIN engine :
        engine[n].id = Null => control.op = "assign" /\ n = control.name
  /\ control.op \in {"idle", "insert"} =>
        /\ flagReady <=> DOMAIN engine # {}
        /\ flagReady => defaultEngine \in DOMAIN engine
        /\ ~flagReady => defaultEngine = NoName
  /\ control.op = "idle" => control = Idle
  /\ control.op = "insert" => control.name \in Names \ DOMAIN engine
  /\ control.op \in {"insert", "assign"} =>
        /\ control.id \in live
        /\ \A n \in DOMAIN engine : engine[n].id # control.id
  /\ control.op = "assign" =>
        /\ control.name \in DOMAIN engine /\ engine[control.name].id = Null
        /\ flagReady => defaultEngine \in DOMAIN engine \ {control.name}
        /\ ~flagReady => defaultEngine = NoName
  /\ control.op = "check" =>
        /\ ~flagReady
        /\ DOMAIN engine # {} => defaultEngine \in DOMAIN engine
        /\ DOMAIN engine = {} => defaultEngine = NoName
  /\ control.op = "default" => /\ ~flagReady /\ defaultEngine = NoName
                               /\ control.name \in DOMAIN engine
  /\ control.op = "flag" => /\ ~flagReady /\ defaultEngine = control.name
                            /\ control.name \in DOMAIN engine
  /\ control.op \in {"delete", "mend"} =>
        /\ gen = "ready" /\ flagReady
        /\ defaultEngine # control.name => defaultEngine \in DOMAIN engine
  /\ control.op = "delete" => \A n \in DOMAIN engine : engine[n].id # control.id
  /\ control.op = "gone" => gen = "ready" /\ ~flagReady /\ DOMAIN engine = {}

(* run() is entered only when the flag is up.  checkReady() may take it    *)
(* down for a moment, but the default engine stays, and it is never the    *)
(* one that addEngine() has not assigned yet.                              *)
RunInv == /\ gen # "ready" =>
                /\ control.op \in {"idle", "insert", "assign", "check"}
                /\ defaultEngine \in DOMAIN engine
                /\ control.op = "assign" => defaultEngine # control.name
          /\ gen = "ready" => using = None /\ lookups = 0 /\ loop = FALSE

MapInv == /\ MapTypeOK /\ EnginesOwned /\ GeneratorUsesLoaded
          /\ PhaseInv /\ RunInv

(* An empty map satisfies the invariant. *)
LEMMA MapInitInv == MapInit => MapInv
<1> SUFFICES ASSUME MapInit PROVE MapInv
  OBVIOUS
<1> USE NamesAssumption, LoadsAssumption
        DEF MapInit, NoEngines, Idle, ControlOps, Keys, None, Null, Ids
<1>1. loads \in 0..MaxLoads /\ live \subseteq 1..loads /\ lookups \in 0..2
  OBVIOUS
<1>2. MapTypeOK
  BY <1>1, Zenon DEF MapTypeOK
<1>3. EnginesOwned
  BY DEF EnginesOwned
<1>4. GeneratorUsesLoaded /\ PhaseInv /\ RunInv
  BY DEF GeneratorUsesLoaded, PhaseInv, RunInv
<1> QED BY <1>2, <1>3, <1>4 DEF MapInv

(* addEngine() loads a new object, which no name in the map has yet. *)
LEMMA AddEngineLoadKeeps ==
  ASSUME ~RemoveConcurrently, MapInv, NEW n \in Names, AddEngineLoad(n)
  PROVE  MapInv'
<1>a. loads \in Nat /\ loads < MaxLoads /\ live \subseteq 1..loads
  BY LoadsAssumption DEF MapInv, MapTypeOK, AddEngineLoad
<1>b. loads' = loads + 1 /\ live' = live \cup {loads'}
  BY DEF AddEngineLoad
<1>c. loads' \in 0..MaxLoads /\ loads' \in Ids
  BY <1>a, <1>b, LoadsAssumption DEF Ids
<1>d. live' \subseteq 1..loads'
  BY <1>a, <1>b
<1> USE NamesAssumption, LoadsAssumption
        DEF MapInv, MapTypeOK, Keys, Null, None, Ids, Idle, ControlOps,
            genVars, mapVars, controlVars, AddEngineLoad
<1>1. MapTypeOK'
  <2>1. control' \in [op : ControlOps,
                     name : Keys, id : Ids \cup {Null, None}]
    BY <1>c
  <2> QED BY <1>c, <1>d, <2>1
<1>2. EnginesOwned'
  BY DEF EnginesOwned, PhaseInv
<1>3. GeneratorUsesLoaded'
  BY DEF GeneratorUsesLoaded, EnginesOwned, PhaseInv, RunInv
<1>4. PhaseInv'
  BY DEF PhaseInv, EnginesOwned, RunInv
<1>5. RunInv'
  BY DEF RunInv, PhaseInv
<1> QED BY <1>1, <1>2, <1>3, <1>4, <1>5

(* The new name gets a null pair; it is not the name of the default. *)
LEMMA AddEngineSlotKeeps ==
  ASSUME ~RemoveConcurrently, MapInv, AddEngineSlot
  PROVE  MapInv'
<1> USE NamesAssumption, LoadsAssumption
        DEF MapInv, MapTypeOK, Keys, Null, None, Ids, Idle, ControlOps, Weights, Stages,
            genVars, mapVars, controlVars, AddEngineSlot, Insert, NullPair
<1>1. MapTypeOK'
  <2>1. \A n \in DOMAIN engine' : engine'[n] \in [id : Ids \cup {Null}, weight : Weights]
    OBVIOUS
  <2>2. control' \in [op : ControlOps,
                     name : Keys, id : Ids \cup {Null, None}]
    OBVIOUS
  <2> QED BY <2>1, <2>2
<1>2. EnginesOwned'
  BY DEF EnginesOwned, PhaseInv
<1>3. GeneratorUsesLoaded'
  BY DEF GeneratorUsesLoaded, EnginesOwned, PhaseInv, RunInv
<1>4. PhaseInv'
  BY DEF PhaseInv, EnginesOwned, RunInv
<1>5. RunInv'
  BY DEF RunInv, PhaseInv
<1> QED BY <1>1, <1>2, <1>3, <1>4, <1>5

(* The assignment gives the loaded engine its one name. *)
LEMMA AddEngineAssignOwned ==
  ASSUME MapInv, AddEngineAssign
  PROVE  EnginesOwned'
<1>1. /\ control.name \in DOMAIN engine /\ engine[control.name].id = Null
      /\ \A n \in DOMAIN engine : engine[n].id # control.id
      /\ \A n \in DOMAIN engine : engine[n].id = Null => n = control.name
      /\ control.id \in live
  BY DEF MapInv, PhaseInv, AddEngineAssign
<1>2. Null \notin live
  BY DEF MapInv, MapTypeOK, Null
<1>3. live = ({engine[n].id : n \in DOMAIN engine} \ {Null}) \cup {control.id}
  BY DEF MapInv, EnginesOwned, AddEngineAssign
<1>4. \A m, n \in DOMAIN engine : engine[m].id = engine[n].id => m = n
  BY DEF MapInv, EnginesOwned
<1>5. /\ DOMAIN engine' = DOMAIN engine \cup {control.name}
      /\ engine'[control.name] = [id |-> control.id, weight |-> "nonzero"]
      /\ \A n \in DOMAIN engine \ {control.name} : engine'[n] = engine[n]
  BY DEF AddEngineAssign, Insert
<1>6. DOMAIN engine' = DOMAIN engine /\ engine'[control.name].id = control.id
  BY <1>1, <1>5
<1>7. control'.op \notin {"insert", "assign", "delete"} /\ live' = live
  BY DEF AddEngineAssign, Idle, MapInv, MapTypeOK
<1>8. live' = {engine'[n].id : n \in DOMAIN engine'} \ {Null}
  <2>1. ASSUME NEW x \in live
        PROVE  x # Null /\ \E n \in DOMAIN engine' : x = engine'[n].id
    BY <1>1, <1>2, <1>3, <1>5, <1>6
  <2>2. ASSUME NEW n \in DOMAIN engine'
        PROVE  engine'[n].id \in live
    BY <1>1, <1>3, <1>5, <1>6
  <2> QED BY <1>7, <2>1, <2>2
<1>9. ASSUME NEW m \in DOMAIN engine', NEW n \in DOMAIN engine',
             engine'[m].id = engine'[n].id
      PROVE  m = n
  BY <1>1, <1>4, <1>5, <1>6, <1>9
<1> QED BY <1>7, <1>8, <1>9 DEF EnginesOwned

(* The loaded engine takes the place of the null pair. *)
LEMMA AddEngineAssignKeeps ==
  ASSUME ~RemoveConcurrently, MapInv, AddEngineAssign
  PROVE  MapInv'
<1> USE NamesAssumption, LoadsAssumption
        DEF MapInv, MapTypeOK, Keys, Null, None, Ids, Idle, ControlOps, Weights, Stages,
            genVars, mapVars, controlVars, AddEngineAssign, Insert
<1>0. control.id \in Ids
  BY DEF PhaseInv
<1>1. MapTypeOK'
  <2>1. \A n \in DOMAIN engine' : engine'[n] \in [id : Ids \cup {Null}, weight : Weights]
    BY <1>0
  <2>2. control' \in [op : ControlOps,
                     name : Keys, id : Ids \cup {Null, None}]
    OBVIOUS
  <2> QED BY <2>1, <2>2
<1>2. EnginesOwned'
  BY AddEngineAssignOwned
<1>3. GeneratorUsesLoaded'
  BY DEF GeneratorUsesLoaded, EnginesOwned, PhaseInv, RunInv
<1>4. PhaseInv'
  BY DEF PhaseInv, EnginesOwned, RunInv
<1>5. RunInv'
  BY DEF RunInv, PhaseInv
<1> QED BY <1>1, <1>2, <1>3, <1>4, <1>5

(* The first engine becomes the default while the flag is still down. *)
LEMMA AddEngineDefaultKeeps ==
  ASSUME ~RemoveConcurrently, MapInv, AddEngineDefault
  PROVE  MapInv'
<1> USE NamesAssumption, LoadsAssumption
        DEF MapInv, MapTypeOK, Keys, Null, None, Ids, Idle, ControlOps, Weights, Stages,
            genVars, mapVars, controlVars, AddEngineDefault
<1>1. MapTypeOK'
  OBVIOUS
<1>2. EnginesOwned'
  BY DEF EnginesOwned, PhaseInv
<1>3. GeneratorUsesLoaded'
  BY DEF GeneratorUsesLoaded, EnginesOwned, PhaseInv, RunInv
<1>4. PhaseInv'
  BY DEF PhaseInv, EnginesOwned, RunInv
<1>5. RunInv'
  BY DEF RunInv, PhaseInv
<1> QED BY <1>1, <1>2, <1>3, <1>4, <1>5

(* The flag goes up when the default engine is in the map. *)
LEMMA AddEngineReadyKeeps ==
  ASSUME ~RemoveConcurrently, MapInv, AddEngineReady
  PROVE  MapInv'
<1> USE NamesAssumption, LoadsAssumption
        DEF MapInv, MapTypeOK, Keys, Null, None, Ids, Idle, ControlOps, Weights, Stages,
            genVars, mapVars, controlVars, AddEngineReady
<1>1. MapTypeOK'
  OBVIOUS
<1>2. EnginesOwned'
  BY DEF EnginesOwned, PhaseInv
<1>3. GeneratorUsesLoaded'
  BY DEF GeneratorUsesLoaded, EnginesOwned, PhaseInv, RunInv
<1>4. PhaseInv'
  BY DEF PhaseInv, EnginesOwned, RunInv
<1>5. RunInv'
  BY DEF RunInv, PhaseInv
<1> QED BY <1>1, <1>2, <1>3, <1>4, <1>5

(* removeEngine() takes an engine out of the map between two runs. *)
LEMMA RemoveEngineEraseKeeps ==
  ASSUME ~RemoveConcurrently, MapInv, NEW n \in Names, RemoveEngineErase(n)
  PROVE  MapInv'
<1> USE NamesAssumption, LoadsAssumption
        DEF MapInv, MapTypeOK, Keys, Null, None, Ids, Idle, ControlOps, Weights, Stages,
            genVars, mapVars, controlVars, RemoveEngineErase
<1>1. MapTypeOK'
  OBVIOUS
<1>2. EnginesOwned'
  BY DEF EnginesOwned, PhaseInv
<1>3. GeneratorUsesLoaded'
  BY DEF GeneratorUsesLoaded, EnginesOwned, PhaseInv, RunInv
<1>4. PhaseInv'
  BY DEF PhaseInv, EnginesOwned, RunInv
<1>5. RunInv'
  BY DEF RunInv, PhaseInv
<1> QED BY <1>1, <1>2, <1>3, <1>4, <1>5

(* The engine that is deleted is neither in the map nor in use. *)
LEMMA RemoveEngineDeleteKeeps ==
  ASSUME ~RemoveConcurrently, MapInv, RemoveEngineDelete
  PROVE  MapInv'
<1> USE NamesAssumption, LoadsAssumption
        DEF MapInv, MapTypeOK, Keys, Null, None, Ids, Idle, ControlOps, Weights, Stages,
            genVars, mapVars, controlVars, RemoveEngineDelete
<1>1. MapTypeOK'
  OBVIOUS
<1>2. EnginesOwned'
  BY DEF EnginesOwned, PhaseInv
<1>3. GeneratorUsesLoaded'
  BY DEF GeneratorUsesLoaded, EnginesOwned, PhaseInv, RunInv
<1>4. PhaseInv'
  BY DEF PhaseInv, EnginesOwned, RunInv
<1>5. RunInv'
  BY DEF RunInv, PhaseInv
<1> QED BY <1>1, <1>2, <1>3, <1>4, <1>5

(* Another engine becomes the default, or the flag goes down with the last. *)
LEMMA RemoveEngineMendKeeps ==
  ASSUME ~RemoveConcurrently, MapInv, RemoveEngineMend
  PROVE  MapInv'
<1> USE NamesAssumption, LoadsAssumption
        DEF MapInv, MapTypeOK, Keys, Null, None, Ids, Idle, ControlOps, Weights, Stages,
            genVars, mapVars, controlVars, RemoveEngineMend
<1>1. MapTypeOK'
  OBVIOUS
<1>2. EnginesOwned'
  BY DEF EnginesOwned, PhaseInv
<1>3. GeneratorUsesLoaded'
  BY DEF GeneratorUsesLoaded, EnginesOwned, PhaseInv, RunInv
<1>4. PhaseInv'
  BY DEF PhaseInv, EnginesOwned, RunInv
<1>5. RunInv'
  BY DEF RunInv, PhaseInv
<1> QED BY <1>1, <1>2, <1>3, <1>4, <1>5

(* setDefaultEngine() only takes a name of the map. *)
LEMMA SetDefaultEngineKeeps ==
  ASSUME ~RemoveConcurrently, MapInv, NEW n \in Names, SetDefaultEngine(n)
  PROVE  MapInv'
<1> USE NamesAssumption, LoadsAssumption
        DEF MapInv, MapTypeOK, Keys, Null, None, Ids, Idle, ControlOps, Weights, Stages,
            genVars, mapVars, controlVars, SetDefaultEngine
<1>1. MapTypeOK'
  OBVIOUS
<1>2. EnginesOwned'
  BY DEF EnginesOwned, PhaseInv
<1>3. GeneratorUsesLoaded'
  BY DEF GeneratorUsesLoaded, EnginesOwned, PhaseInv, RunInv
<1>4. PhaseInv'
  BY DEF PhaseInv, EnginesOwned, RunInv
<1>5. RunInv'
  BY DEF RunInv, PhaseInv
<1> QED BY <1>1, <1>2, <1>3, <1>4, <1>5

(* checkReady() takes the flag down; the default engine stays. *)
LEMMA CheckReadyKeeps ==
  ASSUME ~RemoveConcurrently, MapInv, CheckReady
  PROVE  MapInv'
<1> USE NamesAssumption, LoadsAssumption
        DEF MapInv, MapTypeOK, Keys, Null, None, Ids, Idle, ControlOps, Weights, Stages,
            genVars, mapVars, controlVars, CheckReady
<1>1. MapTypeOK'
  OBVIOUS
<1>2. EnginesOwned'
  BY DEF EnginesOwned, PhaseInv
<1>3. GeneratorUsesLoaded'
  BY DEF GeneratorUsesLoaded, EnginesOwned, PhaseInv, RunInv
<1>4. PhaseInv'
  BY DEF PhaseInv, EnginesOwned, RunInv
<1>5. RunInv'
  BY DEF RunInv, PhaseInv
<1> QED BY <1>1, <1>2, <1>3, <1>4, <1>5

(* checkReady() finds the flag as it should be. *)
LEMMA CheckReadyDoneKeeps ==
  ASSUME ~RemoveConcurrently, MapInv, CheckReadyDone
  PROVE  MapInv'
<1> USE NamesAssumption, LoadsAssumption
        DEF MapInv, MapTypeOK, Keys, Null, None, Ids, Idle, ControlOps, Weights, Stages,
            genVars, mapVars, controlVars, CheckReadyDone
<1>1. MapTypeOK'
  OBVIOUS
<1>2. EnginesOwned'
  BY DEF EnginesOwned, PhaseInv
<1>3. GeneratorUsesLoaded'
  BY DEF GeneratorUsesLoaded, EnginesOwned, PhaseInv, RunInv
<1>4. PhaseInv'
  BY DEF PhaseInv, EnginesOwned, RunInv
<1>5. RunInv'
  BY DEF RunInv, PhaseInv
<1> QED BY <1>1, <1>2, <1>3, <1>4, <1>5

(* enableInterpolation() only changes how run() goes through the map. *)
LEMMA EnableInterpolationKeeps ==
  ASSUME ~RemoveConcurrently, MapInv, NEW b \in BOOLEAN, EnableInterpolation(b)
  PROVE  MapInv'
<1> USE NamesAssumption, LoadsAssumption
        DEF MapInv, MapTypeOK, Keys, Null, None, Ids, Idle, ControlOps, Weights, Stages,
            genVars, mapVars, controlVars, EnableInterpolation
<1>1. MapTypeOK'
  OBVIOUS
<1>2. EnginesOwned'
  BY DEF EnginesOwned, PhaseInv
<1>3. GeneratorUsesLoaded'
  BY DEF GeneratorUsesLoaded, EnginesOwned, PhaseInv, RunInv
<1>4. PhaseInv'
  BY DEF PhaseInv, EnginesOwned, RunInv
<1>5. RunInv'
  BY DEF RunInv, PhaseInv
<1> QED BY <1>1, <1>2, <1>3, <1>4, <1>5

(* Weights change neither names nor objects. *)
LEMMA SetWeightsKeeps ==
  ASSUME ~RemoveConcurrently, MapInv, NEW weight, weight \in [DOMAIN engine -> Weights], SetWeights(weight)
  PROVE  MapInv'
<1> USE NamesAssumption, LoadsAssumption
        DEF MapInv, MapTypeOK, Keys, Null, None, Ids, Idle, ControlOps, Weights, Stages,
            genVars, mapVars, controlVars, SetWeights
<1>1. MapTypeOK'
  <2>1. ASSUME NEW n \in DOMAIN engine
        PROVE  engine'[n] \in [id : Ids \cup {Null}, weight : Weights]
    BY <2>1
  <2> QED BY <2>1
<1>2. EnginesOwned'
  BY DEF EnginesOwned, PhaseInv
<1>3. GeneratorUsesLoaded'
  BY DEF GeneratorUsesLoaded, EnginesOwned, PhaseInv, RunInv
<1>4. PhaseInv'
  BY DEF PhaseInv, EnginesOwned, RunInv
<1>5. RunInv'
  BY DEF RunInv, PhaseInv
<1> QED BY <1>1, <1>2, <1>3, <1>4, <1>5

(* reset() only touches weights and the interpolation flag. *)
LEMMA ResetKeeps ==
  ASSUME ~RemoveConcurrently, MapInv, Reset
  PROVE  MapInv'
<1> USE NamesAssumption, LoadsAssumption
        DEF MapInv, MapTypeOK, Keys, Null, None, Ids, Idle, ControlOps, Weights, Stages,
            genVars, mapVars, controlVars, Reset
<1>1. MapTypeOK'
  <2>1. ASSUME NEW n \in DOMAIN engine
        PROVE  engine'[n] \in [id : Ids \cup {Null}, weight : Weights]
    BY <2>1
  <2>2. interpolationWeights' \in BOOLEAN
    OBVIOUS
  <2> QED BY <2>1, <2>2
<1>2. EnginesOwned'
  BY DEF EnginesOwned, PhaseInv
<1>3. GeneratorUsesLoaded'
  BY DEF GeneratorUsesLoaded, EnginesOwned, PhaseInv, RunInv
<1>4. PhaseInv'
  BY DEF PhaseInv, EnginesOwned, RunInv
<1>5. RunInv'
  BY DEF RunInv, PhaseInv
<1> QED BY <1>1, <1>2, <1>3, <1>4, <1>5

(* ~Mage() deletes every engine. *)
LEMMA DtorKeeps ==
  ASSUME ~RemoveConcurrently, MapInv, Dtor
  PROVE  MapInv'
<1> USE NamesAssumption, LoadsAssumption
        DEF MapInv, MapTypeOK, Keys, Null, None, Ids, Idle, ControlOps, Weights, Stages,
            genVars, mapVars, controlVars, Dtor, NoEngines
<1>1. MapTypeOK'
  OBVIOUS
<1>2. EnginesOwned'
  BY DEF EnginesOwned, PhaseInv
<1>3. GeneratorUsesLoaded'
  BY DEF GeneratorUsesLoaded, EnginesOwned, PhaseInv, RunInv
<1>4. PhaseInv'
  BY DEF PhaseInv, EnginesOwned, RunInv
<1>5. RunInv'
  BY DEF RunInv, PhaseInv
<1> QED BY <1>1, <1>2, <1>3, <1>4, <1>5

(* run() starts only when the flag is up. *)
LEMMA GenReadyKeeps ==
  ASSUME ~RemoveConcurrently, MapInv, GenReady
  PROVE  MapInv'
<1> USE NamesAssumption, LoadsAssumption
        DEF MapInv, MapTypeOK, Keys, Null, None, Ids, Idle, ControlOps, Weights, Stages,
            genVars, mapVars, controlVars, GenReady, EnterStage, After, Lookups, InterpolatingStages
<1>1. MapTypeOK'
  OBVIOUS
<1>2. EnginesOwned'
  BY DEF EnginesOwned, PhaseInv
<1>3. GeneratorUsesLoaded'
  BY DEF GeneratorUsesLoaded, EnginesOwned, PhaseInv, RunInv
<1>4. PhaseInv'
  BY DEF PhaseInv, EnginesOwned, RunInv
<1>5. RunInv'
  BY DEF RunInv, PhaseInv
<1> QED BY <1>1, <1>2, <1>3, <1>4, <1>5

(* The lookup of the default engine finds a loaded one. *)
LEMMA GenDefaultKeeps ==
  ASSUME ~RemoveConcurrently, MapInv, GenDefault
  PROVE  MapInv'
<1> USE NamesAssumption, LoadsAssumption
        DEF MapInv, MapTypeOK, Keys, Null, None, Ids, Idle, ControlOps, Weights, Stages,
            genVars, mapVars, controlVars, GenDefault
<1>0. defaultEngine \in DOMAIN engine /\ engine' = engine
  BY DEF RunInv, PhaseInv
<1>1. MapTypeOK'
  BY <1>0
<1>2. EnginesOwned'
  BY <1>0 DEF EnginesOwned, PhaseInv
<1>3. GeneratorUsesLoaded'
  BY <1>0 DEF GeneratorUsesLoaded, EnginesOwned, PhaseInv, RunInv
<1>4. PhaseInv'
  BY <1>0 DEF PhaseInv, EnginesOwned, RunInv
<1>5. RunInv'
  BY DEF RunInv, PhaseInv
<1> QED BY <1>1, <1>2, <1>3, <1>4, <1>5

(* Every engine of the map is a loaded one, or the null pair. *)
LEMMA GenEachKeeps ==
  ASSUME ~RemoveConcurrently, MapInv, NEW n \in Keys, GenEach(n)
  PROVE  MapInv'
<1> USE NamesAssumption, LoadsAssumption
        DEF MapInv, MapTypeOK, Keys, Null, None, Ids, Idle, ControlOps, Weights, Stages,
            genVars, mapVars, controlVars, GenEach
<1>1. MapTypeOK'
  OBVIOUS
<1>2. EnginesOwned'
  BY DEF EnginesOwned, PhaseInv
<1>3. GeneratorUsesLoaded'
  BY DEF GeneratorUsesLoaded, EnginesOwned, PhaseInv, RunInv
<1>4. PhaseInv'
  BY DEF PhaseInv, EnginesOwned, RunInv
<1>5. RunInv'
  BY DEF RunInv, PhaseInv
<1> QED BY <1>1, <1>2, <1>3, <1>4, <1>5

(* run() is done with an engine. *)
LEMMA GenUsedKeeps ==
  ASSUME ~RemoveConcurrently, MapInv, GenUsed
  PROVE  MapInv'
<1> USE NamesAssumption, LoadsAssumption
        DEF MapInv, MapTypeOK, Keys, Null, None, Ids, Idle, ControlOps, Weights, Stages,
            genVars, mapVars, controlVars, GenUsed
<1>1. MapTypeOK'
  OBVIOUS
<1>2. EnginesOwned'
  BY DEF EnginesOwned, PhaseInv
<1>3. GeneratorUsesLoaded'
  BY DEF GeneratorUsesLoaded, EnginesOwned, PhaseInv, RunInv
<1>4. PhaseInv'
  BY DEF PhaseInv, EnginesOwned, RunInv
<1>5. RunInv'
  BY DEF RunInv, PhaseInv
<1> QED BY <1>1, <1>2, <1>3, <1>4, <1>5

(* run() goes to its next stage, or returns. *)
LEMMA GenStageKeeps ==
  ASSUME ~RemoveConcurrently, MapInv, GenStage
  PROVE  MapInv'
<1> USE NamesAssumption, LoadsAssumption
        DEF MapInv, MapTypeOK, Keys, Null, None, Ids, Idle, ControlOps, Weights, Stages,
            genVars, mapVars, controlVars, GenStage, EnterStage, After, Lookups, InterpolatingStages
<1>1. MapTypeOK'
  OBVIOUS
<1>2. EnginesOwned'
  BY DEF EnginesOwned, PhaseInv
<1>3. GeneratorUsesLoaded'
  BY DEF GeneratorUsesLoaded, EnginesOwned, PhaseInv, RunInv
<1>4. PhaseInv'
  BY DEF PhaseInv, EnginesOwned, RunInv
<1>5. RunInv'
  BY DEF RunInv, PhaseInv
<1> QED BY <1>1, <1>2, <1>3, <1>4, <1>5

(* Every step of either thread preserves the invariant. *)
LEMMA MapNextInv ==
  ASSUME ~RemoveConcurrently, MapInv, [MapNext]_vars
  PROVE  MapInv'
<1>1. ASSUME NEW n \in Names, NEW w \in Weights, SetInterpolationFunctions(n, w)
      PROVE  MapInv'
  <2> DEFINE weight == [k \in DOMAIN engine |-> IF k = n THEN w ELSE engine[k].weight]
  <2>1. weight \in [DOMAIN engine -> Weights]
    BY DEF MapInv, MapTypeOK
  <2>2. SetWeights(weight)
    BY <1>1 DEF SetInterpolationFunctions
  <2> QED BY <2>1, <2>2, SetWeightsKeeps
<1>2. CASE ResetInterpolationWeights
  <2> DEFINE weight == [k \in DOMAIN engine |-> "zero"]
  <2>1. weight \in [DOMAIN engine -> Weights]
    BY DEF Weights
  <2>2. SetWeights(weight)
    BY <1>2 DEF ResetInterpolationWeights
  <2> QED BY <2>1, <2>2, SetWeightsKeeps
<1>3. CASE Control
  BY <1>1, <1>2, <1>3, AddEngineLoadKeeps, AddEngineSlotKeeps, AddEngineAssignKeeps,
     AddEngineDefaultKeeps, AddEngineReadyKeeps, RemoveEngineEraseKeeps,
     RemoveEngineDeleteKeeps, RemoveEngineMendKeeps, SetDefaultEngineKeeps,
     CheckReadyKeeps, CheckReadyDoneKeeps, EnableInterpolationKeeps, ResetKeeps, DtorKeeps
     DEF Control
<1>4. CASE Generator
  BY <1>4, GenReadyKeeps, GenDefaultKeeps, GenEachKeeps, GenUsedKeeps,
     GenStageKeeps DEF Generator
<1>5. CASE UNCHANGED vars
  BY <1>5 DEF vars, mapVars, controlVars, genVars, MapInv, MapTypeOK,
              EnginesOwned, GeneratorUsesLoaded, PhaseInv, RunInv
<1> QED BY <1>3, <1>4, <1>5 DEF MapNext

(* When removeEngine() and run() exclude each other, the invariant holds   *)
(* in every behaviour of control and generator thread.                     *)
THEOREM MapInvHolds ==
  ASSUME ~RemoveConcurrently
  PROVE  MapSpec => []MapInv
<1>1. MapInit => MapInv
  BY MapInitInv
<1>2. MapInv /\ [MapNext]_vars => MapInv'
  BY MapNextInv
<1> QED BY <1>1, <1>2, PTL DEF MapSpec

(* Types of the engine map. *)
THEOREM MapTypeCorrect ==
  ASSUME ~RemoveConcurrently
  PROVE  MapSpec => []MapTypeOK
<1>1. MapInv => MapTypeOK
  BY DEF MapInv
<1> QED BY <1>1, MapInvHolds, PTL

(* ready() answers for the default engine, and the flag follows the map,   *)
(* for any number of engines.                                              *)
THEOREM ReadyMeansDefault ==
  ASSUME ~RemoveConcurrently
  PROVE  MapSpec => []ReadyHasDefault
<1>1. MapInv => ReadyHasDefault
  <2> SUFFICES ASSUME MapInv PROVE ReadyHasDefault
    OBVIOUS
  <2>1. ASSUME flagReady, ~Removing
        PROVE  defaultEngine \in DOMAIN engine /\ engine[defaultEngine].id # Null
    BY <2>1, NamesAssumption
       DEF MapInv, MapTypeOK, PhaseInv, Removing, ControlOps, Null
  <2>2. ASSUME NEW n \in DOMAIN engine, engine[n].id # Null
        PROVE  engine[n].id \in live
    BY <2>2 DEF MapInv, EnginesOwned
  <2>3. control = Idle => (flagReady <=> DOMAIN engine # {})
    BY DEF MapInv, PhaseInv, Idle
  <2> QED BY <2>1, <2>2, <2>3 DEF ReadyHasDefault
<1> QED BY <1>1, MapInvHolds, PTL

(* While engines are added and the default changes under it, run() never   *)
(* works with a deleted engine or one still being loaded, and its default  *)
(* engine is never the null pointer of an engine being added: only a stage *)
(* that interpolates can meet that one.                                    *)
THEOREM RunUsesLoadedEngines ==
  ASSUME ~RemoveConcurrently
  PROVE  MapSpec => []GeneratorUsesLoaded
<1>1. MapInv => GeneratorUsesLoaded
  BY DEF MapInv
<1> QED BY <1>1, MapInvHolds, PTL

(* No engine is leaked, and none is deleted twice. *)
THEOREM EveryEngineOwned ==
  ASSUME ~RemoveConcurrently
  PROVE  MapSpec => []EnginesOwned
<1>1. MapInv => EnginesOwned
  BY DEF MapInv
<1> QED BY <1>1, MapInvHolds, PTL

(* reset() restores weights that applications cleared, again and again:    *)
(* the sum it depends on stays nonzero while there are engines.            *)
THEOREM ResetKeepsRestoring ==
  ASSUME ~RemoveConcurrently
  PROVE  MapSpec => ResetRestores
<1> DEFINE Restores == interpolationWeights /\ DOMAIN engine # {}
                          => interpolationWeights'
<1>1. MapInv /\ [MapNext]_vars => [Restores]_vars
  <2> SUFFICES ASSUME MapInv, [MapNext]_vars, interpolationWeights,
                      DOMAIN engine # {}
               PROVE  interpolationWeights'
    OBVIOUS
  <2>1. CASE Reset
    <3>1. PICK n \in DOMAIN engine : TRUE
      OBVIOUS
    <3>2. engine[n] \in [id : Ids \cup {Null}, weight : Weights]
      BY <3>1 DEF MapInv, MapTypeOK
    <3>3. engine'[n] = [engine[n] EXCEPT !.weight = "nonzero"]
      BY <2>1, <3>1 DEF Reset
    <3>4. engine'[n].weight = "nonzero"
      BY <3>2, <3>3
    <3> QED BY <2>1, <3>1, <3>4 DEF Reset
  <2>2. CASE Control /\ ~Reset
    BY <2>2 DEF Control, AddEngineLoad, AddEngineSlot, AddEngineAssign, AddEngineDefault,
         AddEngineReady, RemoveEngineErase, RemoveEngineDelete,
         RemoveEngineMend, SetDefaultEngine, CheckReady, CheckReadyDone, EnableInterpolation,
         SetInterpolationFunctions, ResetInterpolationWeights, SetWeights,
         Dtor, mapVars
  <2>3. CASE Generator
    BY <2>3 DEF Generator, GenReady, GenDefault, GenEach, GenUsed, GenStage,
         mapVars
  <2>4. CASE UNCHANGED vars
    BY <2>4 DEF vars, mapVars
  <2> QED BY <2>1, <2>2, <2>3, <2>4 DEF MapNext
<1> QED BY <1>1, MapInvHolds, PTL DEF MapSpec, ResetRestores

-----------------------------------------------------------------------------
(* The arguments and the options with their values that lists are made of  *)
I == <<"i", "">>
Valued == Kinds \cup {Window, Setting}
Switches == {<<"flag", "">>, <<"bad", "">>, <<"h", "">>}
ArgSet == {Option(k) : k \in Valued \cup Switches \cup {I}} \cup {Word(n) : n \in Nat}
Plain == {Item(k, n) : k \in Valued, n \in Nat}
         \cup {Flag, Bad, Help, CutInterp, CutSet, LabelFile}
Interps == {Interp(n) : n \in Nat}

(* What an item x consists of                                              *)
WithValue(x) == \E k \in Valued, n \in Nat :
                   Len(x) = 2 /\ x[1] = Option(k) /\ x[2] = Word(n)
WithRates(x, n) == /\ Len(x) = 2 + n /\ x[1] = Option(I) /\ x[2] = Word(n)
                   /\ \A i \in 2..Len(x) : \E w \in Nat : x[i] = Word(w)
Alone(x) == /\ Len(x) = 1
            /\ x[1] \in {Option(k) : k \in Switches} \cup {Word(0)}

(* Options and words are told apart, and so are the options.               *)
LEMMA Arguments ==
  /\ \A k : Option(k)[1] = "-" /\ Option(k)[2] = k /\ IsOption(Option(k))
  /\ \A n : Word(n)[1] = "word" /\ Word(n)[2] = n /\ ~IsOption(Word(n)) /\ Atoi(Word(n)) = n
  /\ \A k \in Valued : k \notin Switches /\ k # I /\ k[1] # "i"
  /\ \A k \in Switches : k # I /\ k[1] # "i" /\ k \notin Valued
  /\ I[1] = "i" /\ I \notin Kinds /\ Kinds \subseteq Valued
  /\ \A k \in Kinds : k \notin {Window, Setting}
<1>1. \A k : Option(k)[1] = "-" /\ Option(k)[2] = k /\ IsOption(Option(k))
  BY DEF Option, IsOption
<1>2. \A n : Word(n)[1] = "word" /\ Word(n)[2] = n /\ ~IsOption(Word(n)) /\ Atoi(Word(n)) = n
  BY DEF Word, IsOption, Atoi
<1>3. I[1] = "i" /\ Window[1] = "d" /\ Setting[1] = "set"
  BY DEF I, Window, Setting
<1>4. \A k \in Kinds : k[1] \in {"t", "m", "e", "c"}
  BY DEF Kinds, Required, Lpf, Gv
<1>5. \A k \in Switches : k[1] \in {"flag", "bad", "h"}
  <2> SUFFICES ASSUME NEW k \in Switches PROVE k[1] \in {"flag", "bad", "h"}
    OBVIOUS
  <2>1. k = <<"flag", "">> \/ k = <<"bad", "">> \/ k = <<"h", "">>
    BY DEF Switches
  <2>2. CASE k = <<"flag", "">>
    BY <2>2
  <2>3. CASE k = <<"bad", "">>
    BY <2>3
  <2>4. CASE k = <<"h", "">>
    BY <2>4
  <2> QED BY <2>1, <2>2, <2>3, <2>4
<1>6. \A k \in Valued : k[1] \in {"t", "m", "e", "c", "d", "set"}
  <2> SUFFICES ASSUME NEW k \in Valued PROVE k[1] \in {"t", "m", "e", "c", "d", "set"}
    OBVIOUS
  <2>1. k \in Kinds \/ k = Window \/ k = Setting
    BY DEF Valued
  <2>2. CASE k \in Kinds
    BY <1>4, <2>2
  <2>3. CASE k = Window
    BY <1>3, <2>3
  <2>4. CASE k = Setting
    BY <1>3, <2>4
  <2> QED BY <2>1, <2>2, <2>3, <2>4
<1>7. Kinds \subseteq Valued
  BY DEF Valued
<1> QED BY <1>1, <1>2, <1>3, <1>4, <1>5, <1>6, <1>7

(* The items of the lists                                                  *)
LEMMA PlainItems ==
  ASSUME NEW x \in Plain
  PROVE  /\ x \in Seq(ArgSet)
         /\ WithValue(x) \/ Alone(x) \/ x \in {CutInterp, CutSet}
         /\ Len(x) \in Nat \ {0}
<1>1. /\ \A k \in Valued \cup Switches \cup {I} : Option(k) \in ArgSet
      /\ \A n \in Nat : Word(n) \in ArgSet
  BY DEF ArgSet
<1>a. 1 \in Nat \ {0}
  OBVIOUS
<1>2. CASE \E k \in Valued, n \in Nat : x = Item(k, n)
  <2>1. PICK k \in Valued, n \in Nat : x = <<Option(k), Word(n)>>
    BY <1>2 DEF Item
  <2>2. Option(k) \in ArgSet /\ Word(n) \in ArgSet
    BY <1>1
  <2> HIDE DEF Option, Word
  <2>3. x \in Seq(ArgSet) /\ Len(x) = 2 /\ x[1] = Option(k) /\ x[2] = Word(n)
    BY <2>1, <2>2
  <2> QED BY <2>3 DEF WithValue
<1>3. CASE \E a \in {Option(k) : k \in Switches \cup {I, Setting}} \cup {Word(0)} : x = <<a>>
  <2>1. PICK a \in {Option(k) : k \in Switches \cup {I, Setting}} \cup {Word(0)} : x = <<a>>
    BY <1>3
  <2>2. a \in ArgSet
    BY <1>1 DEF Valued
  <2>3. x \in Seq(ArgSet) /\ Len(x) = 1 /\ x[1] = a
    BY <2>1, <2>2, OneElement
  <2>4. a = Option(I) => x = CutInterp
    BY <2>1 DEF CutInterp, I
  <2>5. a = Option(Setting) => x = CutSet
    BY <2>1 DEF CutSet
  <2>6. a \in {Option(k) : k \in Switches} \cup {Word(0)} \/ a = Option(I)
        \/ a = Option(Setting)
    OBVIOUS
  <2>7. Alone(x) \/ x \in {CutInterp, CutSet}
    <3>1. CASE a \in {Option(k) : k \in Switches} \cup {Word(0)}
      BY <2>3, <3>1, Zenon DEF Alone
    <3>2. CASE a = Option(I) \/ a = Option(Setting)
      BY <2>4, <2>5, <3>2
    <3> QED BY <2>6, <3>1, <3>2
  <2>8. Len(x) \in Nat \ {0}
    BY <1>a, <2>3, Zenon
  <2> QED BY <2>3, <2>7, <2>8, Zenon
<1>4. CASE x \in {Flag, Bad, Help, CutInterp, CutSet, LabelFile}
  <2>1. \E a \in {Option(k) : k \in Switches \cup {I, Setting}} \cup {Word(0)} : x = <<a>>
    BY <1>4 DEF Flag, Bad, Help, CutInterp, CutSet, LabelFile, Switches, I
  <2> QED BY <1>3, <2>1
<1> QED BY <1>2, <1>4 DEF Plain

(* An interpolation has its number and as many rates.                      *)
LEMMA InterpItems ==
  ASSUME NEW n \in Nat
  PROVE  Interp(n) \in Seq(ArgSet) /\ WithRates(Interp(n), n)
<1> DEFINE a == <<Option(I), Word(n)>>
           b == [k \in 1..n |-> Word(k)]
           x == a \o b
<1>1. Option(I) \in ArgSet /\ \A k \in Nat : Word(k) \in ArgSet
  BY DEF ArgSet
<1>2. a \in Seq(ArgSet) /\ Len(a) = 2 /\ a[1] = Option(I) /\ a[2] = Word(n)
  BY <1>1
<1>3. b \in Seq(ArgSet) /\ Len(b) = n /\ \A k \in 1..n : b[k] = Word(k)
  <2>1. \A k \in 1..n : Word(k) \in ArgSet
    BY <1>1
  <2> HIDE DEF Word
  <2>2. b \in [1..n -> ArgSet]
    BY <2>1
  <2> QED BY <2>2
<1>4. x = Interp(n)
  BY DEF Interp, I
<1> HIDE DEF a, b
<1>5. /\ x \in Seq(ArgSet) /\ Len(x) = 2 + n
      /\ \A i \in 1..(2 + n) : x[i] = IF i <= 2 THEN a[i] ELSE b[i - 2]
  <2>1. /\ x \in Seq(ArgSet) /\ Len(x) = Len(a) + Len(b)
        /\ \A i \in 1..(Len(a) + Len(b)) : x[i] = IF i <= Len(a) THEN a[i] ELSE b[i - Len(a)]
    BY <1>2, <1>3, ConcatProperties
  <2> QED BY <1>2, <1>3, <2>1
<1> HIDE DEF x
<1>6. x[1] = Option(I) /\ x[2] = Word(n)
  BY <1>2, <1>5
<1>7. \A i \in 2..Len(x) : \E w \in Nat : x[i] = Word(w)
  <2> SUFFICES ASSUME NEW i \in 2..Len(x) PROVE \E w \in Nat : x[i] = Word(w)
    OBVIOUS
  <2>1. CASE i = 2
    BY <1>6, <2>1
  <2>2. CASE i # 2
    <3>1. i - 2 \in 1..n /\ ~(i <= 2) /\ i \in 1..(2 + n) /\ i - 2 \in Nat
      BY <1>5, <2>2
    <3>2. x[i] = Word(i - 2)
      BY <1>3, <1>5, <3>1
    <3> QED BY <3>1, <3>2
  <2> QED BY <2>1, <2>2
<1> QED BY <1>4, <1>5, <1>6, <1>7 DEF WithRates

-----------------------------------------------------------------------------
(* The lists of VoiceArgs: items one after the other, with at most one     *)
(* complete interpolation.                                                 *)
ListOK(s) == /\ s \in Seq(Plain \cup Interps)
             /\ \A a, b \in 1..Len(s) : s[a] \in Interps /\ s[b] \in Interps => a = b

(* An interpolation is no other item.                                      *)
LEMMA PlainNotInterp ==
  ASSUME NEW x \in Plain
  PROVE  x \notin Interps
<1> SUFFICES ASSUME NEW n \in Nat, x = Interp(n) PROVE FALSE
  BY DEF Interps
<1>1. WithRates(x, n)
  BY InterpItems
<1>2. Len(x) = 2 + n /\ x[1] = Option(I) /\ Len(x) # 1
  <2>1. Len(x) = 2 + n /\ x[1] = Option(I)
    BY <1>1 DEF WithRates
  <2>2. 2 + n # 1
    OBVIOUS
  <2> QED BY <2>1, <2>2
<1>3. CASE WithValue(x)
  <2>1. PICK k \in Valued : x[1] = Option(k)
    BY <1>3 DEF WithValue
  <2>2. k = I
    <3>1. Option(k)[2] = k /\ Option(I)[2] = I
      BY DEF Option
    <3> QED BY <1>2, <2>1, <3>1
  <2> QED BY <2>2, Arguments
<1>4. CASE Alone(x)
  BY <1>2, <1>4 DEF Alone
<1>5. CASE x \in {CutInterp, CutSet}
  <2>1. Len(CutInterp) = 1 /\ Len(CutSet) = 1
    BY DEF CutInterp, CutSet
  <2>2. Len(x) = 1
    BY <1>5, <2>1
  <2> QED BY <1>2, <2>2
<1>6. WithValue(x) \/ Alone(x) \/ x \in {CutInterp, CutSet}
  BY PlainItems
<1> QED BY <1>3, <1>4, <1>5, <1>6

(* A list of two options for each element of a set                         *)
LEMMA PairsType ==
  ASSUME NEW S, IsFiniteSet(S), NEW a, NEW b,
         \A p \in S : <<a, p>> \in Kinds /\ <<b, p>> \in Kinds
  PROVE  Pairs(S, a, b) \in Seq(Kinds)
<1> DEFINE C == Cardinality(S)
           P(k) == <<<<a, SetToSeq(S)[k]>>, <<b, SetToSeq(S)[k]>>>>
<1>1. C \in Nat /\ \A k \in 1..C : SetToSeq(S)[k] \in S
  BY SetToSeqType
<1>2. \A k \in 1..C : P(k) \in Seq(Kinds)
  <2> SUFFICES ASSUME NEW p \in S PROVE <<<<a, p>>, <<b, p>>>> \in Seq(Kinds)
    BY <1>1
  <2> QED BY TwoElements
<1>3. Pairs(S, a, b) = FlattenSeq([k \in 1..C |-> P(k)])
  BY DEF Pairs
<1> DEFINE Y == Seq(Kinds)
           f == [k \in 1..C |-> P(k)]
<1> HIDE DEF C, P, Y
<1>4. f \in [1..C -> Y]
  BY <1>2 DEF Y
<1>5. f \in Seq(Y)
  BY <1>1, <1>4, SeqDef
<1> QED BY <1>3, <1>5, FlattenType DEF Y

(* A voice is a list of options with a value.                              *)
LEMMA VoiceType ==
  ASSUME NEW kinds \in VoiceKinds, NEW m \in 1..MaxSpeakers
  PROVE  Voice(kinds, m) \in Seq(Plain)
<1>1. /\ RequiredList \in Seq(Kinds)
      /\ Pairs(Streams, "e", "c") \in Seq(Kinds)
  <2>1. /\ \A p \in Params : <<"t", p>> \in Kinds /\ <<"m", p>> \in Kinds
        /\ \A s \in Streams : <<"e", s>> \in Kinds /\ <<"c", s>> \in Kinds
    BY DEF Kinds, Required, Gv
  <2>2. IsFiniteSet(Params) /\ IsFiniteSet(Streams)
    <3>1. IsFiniteSet(Params \ {"dur"})
      BY ArgsAssumption, FS_Difference
    <3> QED BY <3>1, ArgsAssumption, FS_AddElement DEF Streams
  <2> QED BY <2>1, <2>2, PairsType DEF RequiredList
<1>2. NoFilterList \in Seq(Kinds) /\ FullList \in Seq(Kinds)
  <2> DEFINE s == <<<<"t", "lpf">>, <<"m", "lpf">>>>
  <2>1. <<"t", "lpf">> \in Kinds /\ <<"m", "lpf">> \in Kinds
    BY DEF Kinds, Lpf
  <2>2. s \in Seq(Kinds)
    BY <2>1, TwoElements
  <2>3. NoFilterList \in Seq(Kinds)
    BY <1>1, ConcatProperties DEF NoFilterList
  <2>4. FullList = NoFilterList \o s
    BY DEF FullList
  <2> HIDE DEF s
  <2> QED BY <2>2, <2>3, <2>4, ConcatProperties
<1>3. kinds \in Seq(Kinds)
  BY <1>1, <1>2 DEF VoiceKinds
<1>4. /\ Len(kinds) \in Nat /\ DOMAIN kinds = 1..Len(kinds)
      /\ \A k \in 1..Len(kinds) : kinds[k] \in Valued
  <2>1. \A k \in 1..Len(kinds) : kinds[k] \in Kinds
    BY <1>3, ElementOfSeq
  <2> QED BY <1>3, <2>1, LenProperties, Arguments
<1> DEFINE K == Len(kinds)
           Row(k) == [j \in 1..m |-> Item(kinds[k], 10 * k + j)]
           rows == [k \in 1..K |-> Row(k)]
           Y == Seq(Plain)
<1>5. \A k \in 1..K : Row(k) \in Y
  <2> SUFFICES ASSUME NEW k \in 1..K PROVE Row(k) \in Y
    OBVIOUS
  <2>1. \A j \in 1..m : 10 * k + j \in Nat
    BY <1>4, ArgsAssumption
  <2>2. \A j \in 1..m : Item(kinds[k], 10 * k + j) \in Plain
    BY <1>4, <2>1 DEF Plain
  <2>3. m \in Nat
    BY ArgsAssumption
  <2>4. Row(k) \in [1..m -> Plain]
    BY <2>2
  <2> QED BY <2>3, <2>4, SeqDef
<1>6. rows \in Seq(Y)
  <2> HIDE DEF Row, Y
  <2>1. rows \in [1..K -> Y]
    BY <1>5
  <2> HIDE DEF rows
  <2> QED BY <1>4, <2>1, SeqDef
<1> DEFINE w == <<Item(Window, 1), Item(Setting, 1)>>
<1>7. w \in Seq(Plain)
  <2>1. Window \in Valued /\ Setting \in Valued /\ 1 \in Nat
    BY DEF Valued
  <2>a. \A k \in Valued, n \in Nat : Item(k, n) \in Plain
    BY DEF Plain
  <2>2. Item(Window, 1) \in Plain /\ Item(Setting, 1) \in Plain
    BY <2>1, <2>a
  <2> QED BY <2>2, TwoElements
<1>8. Voice(kinds, m) = FlattenSeq(rows) \o w
  BY <1>4 DEF Voice
<1> HIDE DEF rows, w
<1>9. FlattenSeq(rows) \in Seq(Plain)
  BY <1>6, FlattenType
<1> QED BY <1>7, <1>8, <1>9, ConcatProperties

(* The lists a voice is loaded from are such lists.                        *)
LEMMA ListsOK ==
  ASSUME NEW s \in ItemLists
  PROVE  ListOK(s)
<1> DEFINE X == Plain \cup Interps
<1>1. {Flag, Bad, Help, CutInterp, CutSet, LabelFile} \subseteq Plain /\ LabelFile \in X
  BY DEF Plain
<1>2. ASSUME NEW t \in Seq(Plain) PROVE ListOK(t)
  <2>1. t \in Seq(X)
    <3>1. Plain \subseteq X
      OBVIOUS
    <3> QED BY <3>1, SeqMonotonic
  <2>2. \A a \in 1..Len(t) : t[a] \notin Interps
    BY ElementOfSeq, PlainNotInterp
  <2> QED BY <2>1, <2>2 DEF ListOK
<1>3. ASSUME NEW t, ListOK(t) PROVE ListOK(Append(t, LabelFile))
  <2> DEFINE u == Append(t, LabelFile)
             N == Len(t)
  <2>1. t \in Seq(X) /\ N \in Nat
    BY <1>3, LenProperties DEF ListOK
  <2> HIDE DEF X
  <2>2. /\ u \in Seq(X) /\ Len(u) = N + 1 /\ u[N + 1] = LabelFile
        /\ \A a \in 1..N : u[a] = t[a]
    BY <1>1, <2>1, AppendProperties
  <2> HIDE DEF u, N
  <2>3. LabelFile \notin Interps
    BY <1>1, PlainNotInterp
  <2>4. \A a \in 1..(N + 1) : u[a] \in Interps => a \in 1..N /\ t[a] \in Interps
    <3>1. \A a \in 1..(N + 1) : a \in 1..N \/ a = N + 1
      BY <2>1
    <3> QED BY <2>2, <2>3, <3>1
  <2> QED BY <1>3, <2>2, <2>4 DEF ListOK, X, u, N
<1>4. ASSUME NEW t \in Seq(Plain), NEW k \in 1..(Len(t) + 1), NEW n \in Nat
      PROVE  ListOK(InsertAt(t, k, Interp(n)))
  <2> DEFINE u == InsertAt(t, k, Interp(n))
             N == Len(t)
  <2>1. t \in Seq(X) /\ Interp(n) \in X
    <3>1. Plain \subseteq X
      OBVIOUS
    <3>2. Interp(n) \in Interps
      BY DEF Interps
    <3> QED BY <3>1, <3>2, SeqMonotonic
  <2> HIDE DEF X
  <2>2. /\ u \in Seq(X) /\ Len(u) = N + 1
        /\ \A a \in 1..(N + 1) : a # k => \E b \in 1..N : u[a] = t[b]
    <3>1. \A x \in X : /\ InsertAt(t, k, x) \in Seq(X) /\ Len(InsertAt(t, k, x)) = Len(t) + 1
                       /\ \A a \in 1..(Len(t) + 1) : a # k =>
                             \E b \in 1..Len(t) : InsertAt(t, k, x)[a] = t[b]
      <4>1. t \in Seq(X) /\ k \in 1..(Len(t) + 1)
        BY <2>1
      <4> QED BY <4>1, Inserted
    <3> QED BY <2>1, <3>1
  <2> HIDE DEF u, N
  <2>3. \A b \in 1..N : t[b] \notin Interps
    BY ElementOfSeq, PlainNotInterp DEF N
  <2>4. \A a \in 1..(N + 1) : u[a] \in Interps => a = k
    BY <2>2, <2>3
  <2> QED BY <2>2, <2>4 DEF ListOK, X, u
<1>5. ASSUME NEW v \in Seq(Plain), NEW t \in Edited(v) PROVE t \in Seq(Plain)
  <2>0. Len(v) \in Nat /\ DOMAIN v = 1..Len(v) /\ \A k \in 1..Len(v) : v[k] \in Plain
    BY LenProperties, ElementOfSeq
  <2>1. CASE t = v
    BY <2>1
  <2>2. CASE \E k \in DOMAIN v : t = RemoveAt(v, k)
    BY <2>0, <2>2, Removed
  <2>3. CASE \E k \in DOMAIN v : t = InsertAt(v, k, v[k])
    <3>1. PICK k \in 1..Len(v) : t = InsertAt(v, k, v[k])
      BY <2>0, <2>3
    <3>2. k \in 1..(Len(v) + 1) /\ v[k] \in Plain
      BY <2>0
    <3> QED BY <3>1, <3>2, Inserted
  <2>4. CASE \E k \in 1..(Len(v) + 1), x \in {Flag, Bad} : t = InsertAt(v, k, x)
    <3>1. PICK k \in 1..(Len(v) + 1), x \in {Flag, Bad} : t = InsertAt(v, k, x)
      BY <2>4
    <3>2. x \in Plain
      BY <1>1
    <3> QED BY <3>1, <3>2, Inserted
  <2>5. CASE \E x \in {CutInterp, CutSet, Help} : t = Append(v, x)
    <3>1. PICK x \in {CutInterp, CutSet, Help} : t = Append(v, x)
      BY <2>5
    <3>2. x \in Plain
      BY <1>1
    <3> QED BY <3>1, <3>2, AppendProperties
  <2> QED BY <1>5, <2>1, <2>2, <2>3, <2>4, <2>5 DEF Edited
<1>6. ASSUME NEW v \in Seq(Plain), NEW t \in WithInterp(v) PROVE ListOK(t)
  <2>1. CASE t = v
    BY <1>2, <2>1
  <2>2. CASE \E k \in 1..(Len(v) + 1), n \in {0, MaxSpeakers} : t = InsertAt(v, k, Interp(n))
    <3>1. {0, MaxSpeakers} \subseteq Nat
      BY ArgsAssumption
    <3> QED BY <1>4, <2>2, <3>1
  <2>3. Len(v) + 1 \in 1..(Len(v) + 1)
    BY LenProperties
  <2> QED BY <1>6, <2>1, <2>2, <2>3 DEF WithInterp
<1>7. CASE s \in {<<>>, <<LabelFile>>}
  <2>1. <<>> \in Seq(Plain) /\ <<LabelFile>> \in Seq(Plain)
    BY <1>1, OneElement
  <2> QED BY <1>2, <1>7, <2>1
<1>8. CASE \E kinds \in VoiceKinds, m \in 1..MaxSpeakers :
             \E v \in Edited(Voice(kinds, m)) : \E t \in WithInterp(v) :
                s \in {t, Append(t, LabelFile)}
  <2>1. PICK kinds \in VoiceKinds, m \in 1..MaxSpeakers :
             \E v \in Edited(Voice(kinds, m)) : \E t \in WithInterp(v) :
                s \in {t, Append(t, LabelFile)}
    BY <1>8
  <2>2. PICK v \in Edited(Voice(kinds, m)) : \E t \in WithInterp(v) :
                s \in {t, Append(t, LabelFile)}
    BY <2>1
  <2>3. PICK t \in WithInterp(v) : s \in {t, Append(t, LabelFile)}
    BY <2>2
  <2>4. Voice(kinds, m) \in Seq(Plain)
    BY VoiceType
  <2>5. v \in Seq(Plain)
    BY <1>5, <2>4
  <2>6. ListOK(t)
    BY <1>6, <2>5
  <2> QED BY <1>3, <2>3, <2>6
<1> QED BY <1>7, <1>8 DEF ItemLists

-----------------------------------------------------------------------------
(* An item by its first argument                                           *)
LEMMA ItemFacts ==
  ASSUME NEW x \in Plain \cup Interps
  PROVE  /\ x \in Seq(ArgSet) /\ Len(x) \in Nat \ {0}
         /\ \A i \in 2..Len(x) : ~IsOption(x[i])
         /\ x[1] \in ArgSet
         /\ IsOption(x[1]) /\ x[1][2] \in Valued /\ x # CutSet => WithValue(x)
         /\ IsOption(x[1]) /\ x[1][2][1] = "i" =>
               x[1] = Option(I) /\ (x # CutInterp => \E n \in Nat : x = Interp(n))
         /\ ~IsOption(x[1]) => Len(x) = 1
         /\ IsOption(x[1]) /\ x[1][2] \in Switches => Len(x) = 1
<1>a. \A k : Option(k)[2] = k /\ IsOption(Option(k))
  BY Arguments
<1>b. \A n : ~IsOption(Word(n))
  BY Arguments
<1>c. /\ \A k \in Valued : k \notin Switches /\ k # I /\ k[1] # "i"
      /\ \A k \in Switches : k # I /\ k[1] # "i" /\ k \notin Valued
      /\ I[1] = "i"
  BY Arguments
<1>d. I \notin Switches /\ I \notin Valued
  BY <1>c
<1>1. CASE \E n \in Nat : x = Interp(n)
  <2>1. PICK n \in Nat : x = Interp(n)
    BY <1>1
  <2>2. x \in Seq(ArgSet) /\ WithRates(x, n)
    BY <2>1, InterpItems
  <2>3. Len(x) = 2 + n /\ x[1] = Option(I) /\ \A i \in 2..Len(x) : \E w \in Nat : x[i] = Word(w)
    BY <2>2 DEF WithRates
  <2>4. 2 + n \in Nat \ {0}
    OBVIOUS
  <2>5. \A i \in 2..Len(x) : ~IsOption(x[i])
    BY <1>b, <2>3
  <2>6. IsOption(x[1]) /\ x[1][2] = I /\ x[1] \in ArgSet
    BY <1>a, <2>3 DEF ArgSet
  <2>7. x[1][2] \notin Valued /\ x[1][2] \notin Switches
    BY <1>d, <2>6
  <2> HIDE DEF Interp
  <2>8. Len(x) \in Nat \ {0}
    BY <2>3, <2>4
  <2> QED BY <1>1, <2>2, <2>3, <2>5, <2>6, <2>7, <2>8
<1>2. CASE x \in Plain
  <2>1. /\ x \in Seq(ArgSet)
        /\ WithValue(x) \/ Alone(x) \/ x \in {CutInterp, CutSet}
        /\ Len(x) \in Nat \ {0}
    BY <1>2, PlainItems
  <2>2. CASE WithValue(x)
    <3>1. PICK k \in Valued, n \in Nat : Len(x) = 2 /\ x[1] = Option(k) /\ x[2] = Word(n)
      BY <2>2 DEF WithValue
    <3>2. x[1][2] = k /\ k[1] # "i" /\ k \notin Switches /\ IsOption(x[1])
      BY <1>a, <1>c, <3>1
    <3>3. x[1] \in ArgSet
      BY <3>1 DEF ArgSet
    <3>4. \A i \in 2..Len(x) : ~IsOption(x[i])
      <4>1. \A i \in 2..2 : i = 2
        OBVIOUS
      <4> QED BY <1>b, <3>1, <4>1
    <3> QED BY <2>1, <2>2, <3>2, <3>3, <3>4
  <2>3. CASE Alone(x)
    <3>1. Len(x) = 1 /\ ((\E k \in Switches : x[1] = Option(k)) \/ x[1] = Word(0))
      BY <2>3 DEF Alone
    <3>2. \A i \in 2..Len(x) : FALSE
      <4>1. \A i \in 2..1 : FALSE
        OBVIOUS
      <4> QED BY <3>1, <4>1
    <3>3. CASE x[1] = Word(0)
      <4>1. ~IsOption(x[1])
        BY <1>b, <3>3
      <4>2. x[1] \in ArgSet
        BY <3>3 DEF ArgSet
      <4> QED BY <2>1, <3>1, <3>2, <4>1, <4>2
    <3>4. CASE \E k \in Switches : x[1] = Option(k)
      <4>1. PICK k \in Switches : x[1] = Option(k)
        BY <3>4
      <4>2. x[1][2] = k /\ k[1] # "i" /\ k \notin Valued /\ x[1] \in ArgSet
        BY <1>a, <1>c, <4>1 DEF ArgSet
      <4> QED BY <2>1, <3>1, <3>2, <4>1, <4>2
    <3> QED BY <3>1, <3>3, <3>4
  <2>4. CASE x = CutInterp
    <3>1. Len(x) = 1 /\ x[1] = Option(I)
      BY <2>4 DEF CutInterp, I
    <3>2. \A i \in 2..Len(x) : FALSE
      <4>1. \A i \in 2..1 : FALSE
        OBVIOUS
      <4> QED BY <3>1, <4>1
    <3>3. IsOption(x[1]) /\ x[1][2] = I /\ x[1] \in ArgSet
      BY <1>a, <3>1 DEF ArgSet
    <3>4. x[1][2] \notin Valued
      BY <1>d, <3>3
    <3> QED BY <2>1, <2>4, <3>1, <3>2, <3>3, <3>4
  <2>5. CASE x = CutSet
    <3> DEFINE S == Setting
    <3>1. Len(x) = 1 /\ x[1] = Option(S) /\ S \in Valued
      BY <2>5 DEF CutSet, Valued
    <3>2. \A i \in 2..Len(x) : FALSE
      <4>1. \A i \in 2..1 : FALSE
        OBVIOUS
      <4> QED BY <3>1, <4>1
    <3> HIDE DEF S
    <3>3. IsOption(x[1]) /\ x[1][2] = S /\ x[1] \in ArgSet
      BY <1>a, <3>1 DEF ArgSet
    <3>4. S[1] # "i"
      BY <1>c, <3>1
    <3> QED BY <2>1, <2>5, <3>1, <3>2, <3>3, <3>4
  <2> QED BY <2>1, <2>2, <2>3, <2>4, <2>5
<1> QED BY <1>1, <1>2 DEF Interps

(* The names of one kind among the items of s: what an item adds           *)
NamePiece(x, kind) == IF x[1] = Option(kind) THEN <<x[2][2]>> ELSE <<>>
NamesIn(s, kind) == FlattenSeq([k \in DOMAIN s |-> NamePiece(s[k], kind)])

(* An item names one file or none.                                         *)
LEMMA NamePieces ==
  ASSUME NEW x \in Plain \cup Interps, NEW kind \in Kinds
  PROVE  /\ NamePiece(x, kind) \in Seq(Nat)
         /\ Len(x) = 1 => NamePiece(x, kind) = <<>>
<1>1. CASE x[1] = Option(kind)
  <2>1. IsOption(x[1]) /\ x[1][2] = kind /\ kind \in Valued /\ kind # Setting
    BY <1>1, Arguments
  <2>2. x # CutSet
    <3>1. CutSet[1] = Option(Setting) /\ Option(Setting)[2] = Setting
      BY DEF CutSet, Option
    <3> QED BY <2>1, <3>1
  <2>3. WithValue(x)
    BY <2>1, <2>2, ItemFacts
  <2>4. PICK n \in Nat : Len(x) = 2 /\ x[2] = Word(n)
    BY <2>3 DEF WithValue
  <2>5. x[2][2] = n
    BY <2>4, Arguments
  <2>6. <<n>> \in Seq(Nat)
    OBVIOUS
  <2> QED BY <1>1, <2>4, <2>5, <2>6 DEF NamePiece
<1>2. CASE x[1] # Option(kind)
  <2>1. NamePiece(x, kind) = <<>> /\ <<>> \in Seq(Nat)
    BY <1>2 DEF NamePiece
  <2> QED BY <2>1
<1> QED BY <1>1, <1>2

(* One more item adds its name.                                            *)
LEMMA NamesNext ==
  ASSUME NEW s \in Seq(Plain \cup Interps), NEW x \in Plain \cup Interps, NEW kind \in Kinds
  PROVE  /\ NamesIn(s, kind) \in Seq(Nat)
         /\ NamesIn(Append(s, x), kind) = NamesIn(s, kind) \o NamePiece(x, kind)
<1> DEFINE X == Plain \cup Interps
           Y == Seq(Nat)
           N == Len(s)
           t == Append(s, x)
           e == NamePiece(x, kind)
           p == [k \in 1..N |-> NamePiece(s[k], kind)]
           q == [k \in 1..(N + 1) |-> NamePiece(t[k], kind)]
<1>0. s \in Seq(X) /\ x \in X /\ \A z \in X : NamePiece(z, kind) \in Y
  BY NamePieces
<1> HIDE DEF X, Y
<1>1. /\ N \in Nat /\ DOMAIN s = 1..N
      /\ t \in Seq(X) /\ Len(t) = N + 1 /\ DOMAIN t = 1..(N + 1)
      /\ (\A k \in 1..N : t[k] = s[k]) /\ t[N + 1] = x
      /\ (\A k \in 1..N : s[k] \in X) /\ (\A k \in 1..(N + 1) : t[k] \in X)
  BY <1>0, AppendProperties, LenProperties, ElementOfSeq
<1> HIDE DEF N, t
<1>2. p \in Seq(Y) /\ q \in Seq(Y) /\ e \in Y /\ N + 1 \in Nat
  <2>1. p \in [1..N -> Y] /\ q \in [1..(N + 1) -> Y]
    BY <1>0, <1>1
  <2> HIDE DEF p, q
  <2> QED BY <1>0, <1>1, <2>1, SeqDef
<1>3. NamesIn(s, kind) = FlattenSeq(p) /\ NamesIn(t, kind) = FlattenSeq(q)
  BY <1>1 DEF NamesIn
<1>4. Len(p) = N /\ Len(q) = N + 1 /\ (\A k \in 1..N : q[k] = p[k]) /\ q[N + 1] = e
  BY <1>1, <1>2, LenProperties
<1> HIDE DEF p, q, e
<1>5. q = Append(p, e)
  <2>1. Append(p, e) \in Seq(Y) /\ Len(Append(p, e)) = Len(p) + 1
        /\ (\A k \in 1..Len(p) : Append(p, e)[k] = p[k]) /\ Append(p, e)[Len(p) + 1] = e
    BY <1>2, AppendProperties
  <2>2. \A k \in 1..(N + 1) : Append(p, e)[k] = q[k]
    <3>1. \A k \in 1..(N + 1) : k \in 1..N \/ k = N + 1
      BY <1>1
    <3> QED BY <1>4, <2>1, <3>1
  <2> QED BY <1>2, <1>4, <2>1, <2>2, SeqEqual
<1>6. FlattenSeq(Append(p, e)) = FlattenSeq(p) \o e /\ FlattenSeq(p) \in Seq(Nat)
  BY <1>2, FlattenAppend, FlattenType DEF Y
<1> QED BY <1>3, <1>5, <1>6 DEF t, e

-----------------------------------------------------------------------------
(* The loops of GetNumInterp and load() and the items: GetNumInterp has    *)
(* passed the option -i or not; load() is always in front of an item, and  *)
(* has the names of the items behind it.                                   *)
ScanOK == /\ argv \in Nat /\ argc \in Nat \ {0} /\ argv + argc = Len(args)
          /\ num_interp = IF \E k \in Is(I) : Offset(items, k - 1) <= argv
                          THEN Asked ELSE 1

AtItem(j) == /\ j \in 0..Len(items)
             /\ argv = Offset(items, j) /\ argc = Len(args) - argv
             /\ num_interp = Asked
             /\ fn = [k \in Kinds |-> NamesIn(SubSeq(items, 1, j), k)]
             /\ HasExtra => j < Len(items)

(* What holds of lists as the usage text asks for them                     *)
ProperInv == /\ pc = "scan" => fn = NoModels /\ ScanOK
             /\ pc \in {"read", "check", "loaded"} =>
                   \E j \in 0..Len(items) : AtItem(j) /\ (pc # "read" => argc = 1)
             /\ pc = "loaded" => NumbersMatch
             /\ pc = "outside" => ~HasExtra \/ Surplus

LoadInv ==
  /\ ListOK(items)
  /\ pc = "start" => argv = 0 /\ fn = NoModels
  /\ pc \in {"load", "scan", "read", "check", "loaded"} => args = FlattenSeq(items)
  /\ pc = "load" => argv = 0 /\ argc = Len(args) /\ fn = NoModels
  /\ Proper => ProperInv

(* What is in front of item j + 1                                          *)
LEMMA ItemAt ==
  ASSUME ListOK(items), args = FlattenSeq(items), NEW j \in Nat, j < Len(items)
  PROVE  /\ items[j + 1] \in Plain \cup Interps /\ Len(items[j + 1]) \in Nat \ {0}
         /\ Offset(items, j) \in Nat /\ Len(args) \in Nat
         /\ Offset(items, j + 1) = Offset(items, j) + Len(items[j + 1])
         /\ Offset(items, j + 1) <= Len(args)
         /\ \A i \in 1..Len(items[j + 1]) : args[Offset(items, j) + i] = items[j + 1][i]
<1> DEFINE X == Plain \cup Interps
<1>1. items \in Seq(X)
  BY DEF ListOK
<1>2. \A x \in X : x \in Seq(ArgSet) /\ Len(x) \in Nat \ {0}
  BY ItemFacts
<1> HIDE DEF X
<1>3. items \in Seq(Seq(ArgSet))
  <2>1. X \subseteq Seq(ArgSet)
    BY <1>2
  <2> QED BY <1>1, <2>1, SeqMonotonic
<1>4. items[j + 1] \in X
  BY <1>1, PrefixNext
<1>5. /\ Offset(items, j) \in Nat
      /\ Offset(items, j + 1) = Offset(items, j) + Len(items[j + 1])
      /\ Offset(items, j + 1) <= Len(args)
      /\ \A i \in 1..Len(items[j + 1]) : args[Offset(items, j) + i] = items[j + 1][i]
  BY <1>3, PieceAt
<1>6. Len(args) \in Nat
  BY <1>3, PieceEnds
<1> QED BY <1>2, <1>4, <1>5, <1>6 DEF X

(* The items from the first to the last argument                           *)
LEMMA ItemEnds ==
  ASSUME ListOK(items), args = FlattenSeq(items)
  PROVE  /\ Offset(items, 0) = 0 /\ Offset(items, Len(items)) = Len(args)
         /\ Len(items) \in Nat /\ Len(args) \in Nat /\ DOMAIN items = 1..Len(items)
         /\ \A a \in 1..Len(args) :
               \E j \in Nat : /\ j < Len(items)
                              /\ a > Offset(items, j) /\ a <= Offset(items, j + 1)
<1> DEFINE X == Plain \cup Interps
<1>1. items \in Seq(X)
  BY DEF ListOK
<1>2. X \subseteq Seq(ArgSet)
  BY ItemFacts
<1> HIDE DEF X
<1>3. items \in Seq(Seq(ArgSet))
  BY <1>1, <1>2, SeqMonotonic
<1>4. Len(items) \in Nat /\ DOMAIN items = 1..Len(items)
  BY <1>3, LenProperties
<1> QED BY <1>3, <1>4, PieceEnds, PieceOf

(* A number of speakers is asked for by one item, or by none.              *)
LEMMA AskedIs ==
  ASSUME ListOK(items), ~Contains(items, CutInterp), NEW k \in Is(I)
  PROVE  /\ k \in 1..Len(items) /\ Is(I) = {k}
         /\ Asked \in Nat /\ WithRates(items[k], Asked)
<1>1. Len(items) \in Nat /\ DOMAIN items = 1..Len(items)
      /\ \A i \in 1..Len(items) : items[i] \in Plain \cup Interps
  BY LenProperties, ElementOfSeq DEF ListOK
<1>2. ASSUME NEW i \in Is(I)
      PROVE  i \in 1..Len(items) /\ items[i] \in Interps /\ \E n \in Nat : items[i] = Interp(n)
  <2>1. i \in 1..Len(items) /\ items[i][1] = Option(I)
    BY <1>1 DEF Is
  <2>2. items[i] # CutInterp
    BY <2>1 DEF Contains
  <2>3. IsOption(items[i][1]) /\ items[i][1][2][1] = "i"
    BY <2>1, Arguments
  <2>4. \E n \in Nat : items[i] = Interp(n)
    BY <1>1, <2>1, <2>2, <2>3, ItemFacts
  <2> QED BY <2>1, <2>4 DEF Interps
<1>3. Is(I) = {k}
  <2>1. \A i \in Is(I) : i = k
    BY <1>2 DEF ListOK
  <2> QED BY <2>1
<1>4. PICK n \in Nat : items[k] = Interp(n)
  BY <1>2
<1>5. WithRates(items[k], n)
  BY <1>4, InterpItems
<1>6. Asked = n
  <2>1. InterpItem = k
    BY <1>3 DEF InterpItem, I
  <2>2. items[k][2] = Word(n) /\ Word(n)[2] = n
    BY <1>5, Arguments DEF WithRates
  <2>3. Is(<<"i", "">>) # {}
    BY DEF I
  <2> QED BY <2>1, <2>2, <2>3 DEF Asked
<1> QED BY <1>2, <1>3, <1>5, <1>6

(* The option -i is where its item starts, and nowhere else.               *)
LEMMA InterpAt ==
  ASSUME ListOK(items), args = FlattenSeq(items), NEW a \in Nat, a < Len(args)
  PROVE  IsInterp(a) <=> \E k \in Is(I) : Offset(items, k - 1) = a
<1>0. /\ Len(items) \in Nat /\ Len(args) \in Nat /\ DOMAIN items = 1..Len(items)
  BY ItemEnds
<1>1. ASSUME NEW k \in Is(I), Offset(items, k - 1) = a PROVE IsInterp(a)
  <2>1. k \in 1..Len(items) /\ items[k][1] = Option(I)
    BY <1>0 DEF Is
  <2>2. k - 1 \in Nat /\ k - 1 < Len(items) /\ (k - 1) + 1 = k
    BY <1>0, <2>1
  <2>3. Len(items[k]) \in Nat \ {0}
        /\ \A i \in 1..Len(items[k]) : args[a + i] = items[k][i]
    BY <1>1, <2>2, ItemAt
  <2>4. args[a + 1] = Option(I)
    BY <2>1, <2>3
  <2> QED BY <2>4, Arguments DEF IsInterp, Arg
<1>2. ASSUME IsInterp(a) PROVE \E k \in Is(I) : Offset(items, k - 1) = a
  <2>1. a + 1 \in 1..Len(args)
    BY <1>0
  <2>2. PICK j \in Nat : j < Len(items) /\ a + 1 > Offset(items, j) /\ a + 1 <= Offset(items, j + 1)
    BY <2>1, ItemEnds
  <2> DEFINE x == items[j + 1]
             o == Offset(items, j)
             i == a + 1 - o
  <2>3. /\ x \in Plain \cup Interps /\ Len(x) \in Nat \ {0} /\ o \in Nat
        /\ Offset(items, j + 1) = o + Len(x)
        /\ \A n \in 1..Len(x) : args[o + n] = x[n]
    BY <2>2, ItemAt
  <2> HIDE DEF x, o
  <2>4. i \in 1..Len(x) /\ o + i = a + 1
    BY <2>2, <2>3 DEF o
  <2>5. args[a + 1] = x[i]
    BY <2>3, <2>4
  <2>6. IsOption(x[i]) /\ x[i][2][1] = "i"
    BY <1>2, <2>5 DEF IsInterp, Arg
  <2> HIDE DEF i
  <2>7. i = 1
    <3>1. \A n \in 2..Len(x) : ~IsOption(x[n])
      BY <2>3, ItemFacts
    <3> QED BY <2>3, <2>4, <2>6, <3>1
  <2>8. x[1] = Option(I)
    BY <2>3, <2>6, <2>7, ItemFacts
  <2>9. j + 1 \in Is(I)
    BY <1>0, <2>2, <2>8 DEF Is, x
  <2>10. Offset(items, (j + 1) - 1) = a
    <3>1. (j + 1) - 1 = j /\ o = a
      BY <2>2, <2>3, <2>4, <2>7
    <3> QED BY <3>1 DEF o
  <2> QED BY <2>9, <2>10
<1> QED BY <1>1, <1>2

-----------------------------------------------------------------------------
(* What the author asked for depends on the list alone.                    *)
LEMMA SameList ==
  ASSUME items' = items
  PROVE  /\ Is(I)' = Is(I) /\ Asked' = Asked /\ HasExtra' = HasExtra
         /\ (\A k \in Kinds : Named(k)' = Named(k)) /\ Surplus' = Surplus
         /\ args' = args => Proper' = Proper
<1>1. \A kind : Is(kind)' = Is(kind)
  BY DEF Is
<1>2. Is(<<"i", "">>)' = Is(<<"i", "">>)
  BY <1>1
<1>3. InterpItem' = InterpItem
  BY <1>2 DEF InterpItem
<1>4. Asked' = Asked
  BY <1>2, <1>3 DEF Asked
<1>5. HasExtra' = HasExtra
  BY DEF HasExtra
<1>6. \A k : Named(k)' = Named(k)
  BY DEF Named
<1>7. Surplus' = Surplus
  BY <1>4, <1>6 DEF Surplus
<1>8. ASSUME args' = args PROVE Proper' = Proper
  BY <1>2, <1>4, <1>8 DEF Proper
<1>9. Is(I)' = Is(I)
  BY <1>2 DEF I
<1> QED BY <1>4, <1>5, <1>6, <1>7, <1>8, <1>9

(* The item in front of the loop of load(): its arguments and its end      *)
LEMMA InFront ==
  ASSUME ListOK(items), args = FlattenSeq(items), NEW j, AtItem(j), Inside(argv)
  PROVE  /\ j \in Nat /\ j < Len(items) /\ argv \in Nat /\ argc \in Nat
         /\ argc = Len(args) - argv
         /\ items[j + 1] \in Plain \cup Interps
         /\ Arg(argv) = items[j + 1][1]
         /\ Len(items[j + 1]) >= 2 => Arg(argv + 1) = items[j + 1][2]
         /\ Len(items[j + 1]) \in Nat \ {0} /\ Len(args) \in Nat
         /\ argv + Len(items[j + 1]) <= Len(args)
<1> DEFINE x == items[j + 1]
           N == Len(items)
           L == Len(args)
           o == Offset(items, j)
           n == Len(x)
<1>1. N \in Nat /\ L \in Nat /\ Offset(items, N) = L
  BY ItemEnds
<1>2. j \in 0..N /\ argv = o /\ argc = L - argv /\ argv < L
  BY DEF AtItem, Inside
<1> HIDE DEF N, L
<1>3. j \in Nat /\ j < N
  <2>1. j # N
    BY <1>1, <1>2
  <2> QED BY <1>1, <1>2, <2>1
<1>4. /\ x \in Plain \cup Interps /\ n \in Nat \ {0} /\ o \in Nat
      /\ Offset(items, j + 1) = o + n /\ Offset(items, j + 1) <= L
      /\ \A i \in 1..n : args[o + i] = x[i]
  BY <1>3, ItemAt DEF N, L
<1> HIDE DEF x, n, o
<1>5. args[o + 1] = x[1]
  <2>1. 1 \in 1..n
    BY <1>4
  <2> QED BY <1>4, <2>1
<1>6. n >= 2 => args[o + 1 + 1] = x[2]
  <2>1. n >= 2 => 2 \in 1..n
    BY <1>4
  <2>2. o + 1 + 1 = o + 2
    BY <1>4
  <2> QED BY <1>4, <2>1, <2>2
<1>7. argc \in Nat /\ argv + n <= L
  BY <1>1, <1>2, <1>4
<1> QED BY <1>1, <1>2, <1>3, <1>4, <1>5, <1>6, <1>7 DEF Arg, x, n, N, L

(* A step over one item leads in front of the next one.                    *)
LEMMA NextItem ==
  ASSUME ListOK(items), args = FlattenSeq(items), NEW j, AtItem(j), Inside(argv),
         argc # 1, UNCHANGED <<items, args, num_interp>>,
         Advance(Len(items[j + 1])),
         fn' = [k \in Kinds |-> fn[k] \o NamePiece(items[j + 1], k)]
  PROVE  j + 1 \in 0..Len(items) /\ AtItem(j + 1)'
<1> DEFINE x == items[j + 1]
           N == Len(items)
           L == Len(args)
           n == Len(x)
<1>1. /\ j \in Nat /\ j < N /\ argv \in Nat /\ argc = L - argv
      /\ n \in Nat \ {0} /\ L \in Nat /\ argv + n <= L /\ x \in Plain \cup Interps
  BY InFront
<1>2. N \in Nat /\ Offset(items, N) = L
  BY ItemEnds
<1>3. Offset(items, j + 1) = argv + n
  <2>1. Offset(items, j + 1) = Offset(items, j) + n
    BY <1>1, ItemAt
  <2> QED BY <2>1 DEF AtItem
<1>4. argv' = argv + n /\ argc' = argc - n
  BY DEF Advance
<1>5. j + 1 \in 0..N
  BY <1>1, <1>2
<1>6. items' = items /\ args' = args /\ num_interp' = num_interp
  OBVIOUS
<1>7. num_interp' = Asked'
  BY <1>6, SameList DEF AtItem
<1>8. fn' = [k \in Kinds |-> NamesIn(SubSeq(items, 1, j + 1), k)]
  <2> DEFINE s == SubSeq(items, 1, j)
             X == Plain \cup Interps
  <2>1. items \in Seq(X)
    BY DEF ListOK
  <2>2. s \in Seq(X) /\ SubSeq(items, 1, j + 1) = Append(s, x)
    BY <1>1, <2>1, PrefixNext
  <2>3. fn = [k \in Kinds |-> NamesIn(s, k)]
    BY DEF AtItem
  <2>4. \A k \in Kinds : NamesIn(Append(s, x), k) = NamesIn(s, k) \o NamePiece(x, k)
    BY <1>1, <2>2, NamesNext
  <2> HIDE DEF s, X, x
  <2>5. \A k \in Kinds : fn[k] = NamesIn(s, k)
    BY <2>3
  <2>6. fn' = [k \in Kinds |-> fn[k] \o NamePiece(x, k)]
    BY DEF x
  <2> QED BY <2>2, <2>4, <2>5, <2>6
<1>9. HasExtra => j + 1 < N
  <2> SUFFICES ASSUME HasExtra, ~(j + 1 < N) PROVE FALSE
    OBVIOUS
  <2>1. j + 1 = N
    BY <1>1, <1>2
  <2>2. x = LabelFile
    BY <2>1 DEF HasExtra, Last
  <2>3. n = 1
    BY <2>2, OneElement DEF LabelFile
  <2>4. argv + 1 = L
    BY <1>2, <1>3, <2>1, <2>3
  <2> HIDE DEF L
  <2> QED BY <1>1, <2>4
<1>10. argc' = L - argv'
  <2> HIDE DEF L, n
  <2> QED BY <1>1, <1>4
<1>11. HasExtra' = HasExtra
  BY <1>6, SameList
<1>12. argv' = Offset(items', j + 1)
  BY <1>3, <1>4, <1>6
<1>13. fn' = [k \in Kinds |-> NamesIn(SubSeq(items', 1, j + 1), k)]
  BY <1>6, <1>8
<1>14. j + 1 \in 0..Len(items') /\ argc' = Len(args') - argv' /\ (HasExtra' => j + 1 < Len(items'))
  BY <1>5, <1>6, <1>9, <1>10, <1>11
<1> QED BY <1>5, <1>7, <1>12, <1>13, <1>14 DEF AtItem

(* A list names at least the files its first items name.                   *)
LEMMA NamesGrow ==
  ASSUME NEW s \in Seq(Plain \cup Interps), NEW j \in 0..Len(s), NEW kind \in Kinds
  PROVE  /\ NamesIn(SubSeq(s, 1, j), kind) \in Seq(Nat) /\ NamesIn(s, kind) \in Seq(Nat)
         /\ Len(NamesIn(SubSeq(s, 1, j), kind)) <= Len(NamesIn(s, kind))
<1> DEFINE X == Plain \cup Interps
           Y == Seq(Nat)
           N == Len(s)
           p == [k \in 1..N |-> NamePiece(s[k], kind)]
           u == SubSeq(s, 1, j)
           q == [k \in 1..j |-> NamePiece(u[k], kind)]
<1>0. s \in Seq(X) /\ \A z \in X : NamePiece(z, kind) \in Y
  BY NamePieces
<1>a. \A t \in Seq(X) : NamesIn(t, kind) \in Seq(Nat)
  <2>1. LabelFile \in X
    BY DEF Plain
  <2> QED BY <2>1, NamesNext
<1> HIDE DEF X, Y
<1>1. N \in Nat /\ DOMAIN s = 1..N /\ \A k \in 1..N : s[k] \in X
  BY <1>0, LenProperties, ElementOfSeq
<1> HIDE DEF N
<1>2. j \in Nat /\ j <= N /\ \A k \in 1..j : k \in 1..N
  BY <1>1 DEF N
<1>3. u \in Seq(X) /\ Len(u) = j /\ DOMAIN u = 1..j /\ \A k \in 1..j : u[k] = s[k]
  <2>1. /\ 1 \in Int /\ j \in Int
        /\ \A k \in 1..j : s[k] \in X
    BY <1>1, <1>2
  <2>2. /\ u \in Seq(X) /\ Len(u) = IF 1 <= j THEN j - 1 + 1 ELSE 0
        /\ \A k \in 1..(j - 1 + 1) : u[k] = s[1 + k - 1]
    BY <2>1, SubSeqProperties
  <2> HIDE DEF u
  <2>3. Len(u) = j
    BY <1>2, <2>2
  <2>4. \A k \in 1..j : k \in 1..(j - 1 + 1) /\ 1 + k - 1 = k
    BY <1>2
  <2> QED BY <2>2, <2>3, <2>4, LenProperties
<1> HIDE DEF u
<1>4. p \in Seq(Y) /\ Len(p) = N /\ \A k \in 1..N : p[k] = NamePiece(s[k], kind)
  <2>1. p \in [1..N -> Y]
    BY <1>0, <1>1
  <2> QED BY <1>1, <2>1, SeqDef, LenProperties
<1>5. q \in Seq(Y) /\ Len(q) = j /\ \A k \in 1..j : q[k] = NamePiece(u[k], kind)
  <2>1. q \in [1..j -> Y]
    BY <1>0, <1>1, <1>2, <1>3
  <2> QED BY <1>2, <2>1, SeqDef, LenProperties
<1>6. NamesIn(s, kind) = FlattenSeq(p) /\ NamesIn(u, kind) = FlattenSeq(q)
  BY <1>1, <1>3 DEF NamesIn
<1> HIDE DEF p, q
<1>7. SubSeq(p, 1, j) = q
  <2> DEFINE v == SubSeq(p, 1, j)
  <2>1. /\ 1 \in Int /\ j \in Int
        /\ \A k \in 1..j : p[k] \in Y
    BY <1>2, <1>4, ElementOfSeq
  <2>2. /\ v \in Seq(Y) /\ Len(v) = IF 1 <= j THEN j - 1 + 1 ELSE 0
        /\ \A k \in 1..(j - 1 + 1) : v[k] = p[1 + k - 1]
    BY <2>1, SubSeqProperties
  <2> HIDE DEF v
  <2>3. Len(v) = j
    BY <1>2, <2>2
  <2>4. \A k \in 1..j : k \in 1..(j - 1 + 1) /\ 1 + k - 1 = k
    BY <1>2
  <2>5. \A k \in 1..j : v[k] = q[k]
    BY <1>2, <1>3, <1>4, <1>5, <2>2, <2>4
  <2>6. v = q
    BY <1>5, <2>2, <2>3, <2>5, SeqEqual
  <2> QED BY <2>6 DEF v
<1>8. Offset(p, j) <= Len(FlattenSeq(p))
  <2>1. j \in 0..Len(p)
    BY <1>1, <1>2, <1>4
  <2> QED BY <1>4, <2>1, PieceEnds DEF Y
<1> QED BY <1>0, <1>3, <1>6, <1>7, <1>8, <1>a DEF Offset, u

(* An item that names no file is passed without a trace.                   *)
LEMMA SkipItem ==
  ASSUME ListOK(items), args = FlattenSeq(items), NEW j, AtItem(j), Inside(argv),
         argc # 1, UNCHANGED <<items, args, num_interp, fn>>,
         Advance(Len(items[j + 1])),
         \A k \in Kinds : items[j + 1][1] # Option(k)
  PROVE  j + 1 \in 0..Len(items) /\ AtItem(j + 1)'
<1>1. \A k \in Kinds : NamePiece(items[j + 1], k) = <<>>
  BY DEF NamePiece
<1>2. \A k \in Kinds : fn[k] \in Seq(Nat)
  <2>1. items \in Seq(Plain \cup Interps) /\ j \in 0..Len(items)
    BY DEF ListOK, AtItem
  <2>2. fn = [k \in Kinds |-> NamesIn(SubSeq(items, 1, j), k)]
    BY DEF AtItem
  <2>3. \A k \in Kinds : NamesIn(SubSeq(items, 1, j), k) \in Seq(Nat)
    BY <2>1, NamesGrow
  <2> QED BY <2>2, <2>3
<1>3. \A k \in Kinds : fn[k] \o NamePiece(items[j + 1], k) = fn[k]
  BY <1>1, <1>2, ConcatEmptySeq
<1>4. fn = [k \in Kinds |-> fn[k]]
  BY DEF AtItem
<1>5. fn' = [k \in Kinds |-> fn[k] \o NamePiece(items[j + 1], k)]
  <2>1. fn' = fn
    OBVIOUS
  <2> QED BY <1>3, <1>4, <2>1
<1> QED BY <1>5, NextItem

(* The options without a file name and the words                           *)
LEMMA ReadOthers ==
  ASSUME ListOK(items), args = FlattenSeq(items), Proper, NEW j, AtItem(j),
         ReadValue \/ ReadInterp \/ ReadFlag \/ ReadWord
  PROVE  j + 1 \in 0..Len(items) /\ AtItem(j + 1)'
<1> DEFINE x == items[j + 1]
<1>1. /\ Inside(argv) /\ argc # 1 /\ UNCHANGED <<items, args, num_interp, fn>>
  BY DEF ReadValue, ReadInterp, ReadFlag, ReadWord, Looking
<1>2. /\ j \in Nat /\ j < Len(items) /\ x \in Plain \cup Interps /\ Arg(argv) = x[1]
  BY <1>1, InFront
<1>3. Len(items) \in Nat /\ DOMAIN items = 1..Len(items)
  BY ItemEnds
<1>4. j + 1 \in DOMAIN items
  BY <1>2, <1>3
<1>5. x # CutInterp /\ x # CutSet
  <2>1. ~Contains(items, CutInterp) /\ ~Contains(items, CutSet)
    BY DEF Proper
  <2> QED BY <1>3, <1>4, <2>1 DEF Contains
<1> HIDE DEF x
<1>a. /\ \A k \in Kinds : Option(k)[2] = k /\ k \notin {Window, Setting}
      /\ \A k \in Kinds : k # I /\ k \notin Switches
  <2>1. \A k : Option(k)[2] = k
    BY Arguments
  <2>2. \A k \in Kinds : k \notin {Window, Setting} /\ k \in Valued
    BY Arguments
  <2>3. \A k \in Valued : k # I /\ k \notin Switches
    BY Arguments
  <2> QED BY <2>1, <2>2, <2>3
<1>6. CASE ReadValue
  <2>1. IsOption(x[1]) /\ x[1][2] \in {Window, Setting} /\ Advance(2)
    BY <1>2, <1>6 DEF ReadValue, Looking
  <2>2. x[1][2] \in Valued
    BY <2>1 DEF Valued
  <2>3. Len(x) = 2
    BY <1>2, <1>5, <2>1, <2>2, ItemFacts DEF WithValue
  <2>4. \A k \in Kinds : x[1] # Option(k)
    BY <1>a, <2>1
  <2>5. Advance(Len(x))
    BY <2>1, <2>3
  <2> QED BY <1>1, <2>4, <2>5, SkipItem DEF x
<1>7. CASE ReadInterp
  <2>1. IsOption(x[1]) /\ x[1][2] = I /\ Advance(2 + num_interp)
    BY <1>2, <1>7 DEF ReadInterp, Looking, I
  <2>2. x[1] = Option(I)
    <3>1. x[1][2][1] = "i"
      BY <2>1, Arguments
    <3> QED BY <1>2, <2>1, <3>1, ItemFacts
  <2>3. j + 1 \in Is(I)
    BY <1>4, <2>2 DEF Is, x
  <2>4. WithRates(x, Asked)
    BY <2>3, AskedIs DEF Proper, x
  <2>5. Len(x) = 2 + num_interp
    BY <2>4 DEF WithRates, AtItem
  <2>6. \A k \in Kinds : x[1] # Option(k)
    BY <1>a, <2>1
  <2>7. Advance(Len(x))
    BY <2>1, <2>5
  <2> QED BY <1>1, <2>6, <2>7, SkipItem DEF x
<1>8. CASE ReadFlag
  <2>1. IsOption(x[1]) /\ x[1][2] = <<"flag", "">> /\ Advance(1)
    BY <1>2, <1>8 DEF ReadFlag, Looking
  <2>2. x[1][2] \in Switches
    BY <2>1 DEF Switches
  <2>3. Len(x) = 1
    BY <1>2, <2>1, <2>2, ItemFacts
  <2>4. \A k \in Kinds : x[1] # Option(k)
    BY <1>a, <2>2
  <2>5. Advance(Len(x))
    BY <2>1, <2>3
  <2> QED BY <1>1, <2>4, <2>5, SkipItem DEF x
<1>9. CASE ReadWord
  <2>1. ~IsOption(x[1]) /\ Advance(1)
    BY <1>2, <1>9 DEF ReadWord
  <2>2. Len(x) = 1
    BY <1>2, <2>1, ItemFacts
  <2>3. \A k \in Kinds : x[1] # Option(k)
    BY <2>1, Arguments
  <2>4. Advance(Len(x))
    BY <2>1, <2>2
  <2> QED BY <1>1, <2>3, <2>4, SkipItem DEF x
<1> QED BY <1>6, <1>7, <1>8, <1>9

(* An option with a file name; a surplus one is behind the array.          *)
LEMMA ReadFile ==
  ASSUME ListOK(items), args = FlattenSeq(items), NEW j, AtItem(j), ReadModel, Asked \in Nat
  PROVE  /\ j + 1 \in 0..Len(items) /\ AtItem(j + 1)'
         /\ pc' # pc => Surplus
<1> DEFINE x == items[j + 1]
           kind == Arg(argv)[2]
<1>1. /\ Inside(argv) /\ argc # 1 /\ UNCHANGED <<items, args, num_interp>>
      /\ Advance(2) /\ kind \in Kinds /\ IsOption(Arg(argv))
      /\ fn' = [fn EXCEPT ![kind] = Append(@, Arg(argv + 1)[2])]
      /\ pc' # pc => Len(fn[kind]) >= num_interp
  BY DEF ReadModel, Looking
<1>2. /\ j \in Nat /\ j < Len(items) /\ x \in Plain \cup Interps /\ Arg(argv) = x[1]
      /\ Len(x) >= 2 => Arg(argv + 1) = x[2]
  BY <1>1, InFront
<1> HIDE DEF x, kind
<1>3. IsOption(x[1]) /\ x[1][2] = kind /\ kind \in Valued /\ kind # Setting
  BY <1>1, <1>2, Arguments DEF kind
<1>4. WithValue(x)
  <2>1. CutSet[1] = Option(Setting) /\ Option(Setting)[2] = Setting
    BY DEF CutSet, Option
  <2> QED BY <1>2, <1>3, <2>1, ItemFacts
<1>5. PICK v \in Valued, n \in Nat : Len(x) = 2 /\ x[1] = Option(v) /\ x[2] = Word(n)
  BY <1>4 DEF WithValue
<1>6. v = kind /\ x[2][2] = n
  BY <1>3, <1>5, Arguments
<1>7. Arg(argv + 1) = x[2] /\ Advance(Len(x))
  <2>1. Len(x) >= 2
    BY <1>5
  <2> QED BY <1>1, <1>2, <1>5, <2>1
<1>8. \A k \in Kinds : NamePiece(x, k) = IF k = kind THEN <<n>> ELSE <<>>
  <2>1. \A k \in Kinds : (x[1] = Option(k)) <=> (k = kind)
    <3>1. Option(kind)[2] = kind /\ \A k : Option(k)[2] = k
      BY Arguments
    <3> QED BY <1>5, <1>6, <3>1
  <2> QED BY <1>6, <2>1 DEF NamePiece
<1>9. items \in Seq(Plain \cup Interps) /\ j \in 0..Len(items)
  BY DEF ListOK, AtItem
<1>10. fn = [k \in Kinds |-> NamesIn(SubSeq(items, 1, j), k)]
  BY DEF AtItem
<1>11. \A k \in Kinds : fn[k] \in Seq(Nat)
  BY <1>9, <1>10, NamesGrow
<1>12. fn' = [k \in Kinds |-> fn[k] \o NamePiece(x, k)]
  <2>1. \A k \in Kinds : fn[k] \o <<>> = fn[k] /\ Append(fn[k], n) = fn[k] \o <<n>>
    BY <1>11, ConcatEmptySeq, AppendIsConcat
  <2>2. fn' = [fn EXCEPT ![kind] = Append(@, n)]
    BY <1>1, <1>6, <1>7
  <2>3. fn' = [k \in Kinds |-> IF k = kind THEN Append(fn[k], n) ELSE fn[k]]
    BY <1>10, <2>2
  <2> QED BY <1>8, <2>1, <2>3
<1>13. j + 1 \in 0..Len(items) /\ AtItem(j + 1)'
  BY <1>1, <1>7, <1>12, NextItem DEF x
<1>14. ASSUME pc' # pc PROVE Surplus
  <2> DEFINE a == NamesIn(SubSeq(items, 1, j), kind)
             b == NamesIn(SubSeq(items, 1, j + 1), kind)
  <2>1. Len(a) >= Asked
    BY <1>1, <1>10, <1>14 DEF AtItem
  <2>2. b = a \o <<n>> /\ a \in Seq(Nat)
    <3>1. SubSeq(items, 1, j) \in Seq(Plain \cup Interps)
          /\ SubSeq(items, 1, j + 1) = Append(SubSeq(items, 1, j), x)
      BY <1>2, <1>9, PrefixNext DEF x
    <3> QED BY <1>1, <1>2, <1>8, <3>1, NamesNext
  <2>3. Len(b) <= Len(NamesIn(items, kind)) /\ NamesIn(items, kind) \in Seq(Nat)
    BY <1>1, <1>9, <1>13, NamesGrow
  <2>4. NamesIn(items, kind) = Named(kind)
    BY DEF NamesIn, Named, NamePiece
  <2> HIDE DEF a, b
  <2>5. Len(b) = Len(a) + 1 /\ Len(a) \in Nat
    <3>1. Append(a, n) = b
      BY <2>2, AppendIsConcat
    <3> QED BY <2>2, <3>1, AppendProperties, LenProperties
  <2>6. Len(Named(kind)) \in Nat
    BY <2>3, <2>4, LenProperties
  <2> DEFINE L == Len(Named(kind))
  <2>7. Len(b) <= L /\ L \in Nat
    BY <2>3, <2>4, <2>6
  <2> HIDE DEF L
  <2>8. L > Asked
    BY <2>1, <2>5, <2>7
  <2> QED BY <1>1, <2>8 DEF L, Surplus
<1> QED BY <1>13, <1>14

(* Behind the arguments: only without the extra one at the end             *)
LEMMA ReadBehind ==
  ASSUME ListOK(items), args = FlattenSeq(items), Proper, NEW j, AtItem(j), ReadOutside
  PROVE  ~HasExtra
<1> SUFFICES ASSUME HasExtra PROVE FALSE
  OBVIOUS
<1> DEFINE x == items[j + 1]
           n == Len(x)
           L == Len(args)
           w == Wants(Arg(argv))
<1>0. j \in 0..Len(items) /\ j < Len(items) /\ argv = Offset(items, j) /\ num_interp = Asked
  BY DEF AtItem
<1>1. Len(items) \in Nat /\ DOMAIN items = 1..Len(items)
  BY ItemEnds
<1>2. j \in Nat /\ j + 1 \in DOMAIN items
  BY <1>0, <1>1
<1>3. /\ n \in Nat \ {0} /\ L \in Nat /\ Offset(items, j) \in Nat
      /\ Offset(items, j + 1) = Offset(items, j) + n /\ Offset(items, j + 1) <= L
  BY <1>0, <1>2, ItemAt
<1>4. argv < L
  <2> HIDE DEF n, L
  <2> QED BY <1>0, <1>3
<1>5. /\ x \in Plain \cup Interps /\ Arg(argv) = x[1] /\ argv + n <= L /\ argv \in Nat
  BY <1>4, InFront DEF Inside
<1>6. x # CutInterp /\ x # CutSet
  <2>1. ~Contains(items, CutInterp) /\ ~Contains(items, CutSet)
    BY DEF Proper
  <2> QED BY <1>1, <1>2, <2>1 DEF Contains
<1> HIDE DEF x
<1>7. w = n - 1 \/ w = 0
  <2>1. CASE ~IsOption(x[1])
    BY <1>5, <2>1 DEF Wants
  <2>2. CASE IsOption(x[1]) /\ x[1][2] = <<"i", "">>
    <3>1. x[1] = Option(I)
      BY <1>5, <2>2, ItemFacts, Arguments DEF I
    <3>2. j + 1 \in Is(I)
      BY <1>2, <3>1 DEF Is, x
    <3>3. WithRates(x, Asked) /\ Asked \in Nat
      BY <3>2, AskedIs DEF Proper, x
    <3>4. n = 2 + Asked
      BY <3>3 DEF WithRates
    <3>5. w = 1 + num_interp
      BY <1>5, <2>2 DEF Wants
    <3> HIDE DEF n, w
    <3>6. w = n - 1
      BY <1>0, <3>3, <3>4, <3>5
    <3> QED BY <3>6
  <2>3. CASE IsOption(x[1]) /\ x[1][2] # <<"i", "">> /\ x[1][2] \in Valued
    <3>1. n = 2
      BY <1>5, <1>6, <2>3, ItemFacts DEF WithValue
    <3>2. w = 1
      BY <1>5, <2>3 DEF Wants, Valued
    <3> HIDE DEF n, w
    <3> QED BY <3>1, <3>2
  <2>4. CASE IsOption(x[1]) /\ x[1][2] # <<"i", "">> /\ x[1][2] \notin Valued
    <3>1. w = 0
      BY <1>5, <2>4 DEF Wants, Valued
    <3> QED BY <3>1
  <2> QED BY <2>1, <2>2, <2>3, <2>4
<1>8. ~(argv < L /\ argv + w < L)
  BY DEF ReadOutside, Inside
<1> HIDE DEF n, w, L
<1> QED BY <1>3, <1>4, <1>5, <1>7, <1>8

(* GetNumInterp at the start of a list                                     *)
LEMMA ScanStarts ==
  ASSUME ListOK(items), args = FlattenSeq(items), Proper, argv = 0, argc = Len(args), StartScan
  PROVE  ScanOK'
<1> DEFINE L == Len(args)
           N == Len(items)
<1>1. /\ N \in Nat /\ L \in Nat /\ DOMAIN items = 1..N /\ Offset(items, 0) = 0
  BY ItemEnds
<1>2. N > 0
  <2>1. items # <<>> /\ items \in Seq(Plain \cup Interps)
    BY DEF Proper, ListOK
  <2>2. N # 0
    BY <2>1, EmptySeq
  <2> HIDE DEF N
  <2> QED BY <1>1, <2>2
<1>3. L > 0
  <2>1. /\ Len(items[0 + 1]) \in Nat \ {0} /\ Offset(items, 0 + 1) = Offset(items, 0) + Len(items[0 + 1])
        /\ Offset(items, 0 + 1) <= L
    <3>1. 0 \in Nat
      OBVIOUS
    <3> QED BY <1>2, <3>1, ItemAt
  <2> HIDE DEF L
  <2> QED BY <1>1, <2>1
<1>4. ASSUME NEW k \in Is(I) PROVE ~(Offset(items, k - 1) <= 0)
  <2>1. k \in 1..N /\ k # 1
    BY <1>1 DEF Is, Proper, I
  <2> DEFINE j == k - 2
  <2>2. j \in Nat /\ j < N /\ j + 1 = k - 1
    <3> HIDE DEF N
    <3> QED BY <1>1, <2>1
  <2> HIDE DEF j
  <2>3. /\ Len(items[j + 1]) \in Nat \ {0} /\ Offset(items, j) \in Nat
        /\ Offset(items, j + 1) = Offset(items, j) + Len(items[j + 1])
    BY <2>2, ItemAt
  <2>4. Offset(items, j + 1) > 0
    BY <2>3
  <2>5. Offset(items, k - 1) > 0 /\ Offset(items, k - 1) \in Nat
    BY <2>2, <2>3, <2>4
  <2> QED BY <2>5
<1>5. items' = items /\ args' = args /\ argv' = argv /\ argc' = argc /\ num_interp' = 1
  BY DEF StartScan
<1>6. Is(I)' = Is(I)
  BY <1>5, SameList
<1>7. argv' \in Nat /\ argc' \in Nat \ {0} /\ argv' + argc' = Len(args')
  <2> HIDE DEF L
  <2>1. argc = L
    BY DEF L
  <2>2. argv' \in Nat /\ argc' \in Nat \ {0} /\ argv' + argc' = L
    BY <1>1, <1>3, <1>5, <2>1
  <2> QED BY <1>5, <2>2 DEF L
<1>8. ~\E k \in Is(I)' : Offset(items', k - 1) <= argv'
  BY <1>4, <1>5, <1>6
<1> QED BY <1>5, <1>7, <1>8 DEF ScanOK

(* From one argument to the next, past the numbers of an interpolation     *)
LEMMA ScanGoesOn ==
  ASSUME ListOK(items), args = FlattenSeq(items), Proper, ScanOK, Scan
  PROVE  ScanOK' /\ pc' = pc /\ fn' = fn /\ items' = items /\ args' = args
<1> DEFINE L == Len(args)
           N == Len(items)
           a == argv + 1
<1>1. N \in Nat /\ L \in Nat /\ DOMAIN items = 1..N
  BY ItemEnds
<1>2. /\ argv \in Nat /\ argc \in Nat \ {0} /\ argv + argc = L /\ argc # 1
  BY DEF ScanOK, Scan
<1>3. a \in Nat /\ a < L /\ argc >= 2
  <2> HIDE DEF L
  <2> QED BY <1>1, <1>2
<1>4. ASSUME NEW k \in Is(I)
      PROVE  k \in 1..N /\ Offset(items, k - 1) \in Nat
  <2>1. k \in 1..N
    BY <1>1 DEF Is
  <2>2. k - 1 \in Nat /\ k - 1 < N
    <3> HIDE DEF N
    <3> QED BY <1>1, <2>1
  <2> QED BY <2>1, <2>2, ItemAt
<1> HIDE DEF L, N
<1>5. CASE IsInterp(a)
  <2>1. PICK k \in Is(I) : Offset(items, k - 1) = a
    BY <1>3, <1>5, InterpAt DEF L
  <2>2. k \in 1..N /\ Asked \in Nat /\ WithRates(items[k], Asked)
    BY <2>1, AskedIs DEF Proper, N
  <2>3. k - 1 \in Nat /\ k - 1 < N /\ (k - 1) + 1 = k
    BY <1>1, <2>2
  <2>4. Len(items[k]) = 2 + Asked /\ items[k][2] = Word(Asked)
    BY <2>2 DEF WithRates
  <2>5. /\ Offset(items, k) = a + Len(items[k]) /\ Offset(items, k) <= L
        /\ \A i \in 1..Len(items[k]) : args[a + i] = items[k][i]
    BY <2>1, <2>3, ItemAt DEF N, L
  <2>6. 2 \in 1..Len(items[k]) /\ argv + 2 < L
    BY <1>1, <1>2, <2>2, <2>4, <2>5
  <2>7. argv + 2 + 1 = a + 2
    BY <1>2
  <2>8. Arg(argv + 2) = Word(Asked)
    BY <2>4, <2>5, <2>6, <2>7 DEF Arg
  <2>9. Max({1, Atoi(Arg(argv + 2))}) = Asked
    <3>1. Atoi(Arg(argv + 2)) = Asked
      BY <2>8, Arguments
    <3>2. Asked >= 1
      BY DEF Proper
    <3>3. Max({1, Asked}) = Asked
      BY <2>2, <3>2, MaxOfTwo
    <3> QED BY <3>1, <3>3
  <2>10. /\ num_interp' = Asked /\ argv' = argv + 2 /\ argc' = argc - 2
         /\ UNCHANGED <<items, args, pc, fn>>
    BY <1>5, <2>6, <2>9 DEF Scan, Inside, L
  <2>11. argv' \in Nat /\ argc' \in Nat \ {0} /\ argv' + argc' = L
    BY <1>1, <1>2, <2>6, <2>10
  <2>12. Offset(items, k - 1) <= argv'
    BY <1>2, <2>1, <2>10
  <2>13. Is(I)' = Is(I) /\ Asked' = Asked /\ items' = items /\ args' = args
    BY <2>10, SameList
  <2>14. \E m \in Is(I)' : Offset(items', m - 1) <= argv'
    BY <2>1, <2>12, <2>13
  <2>15. argv' + argc' = Len(args')
    BY <2>11, <2>13 DEF L
  <2> QED BY <2>10, <2>11, <2>13, <2>14, <2>15 DEF ScanOK
<1>6. CASE ~IsInterp(a)
  <2>1. \A k \in Is(I) : Offset(items, k - 1) # a
    BY <1>3, <1>6, InterpAt DEF L
  <2>2. argv' = argv + 1 /\ argc' = argc - 1 /\ UNCHANGED <<items, args, pc, num_interp, fn>>
    BY <1>6 DEF Scan
  <2>3. argv' \in Nat /\ argc' \in Nat \ {0} /\ argv' + argc' = L
    BY <1>2, <1>3, <2>2
  <2>4. \A k \in Is(I) : (Offset(items, k - 1) <= argv') <=> (Offset(items, k - 1) <= argv)
    BY <1>2, <1>4, <2>1, <2>2
  <2>5. Is(I)' = Is(I) /\ Asked' = Asked /\ items' = items /\ args' = args
    BY <2>2, SameList
  <2>6. (\E m \in Is(I)' : Offset(items', m - 1) <= argv')
        <=> (\E m \in Is(I) : Offset(items, m - 1) <= argv)
    BY <2>4, <2>5
  <2>7. argv' + argc' = Len(args')
    BY <2>3, <2>5 DEF L
  <2>8. num_interp' = num_interp
    BY <2>2
  <2>9. num_interp' = IF \E m \in Is(I)' : Offset(items', m - 1) <= argv' THEN Asked' ELSE 1
    BY <2>5, <2>6, <2>8 DEF ScanOK
  <2> QED BY <2>2, <2>3, <2>7, <2>9 DEF ScanOK
<1> QED BY <1>5, <1>6

(* At the end the number asked for is known.                               *)
LEMMA ScanEnds ==
  ASSUME ListOK(items), args = FlattenSeq(items), Proper, ScanOK, fn = NoModels, ScanEnd
  PROVE  AtItem(0)'
<1> DEFINE L == Len(args)
           N == Len(items)
<1>1. N \in Nat /\ L \in Nat /\ DOMAIN items = 1..N /\ Offset(items, 0) = 0
  BY ItemEnds
<1>2. argv \in Nat /\ argc = 1 /\ argv + argc = L
  BY DEF ScanOK, ScanEnd
<1>3. items' = items /\ args' = args /\ num_interp' = num_interp /\ fn' = fn
      /\ argv' = 0 /\ argc' = Len(args)
  BY DEF ScanEnd
<1>4. num_interp = Asked
  <2>1. CASE Is(I) = {}
    <3>1. Asked = 1 /\ ~\E k \in Is(I) : Offset(items, k - 1) <= argv
      BY <2>1 DEF Asked, I
    <3> QED BY <3>1 DEF ScanOK
  <2>2. CASE Is(I) # {}
    <3>1. PICK k \in Is(I) : TRUE
      BY <2>2
    <3>2. k \in 1..N
      BY <1>1 DEF Is
    <3>3. k - 1 \in Nat /\ k - 1 < N
      <4> HIDE DEF N
      <4> QED BY <1>1, <3>2
    <3> DEFINE j == k - 1
    <3> HIDE DEF j
    <3>4. /\ Offset(items, j) \in Nat /\ Len(items[j + 1]) \in Nat \ {0}
          /\ Offset(items, j + 1) = Offset(items, j) + Len(items[j + 1])
          /\ Offset(items, j + 1) <= L
      <4>1. j \in Nat /\ j < N
        BY <3>3 DEF j
      <4> QED BY <4>1, ItemAt
    <3> HIDE DEF L
    <3>5. Offset(items, j) <= argv
      BY <1>1, <1>2, <3>4
    <3> QED BY <3>1, <3>5 DEF ScanOK, j
  <2> QED BY <2>1, <2>2
<1>5. fn = [k \in Kinds |-> NamesIn(SubSeq(items, 1, 0), k)]
  <2>1. SubSeq(items, 1, 0) = <<>>
    BY SubSeqEmpty
  <2>2. \A k : NamesIn(<<>>, k) = <<>>
    <3> SUFFICES ASSUME NEW k PROVE NamesIn(<<>>, k) = <<>>
      OBVIOUS
    <3> DEFINE f == [n \in DOMAIN <<>> |-> NamePiece(<<>>[n], k)]
    <3>1. f = <<>>
      OBVIOUS
    <3> QED BY <3>1, FlattenEmpty DEF NamesIn
  <2> QED BY <2>1, <2>2 DEF NoModels
<1>6. 0 < N /\ 0 \in 0..N
  <2>1. items # <<>> /\ items \in Seq(Plain \cup Interps)
    BY DEF Proper, ListOK
  <2>2. N # 0
    BY <2>1, EmptySeq
  <2> HIDE DEF N
  <2> QED BY <1>1, <2>2
<1>7. argc' = Len(args') - argv'
  <2>1. argc' = L - 0
    <3> HIDE DEF L
    <3>1. argc' = L
      BY <1>3 DEF L
    <3> QED BY <1>1, <3>1
  <2> QED BY <1>3, <2>1
<1>8. Asked' = Asked
  BY <1>3, SameList
<1>9. num_interp' = Asked' /\ argv' = Offset(items', 0) /\ 0 \in 0..Len(items') /\ 0 < Len(items')
  BY <1>1, <1>3, <1>4, <1>6, <1>8
<1>10. fn' = [k \in Kinds |-> NamesIn(SubSeq(items', 1, 0), k)]
  BY <1>3, <1>5
<1> QED BY <1>7, <1>9, <1>10 DEF AtItem

(* A step of load() itself, once the arguments are there                   *)
LEMMA LoadGoesOn ==
  ASSUME LoadInv, pc \in {"load", "scan", "read", "check", "loaded"},
         items' = items, args' = args, pc' \notin {"start", "load"},
         Proper => ProperInv'
  PROVE  LoadInv'
<1>1. ListOK(items') /\ args' = FlattenSeq(items')
  BY DEF LoadInv, ProperInv
<1>2. Proper' = Proper
  BY SameList
<1>3. Proper' => ProperInv'
  BY <1>2
<1> QED BY <1>1, <1>3 DEF LoadInv, ProperInv

(* GetNumInterp keeps the invariant.                                       *)
LEMMA ScanKeepsInv ==
  ASSUME LoadInv, Usage \/ StartScan \/ Scan \/ ScanEnd
  PROVE  LoadInv'
<1>0. pc \in {"load", "scan"} /\ items' = items /\ args' = args
      /\ ListOK(items) /\ args = FlattenSeq(items)
  BY DEF LoadInv, ProperInv, Usage, StartScan, Scan, ScanEnd, Stop
<1>1. CASE Usage
  <2>1. pc' = "exit"
    BY <1>1 DEF Usage, Stop
  <2> QED BY <1>0, <2>1, LoadGoesOn DEF ProperInv
<1>2. CASE StartScan
  <2>1. pc' = "scan" /\ fn' = fn /\ fn = NoModels /\ argv = 0 /\ argc = Len(args)
    BY <1>2 DEF StartScan, LoadInv
  <2>2. Proper => ScanOK'
    BY <1>0, <1>2, <2>1, ScanStarts
  <2> QED BY <1>0, <2>1, <2>2, LoadGoesOn DEF ProperInv, NoModels
<1>3. CASE Scan
  <2>1. pc = "scan" /\ pc' \in {"scan", "outside"}
    BY <1>3 DEF Scan, Stop
  <2>2. ASSUME Proper PROVE ProperInv'
    <3>1. fn = NoModels /\ ScanOK
      BY <2>1, <2>2 DEF LoadInv, ProperInv
    <3>2. ScanOK' /\ pc' = pc /\ fn' = fn
      BY <1>0, <1>3, <2>2, <3>1, ScanGoesOn
    <3> QED BY <2>1, <3>1, <3>2 DEF ProperInv, NoModels
  <2> QED BY <1>0, <2>1, <2>2, LoadGoesOn
<1>4. CASE ScanEnd
  <2>1. pc = "scan" /\ pc' = "read"
    BY <1>4 DEF ScanEnd
  <2>2. ASSUME Proper PROVE ProperInv'
    <3>1. fn = NoModels /\ ScanOK
      BY <2>1, <2>2 DEF LoadInv, ProperInv
    <3>2. AtItem(0)'
      BY <1>0, <1>4, <2>2, <3>1, ScanEnds
    <3>3. 0 \in 0..Len(items')
      BY <3>2 DEF AtItem
    <3> QED BY <2>1, <3>2, <3>3 DEF ProperInv
  <2> QED BY <1>0, <2>1, <2>2, LoadGoesOn
<1> QED BY <1>1, <1>2, <1>3, <1>4

(* The loop over the options keeps the invariant.                          *)
LEMMA ReadKeepsInv ==
  ASSUME LoadInv, ReadModel \/ ReadValue \/ ReadInterp \/ ReadFlag \/ ReadExit
                  \/ ReadWord \/ ReadOutside \/ ReadEnd
  PROVE  LoadInv'
<1>0. pc = "read" /\ items' = items /\ args' = args
      /\ ListOK(items) /\ args = FlattenSeq(items)
  BY DEF LoadInv, ProperInv, ReadModel, ReadValue, ReadInterp, ReadFlag, ReadExit, ReadWord,
         ReadOutside, ReadEnd, Looking, Stop
<1>1. pc' \notin {"start", "load"}
  BY <1>0 DEF ReadModel, ReadValue, ReadInterp, ReadFlag, ReadExit, ReadWord,
              ReadOutside, ReadEnd, Stop
<1>2. ASSUME Proper PROVE ProperInv'
  <2>1. PICK j \in 0..Len(items) : AtItem(j)
    BY <1>0, <1>2 DEF LoadInv, ProperInv
  <2>2. Asked \in Nat
    <3>1. CASE Is(I) = {}
      BY <3>1 DEF Asked, I
    <3>2. CASE Is(I) # {}
      <4>1. PICK k \in Is(I) : TRUE
        BY <3>2
      <4> QED BY <1>0, <1>2, <4>1, AskedIs DEF Proper
    <3> QED BY <3>1, <3>2
  <2>3. HasExtra' = HasExtra /\ Surplus' = Surplus
    BY <1>0, SameList
  <2>4. CASE ReadModel
    <3>1. j + 1 \in 0..Len(items') /\ AtItem(j + 1)' /\ (pc' # pc => Surplus)
      BY <1>0, <2>1, <2>2, <2>4, ReadFile
    <3>2. pc' = "read" \/ pc' = "outside"
      BY <1>0, <2>4 DEF ReadModel
    <3> QED BY <1>0, <2>3, <3>1, <3>2 DEF ProperInv
  <2>5. CASE ReadValue \/ ReadInterp \/ ReadFlag \/ ReadWord
    <3>1. j + 1 \in 0..Len(items') /\ AtItem(j + 1)'
      BY <1>0, <1>2, <2>1, <2>5, ReadOthers
    <3>2. pc' = "read"
      BY <1>0, <2>5 DEF ReadValue, ReadInterp, ReadFlag, ReadWord
    <3> QED BY <3>1, <3>2 DEF ProperInv
  <2>6. CASE ReadExit
    BY <2>6 DEF ReadExit, Stop, ProperInv
  <2>7. CASE ReadOutside
    <3>1. ~HasExtra
      BY <1>0, <1>2, <2>1, <2>7, ReadBehind
    <3>2. pc' = "outside"
      BY <2>7 DEF ReadOutside, Stop
    <3> QED BY <2>3, <3>1, <3>2 DEF ProperInv
  <2>8. CASE ReadEnd
    <3>1. pc' = "check" /\ argc = 1 /\ UNCHANGED <<items, args, argc, argv, num_interp, fn>>
      BY <2>8 DEF ReadEnd, Stop
    <3>2. AtItem(j)'
      BY <2>1, <2>3, <3>1, SameList DEF AtItem
    <3> QED BY <1>0, <2>1, <3>1, <3>2 DEF ProperInv
  <2> QED BY <2>4, <2>5, <2>6, <2>7, <2>8
<1> QED BY <1>0, <1>1, <1>2, LoadGoesOn

(* The check of the numbers keeps the invariant.                           *)
LEMMA CheckKeepsInv ==
  ASSUME LoadInv, CheckFails \/ Loaded
  PROVE  LoadInv'
<1>0. pc = "check" /\ UNCHANGED <<items, args, argc, argv, num_interp, fn>>
      /\ ((pc' = "exit") \/ (pc' = "loaded" /\ NumbersMatch))
  BY DEF CheckFails, Loaded, Stop
<1>1. ASSUME Proper PROVE ProperInv'
  <2>1. PICK j \in 0..Len(items) : AtItem(j) /\ argc = 1
    BY <1>0, <1>1 DEF LoadInv, ProperInv
  <2>2. AtItem(j)'
    BY <1>0, <2>1, SameList DEF AtItem
  <2>3. pc' = "loaded" => NumbersMatch'
    <3>1. \A k : Num(k)' = Num(k)
      BY <1>0 DEF Num
    <3> QED BY <1>0, <3>1 DEF NumbersMatch, HasLpf
  <2> QED BY <1>0, <2>1, <2>2, <2>3 DEF ProperInv
<1>2. pc' \notin {"start", "load"} /\ items' = items /\ args' = args
  BY <1>0
<1> QED BY <1>0, <1>1, <1>2, LoadGoesOn

(* How the arguments get there keeps the invariant.                        *)
LEMMA StartKeepsInv ==
  ASSUME LoadInv, Given \/ ParseConfigFile \/ ParseConfigFails
  PROVE  LoadInv'
<1>0. /\ pc = "start" /\ items' = items /\ ListOK(items) /\ argv = 0 /\ fn = NoModels
      /\ argv' = argv /\ fn' = fn
  BY DEF LoadInv, ProperInv, Given, ParseConfigFile, ParseConfigFails, Stop
<1>1. CASE ParseConfigFails
  <2>1. pc' = "none"
    BY <1>1 DEF ParseConfigFails, Stop
  <2> QED BY <1>0, <2>1 DEF LoadInv, ProperInv
<1>2. CASE Given \/ ParseConfigFile
  <2>1. args' = FlattenSeq(items') /\ argc' = Len(args')
    BY <1>0, <1>2 DEF Given, ParseConfigFile
  <2>2. pc' \in {"load", "none"} \/ (pc' = "outside" /\ Len(args') > maxNumOfArguments)
    BY <1>2 DEF Given, ParseConfigFile
  <2>3. pc' = "outside" => ~Proper'
    <3>1. args' \in Seq(ArgSet)
      <4>1. items \in Seq(Seq(ArgSet))
        <5>1. Plain \cup Interps \subseteq Seq(ArgSet)
          BY ItemFacts
        <5> QED BY <1>0, <5>1, SeqMonotonic DEF ListOK
      <4> QED BY <1>0, <2>1, <4>1, FlattenType
    <3>2. Len(args') \in Nat /\ maxNumOfArguments \in Nat
      BY <3>1, LenProperties, ArgsAssumption
    <3> DEFINE L == Len(args')
    <3>3. pc' = "outside" => ~(L <= maxNumOfArguments)
      <4>1. pc' = "outside" => L > maxNumOfArguments
        BY <2>2
      <4>2. L \in Nat
        BY <3>2
      <4> HIDE DEF L
      <4> QED BY <3>2, <4>1, <4>2
    <3> QED BY <3>3 DEF Proper
  <2>4. ListOK(items') /\ fn' = NoModels /\ NoModels' = NoModels
    BY <1>0 DEF NoModels
  <2> QED BY <1>0, <2>1, <2>2, <2>3, <2>4 DEF LoadInv, ProperInv
<1> QED BY <1>1, <1>2

(* LoadInv holds at every moment.                                          *)
THEOREM LoadInvariant == Spec => []LoadInv
<1>1. Init => LoadInv
  BY ListsOK DEF Init, LoadInv, ProperInv
<1>2. LoadInv /\ [Next]_loadVars => LoadInv'
  <2> SUFFICES ASSUME LoadInv, [Next]_loadVars PROVE LoadInv'
    OBVIOUS
  <2>1. CASE Given \/ ParseConfigFile \/ ParseConfigFails
    BY <2>1, StartKeepsInv
  <2>2. CASE Usage \/ StartScan \/ Scan \/ ScanEnd
    BY <2>2, ScanKeepsInv
  <2>3. CASE ReadModel \/ ReadValue \/ ReadInterp \/ ReadFlag \/ ReadExit
             \/ ReadWord \/ ReadOutside \/ ReadEnd
    BY <2>3, ReadKeepsInv
  <2>4. CASE CheckFails \/ Loaded
    BY <2>4, CheckKeepsInv
  <2>5. CASE UNCHANGED loadVars
    <3>1. UNCHANGED <<items, args, pc, argc, argv, num_interp, fn>>
      BY <2>5 DEF loadVars
    <3>2. /\ Proper' = Proper /\ HasExtra' = HasExtra /\ Surplus' = Surplus
          /\ Is(I)' = Is(I) /\ Asked' = Asked
      BY <3>1, SameList
    <3>3. (ScanOK' <=> ScanOK) /\ \A j : AtItem(j)' <=> AtItem(j)
      BY <3>1, <3>2 DEF ScanOK, AtItem
    <3>4. NumbersMatch' <=> NumbersMatch
      BY <3>1 DEF NumbersMatch, HasLpf, Num
    <3> QED BY <3>1, <3>2, <3>3, <3>4 DEF LoadInv, ProperInv, NoModels
  <2> QED BY <2>1, <2>2, <2>3, <2>4, <2>5 DEF Next
<1> QED BY <1>1, <1>2, PTL DEF Spec

(* A list read to the end ends with an item of one argument, and names the *)
(* files that load() has.                                                  *)
LEMMA ReadToTheEnd ==
  ASSUME LoadInv, Proper, pc = "loaded"
  PROVE  /\ ~Straddles /\ num_interp = Asked /\ Asked >= 1 /\ NumbersMatch
         /\ \A k \in Kinds : fn[k] = Named(k)
<1>0. ListOK(items) /\ args = FlattenSeq(items) /\ NumbersMatch
  BY DEF LoadInv, ProperInv
<1>1. PICK j \in 0..Len(items) : AtItem(j) /\ argc = 1
  BY DEF LoadInv, ProperInv
<1> DEFINE x == items[j + 1]
           N == Len(items)
           L == Len(args)
           n == Len(x)
<1>2. N \in Nat /\ L \in Nat /\ Offset(items, N) = L
  BY <1>0, ItemEnds
<1>3. argv = Offset(items, j) /\ argc = L - argv /\ num_interp = Asked
      /\ fn = [k \in Kinds |-> NamesIn(SubSeq(items, 1, j), k)]
  BY <1>1 DEF AtItem
<1>4. j \in Nat /\ j < N
  <2> HIDE DEF N, L
  <2>1. j \in 0..N
    BY DEF N
  <2>2. j # N
    <3> SUFFICES ASSUME j = N PROVE FALSE
      OBVIOUS
    <3>1. argv = L
      BY <1>2, <1>3
    <3>2. argc = L - argv /\ argc = 1 /\ L \in Nat
      BY <1>1, <1>2, <1>3
    <3> QED BY <3>1, <3>2
  <2> QED BY <1>2, <2>1, <2>2
<1>5. /\ x \in Plain \cup Interps /\ n \in Nat \ {0} /\ Offset(items, j) \in Nat
      /\ Offset(items, j + 1) = Offset(items, j) + n /\ Offset(items, j + 1) <= L
  BY <1>0, <1>4, ItemAt
<1>6. n = 1 /\ Offset(items, j + 1) = L
  <2> DEFINE o == Offset(items, j)
  <2>1. /\ 1 = L - o /\ L \in Nat /\ o \in Nat /\ n \in Nat \ {0}
        /\ Offset(items, j + 1) = o + n /\ o + n <= L
    BY <1>1, <1>2, <1>3, <1>5
  <2> HIDE DEF n, L, o
  <2>2. n = 1 /\ o + n = L
    BY <2>1
  <2> QED BY <2>1, <2>2
<1>7. j + 1 = N
  <2> SUFFICES ASSUME j + 1 # N PROVE FALSE
    OBVIOUS
  <2> DEFINE i == j + 1
  <2>1. i \in Nat /\ i < N
    <3> HIDE DEF N
    <3> QED BY <1>2, <1>4
  <2> HIDE DEF i
  <2>2. /\ Len(items[i + 1]) \in Nat \ {0} /\ Offset(items, i) \in Nat
        /\ Offset(items, i + 1) = Offset(items, i) + Len(items[i + 1])
        /\ Offset(items, i + 1) <= L
    BY <1>0, <2>1, ItemAt
  <2>3. Offset(items, i) = L
    BY <1>6 DEF i
  <2> HIDE DEF L
  <2> QED BY <1>2, <2>2, <2>3
<1>8. ~Straddles
  <2>1. Last(items) = x
    BY <1>7 DEF Last
  <2>2. Len(Last(items)) = 1 /\ ~(1 >= 2)
    BY <1>6, <2>1
  <2> QED BY <2>2 DEF Straddles
<1>9. \A k \in Kinds : fn[k] = Named(k)
  <2> SUFFICES ASSUME NEW k \in Kinds PROVE fn[k] = Named(k)
    OBVIOUS
  <2>1. items \in Seq(Plain \cup Interps)
    BY <1>0 DEF ListOK
  <2> DEFINE s == SubSeq(items, 1, j)
  <2>2. s \in Seq(Plain \cup Interps) /\ SubSeq(items, 1, j + 1) = Append(s, x)
    BY <1>4, <2>1, PrefixNext
  <2>3. items = Append(s, x)
    BY <1>7, <2>1, <2>2, SubSeqFull
  <2>4. NamePiece(x, k) = <<>>
    BY <1>5, <1>6, NamePieces
  <2>5. NamesIn(items, k) = NamesIn(s, k) \o <<>> /\ NamesIn(s, k) \in Seq(Nat)
    BY <1>5, <2>2, <2>3, <2>4, NamesNext
  <2>6. NamesIn(items, k) = Named(k)
    BY DEF NamesIn, Named, NamePiece
  <2> QED BY <1>3, <2>5, <2>6, ConcatEmptySeq
<1> QED BY <1>0, <1>3, <1>8, <1>9 DEF Proper

(* The blocks that load global variance: a stream gets its own, unless the *)
(* low-pass filter's is loaded with trees.                                 *)
LEMMA StreamsLoadGv ==
  ASSUME num_interp = Asked, Asked >= 1, \A k \in Kinds : fn[k] = Named(k),
         NEW t \in Streams
  PROVE  \/ t \in {"mgc", "lpf"} /\ NamedGv("lpf").trees # <<>>
         \/ GvLoaded[t] = NamedGv(t)
<1> DEFINE c(s) == Named(<<"c", s>>)
           e(s) == Named(<<"e", s>>)
           L == \E k \in Lpf : Len(Named(k)) > 0
           G(s) == Len(c(s)) = Asked /\ (s = "lpf" => L)
           T(s) == Len(c(s)) = Len(e(s))
           into == {s \in Streams : GvGiven(s) /\ GvIndex(s) = t}
<1>1. "lpf" \in Streams
  BY DEF Streams
<1>2. \A s \in Streams : fn[<<"c", s>>] = c(s) /\ fn[<<"e", s>>] = e(s)
  BY DEF Kinds, Gv
<1>3. HasLpf <=> L
  BY DEF HasLpf, Num, Kinds
<1>4. \A s \in Streams : (GvGiven(s) <=> G(s)) /\ (GvTrees(s) <=> T(s))
  BY <1>2, <1>3 DEF GvGiven, GvTrees, Num
<1>5. \A s \in Streams :
         GvFiles(s) = [models |-> c(s), trees |-> IF T(s) THEN e(s) ELSE <<>>]
  BY <1>2, <1>4 DEF GvFiles
<1>6. \A s \in Streams : G(s) => GvFiles(s) = NamedGv(s)
  <2> SUFFICES ASSUME NEW s \in Streams, G(s) PROVE GvFiles(s) = NamedGv(s)
    OBVIOUS
  <2>1. NamedGv(s) = [models |-> c(s), trees |-> IF Len(e(s)) = Asked THEN e(s) ELSE <<>>]
    BY DEF NamedGv
  <2>2. T(s) <=> Len(e(s)) = Asked
    OBVIOUS
  <2> HIDE DEF c, e, T, G
  <2> QED BY <1>5, <2>1, <2>2
<1>7. \A s \in Streams : ~G(s) => NamedGv(s) = NoGv
  BY DEF NamedGv
<1>8. G("lpf") /\ T("lpf") => NamedGv("lpf").trees # <<>>
  <2> SUFFICES ASSUME G("lpf"), T("lpf") PROVE NamedGv("lpf").trees # <<>>
    OBVIOUS
  <2>1. NamedGv("lpf").trees = e("lpf") /\ Len(e("lpf")) = Asked
    BY <1>1, <1>5, <1>6
  <2>2. Len(<<>>) = 0 /\ ~(0 >= 1)
    OBVIOUS
  <2> HIDE DEF e
  <2> QED BY <2>1, <2>2
<1>9. GvLoaded[t] = IF "lpf" \in into THEN GvFiles("lpf")
                    ELSE IF t \in into THEN GvFiles(t) ELSE NoGv
  BY DEF GvLoaded
<1>10. \A s \in Streams : s \in into <=>
          G(s) /\ t = IF s = "lpf" /\ T(s) THEN "mgc" ELSE s
  BY <1>4 DEF GvIndex
<1> HIDE DEF into, G, T, c, e, L
<1>11. CASE G("lpf") /\ T("lpf")
  <2>1. CASE t \in {"mgc", "lpf"}
    BY <1>8, <1>11, <2>1
  <2>2. CASE t \notin {"mgc", "lpf"}
    <3>1. "lpf" \notin into /\ (t \in into <=> G(t))
      BY <1>1, <1>10, <1>11, <2>2
    <3> QED BY <1>6, <1>7, <1>9, <3>1
  <2> QED BY <2>1, <2>2
<1>12. CASE ~(G("lpf") /\ T("lpf"))
  <2>1. t \in into <=> G(t)
    BY <1>1, <1>10, <1>12
  <2>2. "lpf" \in into => t = "lpf"
    BY <1>1, <1>10, <1>12
  <2> QED BY <1>1, <1>6, <1>7, <1>9, <2>1, <2>2
<1> QED BY <1>11, <1>12

(* load() returns only with what the list names, and every stream has the  *)
(* global variance named for it, except where the low-pass filter's with   *)
(* its trees goes into the stream of the spectrum.                         *)
THEOREM VoicesLoadAsNamed == Spec => []LoadsWhatWasNamed
<1>1. LoadInv => LoadsWhatWasNamed
  <2> SUFFICES ASSUME LoadInv, pc = "loaded", Proper
               PROVE  /\ \A k \in Kinds : fn[k] = Named(k)
                      /\ \A k \in Required : Num(k) = Asked
                      /\ \A k, l \in Lpf : Num(k) = Num(l) /\ Num(k) \in {0, Asked}
                      /\ \A s \in Streams :
                            \/ s \in {"mgc", "lpf"} /\ NamedGv("lpf").trees # <<>>
                            \/ GvLoaded[s] = NamedGv(s)
    BY DEF LoadsWhatWasNamed
  <2>1. num_interp = Asked /\ NumbersMatch /\ \A k \in Kinds : fn[k] = Named(k)
    BY ReadToTheEnd
  <2>2. \A k \in Required : Num(k) = Asked
    BY <2>1 DEF NumbersMatch
  <2>3. \A k, l \in Lpf : Num(k) = Num(l) /\ Num(k) \in {0, Asked}
    <3>0. \A k \in Lpf : Num(k) \in Nat
      <4>1. PICK j \in 0..Len(items) : AtItem(j)
        BY DEF LoadInv, ProperInv
      <4>2. items \in Seq(Plain \cup Interps)
        BY DEF LoadInv, ProperInv, ListOK
      <4>3. \A k \in Kinds : fn[k] \in Seq(Nat)
        BY <4>1, <4>2, NamesGrow DEF AtItem
      <4> QED BY <4>3, LenProperties DEF Num, Kinds
    <3>1. CASE \E k \in Lpf : Num(k) > 0
      BY <2>1, <3>1 DEF NumbersMatch, HasLpf
    <3>2. CASE ~\E k \in Lpf : Num(k) > 0
      <4>1. \A k \in Lpf : Num(k) = 0
        BY <3>0, <3>2
      <4> QED BY <4>1
    <3> QED BY <3>1, <3>2
  <2>4. ASSUME NEW s \in Streams
        PROVE  \/ s \in {"mgc", "lpf"} /\ NamedGv("lpf").trees # <<>>
               \/ GvLoaded[s] = NamedGv(s)
    BY <2>1, ReadToTheEnd, StreamsLoadGv
  <2> QED BY <2>1, <2>2, <2>3, <2>4
<1> QED BY <1>1, LoadInvariant, PTL

(* The last argument is never looked at.                                   *)
THEOREM LastArgumentIsNeeded == Spec => []LastArgumentNeeded
<1>1. LoadInv => LastArgumentNeeded
  <2> SUFFICES ASSUME LoadInv, Proper
               PROVE  /\ pc = "outside" => ~HasExtra \/ Surplus
                      /\ pc = "loaded" => HasExtra \/ ~Straddles
    BY DEF LastArgumentNeeded
  <2>1. pc = "outside" => ~HasExtra \/ Surplus
    BY DEF LoadInv, ProperInv
  <2>2. pc = "loaded" => ~Straddles
    BY ReadToTheEnd
  <2> QED BY <2>1, <2>2
<1> QED BY <1>1, LoadInvariant, PTL
=============================================================================
