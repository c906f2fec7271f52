----------------------------- MODULE EngineMap -----------------------------
(***************************************************************************)
(* mage/src/mage.cpp: the map of engines (voices), the default engine, the *)
(* flag behind ready() and the interpolation weights.  A control thread    *)
(* adds, removes and selects engines while the generator thread, in run(), *)
(* looks engines up in the map and works with what it found.               *)
(*                                                                         *)
(* An engine is the number of the object that holds it; a weight is zero   *)
(* or not, and one stream stands for all of them.                          *)
(***************************************************************************)
EXTENDS Integers

CONSTANTS Names,              \* names an application gives its engines
          NoName,             \* the empty name
          MaxLoads,           \* bound: engines loaded
          RemoveConcurrently  \* whether removeEngine() may run during run()

ASSUME NamesAssumption == NoName \notin Names
ASSUME LoadsAssumption == MaxLoads \in Nat
ASSUME RemoveAssumption == RemoveConcurrently \in BOOLEAN

VARIABLES engine,               \* the map: name to object and weight
          defaultEngine, flagReady,
          interpolationFlag,
          interpolationWeights, \* whether the sum of the weights is nonzero
          live,                 \* engines loaded and not deleted
          loads,                \* engines loaded so far
          control,              \* what the control thread is doing
          gen, lookups,         \* stage of run(), and its lookups to come
          loop, visited,        \* whether it interpolates, engines done
          using                 \* the engine run() works with

mapVars == <<engine, defaultEngine, flagReady, interpolationFlag,
             interpolationWeights, live>>
controlVars == <<loads, control>>
genVars == <<gen, lookups, loop, visited, using>>
vars == <<mapVars, controlVars, genVars>>

Keys == Names \cup {NoName}
Null == 0                       \* engine[] inserts a null pointer
None == -1
Ids == 1..MaxLoads
Weights == {"zero", "nonzero"}
NoEngines == [n \in {} |-> Null]

(* what operator[] puts under a new name *)
NullPair == [id |-> Null, weight |-> "zero"]

(* engine[n] = e, where engine has a pair for n or gets one *)
Insert(n, e) == [k \in DOMAIN engine \cup {n} |-> IF k = n THEN e ELSE engine[k]]
Idle == [op |-> "idle", name |-> NoName, id |-> None]

MapInit == /\ engine = NoEngines
           /\ defaultEngine = NoName /\ flagReady = FALSE
           /\ interpolationFlag = FALSE
           /\ interpolationWeights \in BOOLEAN     \* not initialised
           /\ live = {} /\ loads = 0
           /\ control = Idle
           /\ gen = "ready" /\ lookups = 0
           /\ loop = FALSE /\ visited = {} /\ using = None

-----------------------------------------------------------------------------
(* Control thread: addEngine(), the object is loaded outside of the map    *)
AddEngineLoad(n) == /\ control = Idle /\ loads < MaxLoads
                    /\ n \notin DOMAIN engine
                    /\ loads' = loads + 1
                    /\ live' = live \cup {loads'}
                    /\ control' = [op |-> "insert", name |-> n, id |-> loads']
                    /\ UNCHANGED <<engine, defaultEngine, flagReady,
                                   interpolationFlag, interpolationWeights, genVars>>

(* engine[EngineName] = tmpEngine: operator[] makes a pair of null         *)
(* pointers under the name, and the assignment follows                     *)
AddEngineSlot ==
  /\ control.op = "insert"
  /\ engine' = Insert(control.name, NullPair)
  /\ control' = [control EXCEPT !.op = "assign"]
  /\ UNCHANGED <<defaultEngine, flagReady, interpolationFlag,
                 interpolationWeights, live, loads, genVars>>

AddEngineAssign ==
  /\ control.op = "assign"
  /\ engine' = Insert(control.name, [id |-> control.id, weight |-> "nonzero"])
  /\ control' = IF defaultEngine = NoName THEN [control EXCEPT !.op = "default"]
                ELSE Idle
  /\ UNCHANGED <<defaultEngine, flagReady, interpolationFlag,
                 interpolationWeights, live, loads, genVars>>

(* mutant of AddEngineDefault: the flag is raised before there is a name   *)
AddEngineDefaultLate == /\ control.op = "default"
                        /\ flagReady' = TRUE
                        /\ control' = [control EXCEPT !.op = "flag"]
                        /\ UNCHANGED <<engine, defaultEngine, interpolationFlag,
                                       interpolationWeights, live, loads, genVars>>

AddEngineDefault == /\ control.op = "default"
                    /\ defaultEngine' = control.name
                    /\ control' = [control EXCEPT !.op = "flag"]
                    /\ UNCHANGED <<engine, flagReady, interpolationFlag,
                                   interpolationWeights, live, loads,
                                   genVars>>

AddEngineReady == /\ control.op = "flag"
                  /\ flagReady' = TRUE
                  /\ control' = Idle
                  /\ UNCHANGED <<engine, defaultEngine, interpolationFlag,
                                 interpolationWeights, live, loads,
                                 genVars>>

(* removeEngine(): erase from the map, delete, mend the default            *)
RemoveEngineErase(n) ==
  /\ control = Idle
  /\ n \in DOMAIN engine
  /\ RemoveConcurrently \/ gen = "ready"
  /\ engine' = [k \in DOMAIN engine \ {n} |-> engine[k]]
  /\ control' = [op |-> "delete", name |-> n, id |-> engine[n].id]
  /\ UNCHANGED <<defaultEngine, flagReady, interpolationFlag,
                 interpolationWeights, live, loads, genVars>>

(* mutant of RemoveEngineDelete: the object is forgotten *)
RemoveEngineForget == /\ control.op = "delete"
                      /\ control' = [control EXCEPT !.op = "mend"]
                      /\ UNCHANGED <<mapVars, loads, genVars>>

RemoveEngineDelete == /\ control.op = "delete"
                      /\ live' = live \ {control.id}
                      /\ control' = [control EXCEPT !.op = "mend"]
                      /\ UNCHANGED <<engine, defaultEngine, flagReady,
                                     interpolationFlag, interpolationWeights,
                                     loads, genVars>>

RemoveEngineMend ==
  /\ control.op = "mend"
  /\ \/ DOMAIN engine = {} /\ defaultEngine' = NoName /\ flagReady' = FALSE
     \/ /\ DOMAIN engine # {} /\ defaultEngine = control.name
        /\ defaultEngine' \in DOMAIN engine /\ flagReady' = TRUE
     \/ /\ DOMAIN engine # {} /\ defaultEngine # control.name
        /\ UNCHANGED <<defaultEngine, flagReady>>
  /\ control' = Idle
  /\ UNCHANGED <<engine, interpolationFlag, interpolationWeights, live, loads,
                 genVars>>

SetDefaultEngine(n) == /\ control = Idle
                       /\ n \in DOMAIN engine
                       /\ defaultEngine' = n
                       /\ UNCHANGED <<engine, flagReady, interpolationFlag,
                                      interpolationWeights, live, controlVars,
                                      genVars>>

(* checkReady(), which takes the flag down before it looks *)
CheckReady == /\ control = Idle
              /\ flagReady' = FALSE
              /\ control' = [Idle EXCEPT !.op = "check"]
              /\ UNCHANGED <<engine, defaultEngine, interpolationFlag,
                             interpolationWeights, live, loads, genVars>>

CheckReadyDone == /\ control.op = "check"
                  /\ flagReady' = (DOMAIN engine # {} /\ defaultEngine # NoName)
                  /\ control' = Idle
                  /\ UNCHANGED <<engine, defaultEngine, interpolationFlag,
                                 interpolationWeights, live, loads, genVars>>

EnableInterpolation(b) == /\ control = Idle
                          /\ interpolationFlag' = b
                          /\ UNCHANGED <<engine, defaultEngine, flagReady,
                                         interpolationWeights, live,
                                         controlVars, genVars>>

(* setInterpolationFunctions() with an entry for n, and                    *)
(* resetInterpolationWeights()                                             *)
SetWeights(weight) ==
  /\ control = Idle
  /\ DOMAIN engine # {}
  /\ engine' = [n \in DOMAIN engine |-> [engine[n] EXCEPT !.weight = weight[n]]]
  /\ UNCHANGED <<defaultEngine, flagReady, interpolationFlag,
                 interpolationWeights, live, loads, control, genVars>>

SetInterpolationFunctions(n, w) ==
  /\ n \in DOMAIN engine
  /\ SetWeights([k \in DOMAIN engine |-> IF k = n THEN w ELSE engine[k].weight])

ResetInterpolationWeights == SetWeights([k \in DOMAIN engine |-> "zero"])

(* mutant of Reset: the sum is taken before the weights are restored *)
ResetSumFirst ==
  /\ control = Idle
  /\ interpolationFlag' = FALSE
  /\ engine' = [n \in DOMAIN engine |->
                  IF interpolationWeights
                  THEN [engine[n] EXCEPT !.weight = "nonzero"] ELSE engine[n]]
  /\ interpolationWeights' = \E n \in DOMAIN engine : engine[n].weight # "zero"
  /\ UNCHANGED <<defaultEngine, flagReady, live, loads, control, genVars>>

(* reset(), with checkInterpolationFunctions(): the weights go back to     *)
(* their default where the sum of the previous check was not zero          *)
Reset ==
  /\ control = Idle
  /\ interpolationFlag' = FALSE
  /\ engine' = [n \in DOMAIN engine |->
                  IF interpolationWeights
                  THEN [engine[n] EXCEPT !.weight = "nonzero"] ELSE engine[n]]
  /\ interpolationWeights' = \E n \in DOMAIN engine : engine'[n].weight # "zero"
  /\ UNCHANGED <<defaultEngine, flagReady, live, loads, control, genVars>>

(* ~Mage(), once the generator thread is gone *)
Dtor == /\ control = Idle /\ gen = "ready"
        /\ flagReady' = FALSE
        /\ live' = live \ {engine[n].id : n \in DOMAIN engine}
        /\ control' = [Idle EXCEPT !.op = "gone"]
        /\ engine' = NoEngines
        /\ UNCHANGED <<defaultEngine, interpolationFlag, interpolationWeights,
                       loads, genVars>>

-----------------------------------------------------------------------------
(* Generator thread: run() with a label, stage by stage.  A stage looks    *)
(* the default engine up a number of times or, where it interpolates,      *)
(* works through the map; a lookup, the insertion of a pair, its           *)
(* assignment and an erasure are each taken to be atomic.                  *)
Stages == {"prepareModel", "computeDuration", "computeParameters",
           "optimizeParameters"}
InterpolatingStages == {"computeDuration", "computeParameters"}
After(stage) == CASE stage = "ready" -> "prepareModel"
                  [] stage = "prepareModel" -> "computeDuration"
                  [] stage = "computeDuration" -> "computeParameters"
                  [] stage = "computeParameters" -> "optimizeParameters"
                  [] stage = "optimizeParameters" -> "ready"
Lookups(stage) == CASE stage \in {"prepareModel", "computeDuration"} -> {1}
                    [] stage = "computeParameters" -> {2}
                    [] stage = "optimizeParameters" -> {0, 2}
                    [] stage = "ready" -> {0}

EnterStage(stage) == /\ gen' = stage
                     /\ lookups' \in Lookups(stage)
                     /\ loop' = (stage \in InterpolatingStages /\ interpolationFlag)
                     /\ visited' = {}

(* mutant of GenReady: run() without ready() *)
RunAnyway == /\ gen = "ready" /\ control.op # "gone"
             /\ EnterStage(After(gen))
             /\ UNCHANGED <<mapVars, controlVars, using>>

GenReady == /\ gen = "ready" /\ flagReady
            /\ RemoveConcurrently \/ control.op \notin {"delete", "mend"}
            /\ EnterStage(After(gen))
            /\ UNCHANGED <<mapVars, controlVars, using>>

(* engine[defaultEngine]: operator[] inserts what it does not find *)
GenDefault ==
  /\ using = None /\ ~loop /\ lookups > 0
  /\ engine' = IF defaultEngine \in DOMAIN engine THEN engine
               ELSE Insert(defaultEngine, NullPair)
  /\ using' = engine'[defaultEngine].id
  /\ lookups' = lookups - 1
  /\ UNCHANGED <<defaultEngine, flagReady, interpolationFlag,
                 interpolationWeights, live, controlVars, gen, loop, visited>>

(* with interpolation, every engine of the map in turn *)
GenEach(n) == /\ using = None /\ loop
              /\ n \in DOMAIN engine \ visited
              /\ using' = engine[n].id
              /\ visited' = visited \cup {n}
              /\ UNCHANGED <<mapVars, controlVars, gen, lookups, loop>>

(* the work with the engine ends *)
GenUsed == /\ using # None
           /\ using' = None
           /\ UNCHANGED <<mapVars, controlVars, gen, lookups, loop, visited>>

GenStage == /\ gen \in Stages /\ using = None
            /\ IF loop THEN DOMAIN engine \subseteq visited ELSE lookups = 0
            /\ EnterStage(After(gen))
            /\ UNCHANGED <<mapVars, controlVars, using>>

Control == \/ \E n \in Names : \/ AddEngineLoad(n)
                               \/ SetDefaultEngine(n)
                               \/ \E w \in Weights :
                                     SetInterpolationFunctions(n, w)
           \/ \E n \in Names : RemoveEngineErase(n)
           \/ AddEngineSlot \/ AddEngineAssign
           \/ AddEngineDefault \/ AddEngineReady
           \/ RemoveEngineDelete \/ RemoveEngineMend
           \/ CheckReady \/ CheckReadyDone
           \/ ResetInterpolationWeights \/ Reset \/ Dtor
           \/ \E b \in BOOLEAN : EnableInterpolation(b)

Generator == \/ GenReady \/ GenDefault \/ GenUsed \/ GenStage
             \/ \E n \in Keys : GenEach(n)

MapNext == Control \/ Generator
MapSpec == MapInit /\ [][MapNext]_vars

-----------------------------------------------------------------------------
ControlOps == {"idle", "insert", "assign", "default", "flag", "delete", "mend",
               "check", "gone"}

(* Types of the map of engines and of the two threads. *)
MapTypeOK ==
  /\ DOMAIN engine \subseteq Keys
  /\ \A n \in DOMAIN engine :
        engine[n] \in [id : Ids \cup {Null}, weight : Weights]
  /\ defaultEngine \in Keys
  /\ flagReady \in BOOLEAN /\ interpolationFlag \in BOOLEAN
  /\ interpolationWeights \in BOOLEAN
  /\ live \subseteq 1..loads /\ loads \in 0..MaxLoads
  /\ control \in [op : ControlOps,
                  name : Keys, id : Ids \cup {Null, None}]
  /\ gen \in Stages \cup {"ready"} /\ lookups \in 0..2
  /\ loop \in BOOLEAN /\ visited \subseteq Keys
  /\ using \in Ids \cup {Null, None}

Removing == control.op \in {"delete", "mend"}

(* What ready() promises run(): whenever the flag is up, and no            *)
(* removeEngine() is half way, the default engine is in the map, loaded    *)
(* and not deleted; and once an operation of the control thread is over,   *)
(* the flag is up exactly when there is an engine.                         *)
ReadyHasDefault ==
  /\ flagReady /\ ~Removing =>
        /\ defaultEngine \in DOMAIN engine
        /\ engine[defaultEngine].id \in live
  /\ control = Idle => (flagReady <=> DOMAIN engine # {})

(* run() works only with engines that are loaded and not deleted.  The     *)
(* default engine, however it is selected during the run, is never one     *)
(* that addEngine() has not assigned yet; a stage that interpolates may    *)
(* meet the null pointer of such an engine, and nothing worse.             *)
GeneratorUsesLoaded ==
  using # None => using \in live \/ (using = Null /\ loop)

(* Every engine object is owned: it is in the map under exactly one name,  *)
(* or the control thread is about to assign or to delete it; after ~Mage() *)
(* there is none left.                                                     *)
EnginesOwned ==
  /\ live = ({engine[n].id : n \in DOMAIN engine} \ {Null}) \cup
              (IF control.op \in {"insert", "assign", "delete"}
               THEN {control.id} ELSE {})
  /\ \A m, n \in DOMAIN engine : engine[m].id = engine[n].id => m = n

(* A reset() that found nonzero weights leaves the next one able to        *)
(* restore them: with engines in the map the sum never falls to zero       *)
(* again, although applications clear all weights in between.              *)
ResetRestores ==
  [][interpolationWeights /\ DOMAIN engine # {} => interpolationWeights']_vars
=============================================================================
