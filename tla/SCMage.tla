------------------------------- MODULE SCMage -------------------------------
(***************************************************************************)
(* SCMage/SCMage.cpp: the life of one SCMage unit.  The audio server's     *)
(* real-time thread constructs it, calls it for every block and destroys   *)
(* it; the constructor starts a generator thread that loads a voice and    *)
(* then calls Mage::run() for ever; the destructor cancels that thread and *)
(* joins it, on the real-time thread, so no block is played meanwhile.     *)
(* Cancellation is deferred: it takes effect at the next cancellation      *)
(* point of the generator (file I/O, pthread_testcancel, usleep).          *)
(*                                                                         *)
(* The Mage object is reduced to its labels and frames (modules Mage and   *)
(* FrameQueue), a label to the number of frames it amounts to.             *)
(***************************************************************************)
EXTENDS Naturals

CONSTANTS MaxLabels,         \* bound: labels in the buffer
          LabelFrames,       \* frames per label
          maxFrameQueueLen   \* slots of the frame queue

ASSUME SCMageAssumption == /\ MaxLabels \in Nat /\ LabelFrames \in Nat
                           /\ maxFrameQueueLen \in Nat \ {0}

VARIABLES server,     \* what the real-time thread is doing with the unit
          calc,       \* the unit's calculation function
          mage,       \* the Mage object
          ownMage,    \* unit->mage was set by this unit's constructor
          ownThread,  \* unit->thread was set by this unit's constructor
          gen,        \* where the generator thread is
          cancelled,  \* pthread_cancel was called on it
          ready,      \* Mage::flagReady
          labels,     \* labels in the label queue
          left,       \* frames generate() still has to push
          frames      \* frames in the frame queue

unitVars == <<server, calc, mage, ownMage, ownThread>>
threadVars == <<gen, cancelled>>
workVars == <<ready, labels, left, frames>>
scVars == <<unitVars, threadVars, workVars>>

(* No unit; RTAlloc'ed unit memory is not cleared. *)
SCInit == /\ server = "idle" /\ calc = "none" /\ mage = "none"
          /\ ownMage = FALSE /\ ownThread = FALSE
          /\ gen = "none" /\ cancelled = FALSE
          /\ ready = FALSE /\ labels = 0 /\ left = 0 /\ frames = 0

-----------------------------------------------------------------------------
(* SCMage_Ctor, by the way it ends *)

(* RTAlloc of the Mage object fails: SCMage_allocFailed *)
CtorNoMage == /\ server = "idle"
              /\ server' = "playing"
              /\ calc' = "clear"
              /\ UNCHANGED <<mage, ownMage, ownThread, threadVars,
                             workVars>>

(* RTAlloc of stringBuf fails in SCMage_pushLabelsFromSndBuf *)
CtorNoString == /\ server = "idle"
                /\ server' = "playing"
                /\ calc' = "clear"
                /\ mage' = "live" /\ ownMage' = TRUE
                /\ UNCHANGED <<ownThread, threadVars, workVars>>

(* n labels are pushed (none for a negative bufnum), then the thread starts *)
CtorStart(n) == /\ server = "idle"
                /\ server' = "playing"
                /\ calc' = "next"
                /\ mage' = "live" /\ ownMage' = TRUE
                /\ ownThread' = TRUE
                /\ gen' = "load"
                /\ labels' = n
                /\ UNCHANGED <<cancelled, ready, left, frames>>

(* ... unless pthread_create fails, which the constructor does not look at *)
CtorNoThread(n) == /\ server = "idle"
                   /\ server' = "playing"
                   /\ calc' = "next"
                   /\ mage' = "live" /\ ownMage' = TRUE
                   /\ labels' = n
                   /\ UNCHANGED <<ownThread, threadVars, ready, left,
                                  frames>>

-----------------------------------------------------------------------------
(* SCMage_next plays a frame when there is one; a unit whose constructor   *)
(* failed has the server's ClearUnitOutputs instead.                       *)
SCMage_next == /\ server = "playing" /\ calc = "next" /\ frames > 0
               /\ frames' = frames - 1
               /\ UNCHANGED <<unitVars, threadVars, ready, labels, left>>

-----------------------------------------------------------------------------
(* SCMage_Dtor; the server calls it whatever way the constructor ended *)

(* mutant of DtorJoin: pthread_join is missing *)
DtorNoJoin == /\ server = "join"
              /\ server' = "free"
              /\ UNCHANGED <<calc, mage, ownMage, ownThread, threadVars,
                             workVars>>

DtorCancel == /\ server = "playing" /\ ownThread
              /\ server' = "join"
              /\ cancelled' = TRUE
              /\ UNCHANGED <<calc, mage, ownMage, ownThread, gen,
                             workVars>>

(* A thread id that is not one: the library may return or crash. *)
DtorCancelWild == /\ server = "playing" /\ ~ownThread
                  /\ server' \in {"free", "crashed"}
                  /\ UNCHANGED <<calc, mage, ownMage, ownThread, threadVars,
                                 workVars>>

DtorJoin == /\ server = "join" /\ gen = "exited"
            /\ server' = "free"
            /\ UNCHANGED <<calc, mage, ownMage, ownThread, threadVars,
                           workVars>>

Gone == /\ calc' = "none" /\ mage' = "none"
        /\ ownMage' = FALSE /\ ownThread' = FALSE
        /\ gen' = "none" /\ cancelled' = FALSE
        /\ ready' = FALSE /\ labels' = 0 /\ left' = 0 /\ frames' = 0

(* ~Mage() and RTFree *)
DtorFree == /\ server = "free" /\ ownMage
            /\ server' = "idle"
            /\ Gone

DtorFreeWild == /\ server = "free" /\ ~ownMage
                /\ \/ server' = "idle" /\ Gone
                   \/ /\ server' = "crashed"
                      /\ UNCHANGED <<calc, mage, ownMage, ownThread, threadVars,
                                     workVars>>

(* The audio server is started again after a crash. *)
Restart == /\ server = "crashed"
           /\ server' = "idle"
           /\ Gone

-----------------------------------------------------------------------------
(* SCMage_genThread *)

(* mutant of CancellationPoints: the wait for room is not one *)
CancellationPointsBusyWait == {"load", "test", "sleepEmpty", "usleep"}

CancellationPoints == {"load", "test", "sleepEmpty", "sleepFull", "usleep"}

Cancelling == cancelled /\ gen \in CancellationPoints

Goto(from, to) == gen = from /\ gen' = to /\ UNCHANGED <<unitVars, cancelled>>

(* SCMage_addVoice: the engine is loaded and becomes the default engine *)
GenLoad == /\ Goto("load", "test")
           /\ ready' = TRUE
           /\ UNCHANGED <<labels, left, frames>>

(* ... or a file of the voice cannot be read, and Error() exits the server *)
GenLoadFails == /\ gen = "load"
                /\ server' = "crashed"
                /\ gen' = "exited"
                /\ UNCHANGED <<calc, mage, ownMage, ownThread, cancelled,
                               workVars>>

GenTest == /\ ~Cancelling
           /\ Goto("test", IF ready THEN "popLabel" ELSE "usleep")
           /\ UNCHANGED workVars

(* run() *)
GenPopLabel == /\ labels > 0
               /\ Goto("popLabel", "generate")
               /\ labels' = labels - 1
               /\ left' = LabelFrames
               /\ UNCHANGED <<ready, frames>>

GenNoLabel == /\ labels = 0
              /\ Goto("popLabel", "sleepEmpty")
              /\ UNCHANGED workVars

GenFrame == /\ left > 0 /\ frames < maxFrameQueueLen
            /\ Goto("generate", "generate")
            /\ left' = left - 1
            /\ frames' = frames + 1
            /\ UNCHANGED <<ready, labels>>

GenFull == /\ left > 0 /\ frames >= maxFrameQueueLen
           /\ Goto("generate", "sleepFull")
           /\ UNCHANGED workVars

GenDone == /\ left = 0
           /\ Goto("generate", "usleep")
           /\ UNCHANGED workVars

(* The three usleep() of the loop *)

(* mutant of GenWakeFull: a full queue ends generate() *)
GenGiveUp == /\ ~Cancelling
             /\ Goto("sleepFull", "usleep")
             /\ UNCHANGED workVars

GenWakeFull == /\ ~Cancelling
               /\ Goto("sleepFull", "generate")
               /\ UNCHANGED workVars

GenWakeEmpty == /\ ~Cancelling
                /\ Goto("sleepEmpty", "usleep")
                /\ UNCHANGED workVars

GenWake == /\ ~Cancelling
           /\ Goto("usleep", "test")
           /\ UNCHANGED workVars

GenCancelled == /\ Cancelling
                /\ gen' = "exited"
                /\ UNCHANGED <<unitVars, cancelled, workVars>>

GenThread == \/ GenLoad \/ GenTest \/ GenPopLabel \/ GenNoLabel \/ GenFrame
             \/ GenFull \/ GenDone \/ GenWakeFull \/ GenWakeEmpty \/ GenWake
             \/ GenCancelled

Ctor == \/ CtorNoMage \/ CtorNoString
        \/ \E n \in 0..MaxLabels : CtorStart(n) \/ CtorNoThread(n)

DtorRest == DtorJoin \/ DtorFree \/ DtorFreeWild

SCNext == \/ Ctor \/ SCMage_next \/ DtorCancel \/ DtorCancelWild \/ DtorRest
          \/ Restart \/ GenThread \/ GenLoadFails

SCSpec == SCInit /\ [][SCNext]_scVars

(* The server plays every block and finishes a destructor it began, the    *)
(* scheduler runs the generator; nobody has to create or free units.       *)
FairSCSpec == /\ SCSpec
              /\ WF_scVars(SCMage_next) /\ WF_scVars(DtorRest)
              /\ WF_scVars(GenThread)

-----------------------------------------------------------------------------
(* Types of the unit's life: generate() never pushes into a full frame     *)
(* queue, in whatever state cancellation and destructor are.               *)
SCTypeOK == /\ server \in {"idle", "playing", "join", "free", "crashed"}
            /\ calc \in {"none", "next", "clear"}
            /\ mage \in {"none", "live"}
            /\ ownMage \in BOOLEAN /\ ownThread \in BOOLEAN
            /\ cancelled \in BOOLEAN /\ ready \in BOOLEAN
            /\ gen \in {"none", "load", "test", "popLabel", "sleepEmpty",
                        "generate", "sleepFull", "usleep", "exited"}
            /\ labels \in 0..MaxLabels
            /\ left \in 0..LabelFrames
            /\ frames \in 0..maxFrameQueueLen

(* Whoever may touch the Mage object finds it alive: the generator thread  *)
(* in every state it can be in, the calculation function whenever the      *)
(* server may call it.  Only a server that crashed is past caring.         *)
MageOutlivesUsers ==
  server # "crashed" =>
     /\ gen \notin {"none", "exited"} => mage = "live" /\ server # "free"
     /\ server = "playing" /\ calc = "next" => mage = "live"

(* pthread_join in the destructor returns, although the real-time thread   *)
(* that waits there is the one that would have made room for a generator   *)
(* blocked on a full frame queue.                                          *)
DtorReturns == (server = "join") ~> (server \in {"idle", "crashed"})

(* A unit whose thread was started, left alone, speaks its whole buffer.   *)
BufferSpoken == (calc = "next" /\ ownThread)
                   ~> \/ labels = 0 /\ left = 0 /\ frames = 0
                      \/ server # "playing"
=============================================================================
