----------------------------- MODULE FrameQueue -----------------------------
(***************************************************************************)
(* The frame queue of a Mage between its two threads: the generator        *)
(* (ModelQueue::generate, under SCMage_genThread) pushes one frame at a    *)
(* time, the audio callback (SCMage_next -> Mage::updateSamples) hands one *)
(* frame to the vocoder every hopLen samples.  The queue has no lock and   *)
(* nOfItems is a plain int that both threads update, so `nOfItems += 1'    *)
(* and `nOfItems -= 1' are a load and a store with the other thread's      *)
(* steps between them.  Accesses are sequentially consistent here.         *)
(*                                                                         *)
(* A frame is its number in the order of generation; 0 is a slot nothing   *)
(* was written to yet.                                                     *)
(***************************************************************************)
EXTENDS MemQueue

CONSTANTS MaxFrames,         \* bound: how many frames the labels amount to
          defaultFrameRate,  \* samples per frame at speed 1
          maxHopLen,         \* setSpeed's cap, defaultFrameRate * 20
          Speeds             \* the arguments setSpeed is called with

ASSUME FrameAssumption == /\ MaxFrames \in Nat
                          /\ Item = 0..MaxFrames
ASSUME SpeedAssumption == /\ defaultFrameRate \in Nat \ {0}
                          /\ maxHopLen \in Nat
                          /\ maxHopLen >= defaultFrameRate
                          /\ Speeds \subseteq Int

VARIABLES gen,          \* where the generator is in its loop
          genCount,     \* the register of its nOfItems += 1
          audio,        \* where the audio callback is in updateSamples
          audioCount,   \* the register of its nOfItems -= nItem
          nItem,        \* the number of items its pop() removes
          sampleCount,  \* samples since the last hop
          hopLen,       \* samples per hop
          pushed,       \* ghost: frames pushed (write advances)
          popped,       \* ghost: frames popped (read advances)
          raced         \* ghost: some store of nOfItems lost an update

genVars == <<gen, genCount, pushed>>
audioVars == <<audio, audioCount, nItem, sampleCount, hopLen, popped>>
frameVars == <<memVars, genVars, audioVars, raced>>

FrameInit == /\ rawData = [j \in Slot |-> 0]
             /\ read = 0 /\ write = 0 /\ nOfItems = 0
             /\ item = <<>>
             /\ gen = "isFull" /\ genCount = 0
             /\ audio = "sample" /\ audioCount = 0 /\ nItem = 0
             /\ sampleCount = 0 /\ hopLen = defaultFrameRate
             /\ pushed = 0 /\ popped = 0 /\ raced = FALSE

-----------------------------------------------------------------------------
(* The generator: ModelQueue::generate's loop body, a frame per round. *)

(* mutant of GenWait: isFull() is not checked *)
GenNoWait == /\ gen = "isFull"
             /\ pushed < MaxFrames
             /\ gen' = "fill"
             /\ UNCHANGED <<memVars, genCount, pushed, audioVars, raced>>

(* mutant of GenWait: the queue is taken for full one item too late *)
GenWaitLate == /\ gen = "isFull"
               /\ pushed < MaxFrames
               /\ gen' = IF nOfItems > length THEN "usleep" ELSE "fill"
               /\ UNCHANGED <<memVars, genCount, pushed, audioVars, raced>>

(* while( frameQueue->isFull() ) usleep( 1000 ); *)
GenWait == /\ gen = "isFull"
           /\ pushed < MaxFrames
           /\ gen' = IF IsFull THEN "usleep" ELSE "fill"
           /\ UNCHANGED <<memVars, genCount, pushed, audioVars, raced>>

(* mutant of GenWake: isFull() is not asked again *)
GenSleep == /\ gen = "usleep"
            /\ gen' = "usleep"
            /\ UNCHANGED <<memVars, genCount, pushed, audioVars, raced>>

GenWake == /\ gen = "usleep"
           /\ gen' = "isFull"
           /\ UNCHANGED <<memVars, genCount, pushed, audioVars, raced>>

(* mutant of GenFill: push() comes before the slot is written *)
GenFillLate == /\ gen = "fill"
               /\ gen' = "push"
               /\ rawData' = IF pushed = 0 THEN rawData
                             ELSE [rawData EXCEPT
                                     ![Advance(write, length - 1)] = pushed]
               /\ UNCHANGED <<read, write, nOfItems, item, genCount, pushed,
                              audioVars, raced>>

(* frame = next(), and the streams are written into that slot: the slot is *)
(* in use from the moment gen = "fill" until this step.                    *)
GenFill == /\ gen = "fill"
           /\ gen' = "push"
           /\ rawData' = [rawData EXCEPT ![write] = pushed + 1]
           /\ UNCHANGED <<read, write, nOfItems, item, genCount, pushed,
                          audioVars, raced>>

(* push(): the write index, then the load and the store of nOfItems *)
GenPush == /\ gen = "push"
           /\ gen' = "load"
           /\ write' = Advance(write, 1)
           /\ pushed' = pushed + 1
           /\ UNCHANGED <<rawData, read, nOfItems, item, genCount, audioVars,
                          raced>>

GenLoad == /\ gen = "load"
           /\ gen' = "store"
           /\ genCount' = nOfItems
           /\ UNCHANGED <<memVars, pushed, audioVars, raced>>

GenStore == /\ gen = "store"
            /\ gen' = "isFull"
            /\ nOfItems' = genCount + 1
            /\ raced' = (raced \/ genCount # nOfItems)
            /\ UNCHANGED <<rawData, read, write, item, genCount, pushed,
                           audioVars>>

Generator == GenWait \/ GenWake \/ GenFill \/ GenPush \/ GenLoad \/ GenStore

-----------------------------------------------------------------------------
(* The audio callback: setSpeed at the start of a block, then              *)
(* updateSamples once per sample.                                          *)

(* mutant of Clamp: the lower limit is missing *)
ClampAbove(hop) == IF hop > maxHopLen THEN maxHopLen ELSE hop

Clamp(hop) == IF hop < 1 THEN 1 ELSE IF hop > maxHopLen THEN maxHopLen ELSE hop

AskedHopLen(speed, action) == CASE action = "overwrite" -> speed
                                [] action = "shift"     -> hopLen + speed
                                [] action = "scale"     -> hopLen * speed
                                [] OTHER                -> defaultFrameRate

SetSpeed(speed, action) ==
  /\ audio = "sample"
  /\ hopLen' = Clamp(AskedHopLen(speed, action))
  /\ UNCHANGED <<memVars, genVars, audio, audioCount, nItem, sampleCount,
                 popped, raced>>

(* updateSamples between two hops, and up to the isEmpty() of a hop *)
Sample == /\ audio = "sample"
          /\ IF sampleCount >= hopLen - 1
             THEN audio' = "isEmpty" /\ UNCHANGED sampleCount
             ELSE sampleCount' = sampleCount + 1 /\ UNCHANGED audio
          /\ UNCHANGED <<memVars, genVars, audioCount, nItem, hopLen, popped,
                         raced>>

HopEmpty == /\ audio = "isEmpty" /\ IsEmpty
            /\ audio' = "sample"
            /\ sampleCount' = 0
            /\ UNCHANGED <<memVars, genVars, audioCount, nItem, hopLen, popped,
                           raced>>

(* mutant of HopFrame: isEmpty() is not checked *)
HopAnyway == /\ audio = "isEmpty"
             /\ audio' = "get"
             /\ UNCHANGED <<memVars, genVars, audioCount, nItem, sampleCount,
                            hopLen, popped, raced>>

HopFrame == /\ audio = "isEmpty" /\ ~IsEmpty
            /\ audio' = "get"
            /\ UNCHANGED <<memVars, genVars, audioCount, nItem, sampleCount,
                           hopLen, popped, raced>>

(* vocoder->push( frameQueue->get() ): prepare() reads the slot; the slot  *)
(* is in use from the moment audio = "get" until this step.                *)
AudioGet == /\ audio = "get"
            /\ audio' = "clamp"
            /\ item' = <<rawData[read]>>
            /\ UNCHANGED <<rawData, read, write, nOfItems, genVars, audioCount,
                           nItem, sampleCount, hopLen, popped, raced>>

(* pop( 1 ): the clamp, the read index, then the load and the store *)
AudioClamp == /\ audio = "clamp"
              /\ audio' = "pop"
              /\ nItem' = Available(1)
              /\ UNCHANGED <<memVars, genVars, audioCount, sampleCount, hopLen,
                             popped, raced>>

AudioPop == /\ audio = "pop"
            /\ audio' = "load"
            /\ read' = Advance(read, nItem)
            /\ popped' = popped + nItem
            /\ UNCHANGED <<rawData, write, nOfItems, item, genVars, audioCount,
                           nItem, sampleCount, hopLen, raced>>

AudioLoad == /\ audio = "load"
             /\ audio' = "store"
             /\ audioCount' = nOfItems
             /\ UNCHANGED <<memVars, genVars, nItem, sampleCount, hopLen,
                            popped, raced>>

(* ... and updateSamples resets sampleCount after pop() returns *)
AudioStore == /\ audio = "store"
              /\ audio' = "sample"
              /\ nOfItems' = audioCount - nItem
              /\ raced' = (raced \/ audioCount # nOfItems)
              /\ sampleCount' = 0
              /\ UNCHANGED <<rawData, read, write, item, genVars, audioCount,
                             nItem, hopLen, popped>>

UpdateSamples == \/ Sample \/ HopEmpty \/ HopFrame \/ AudioGet \/ AudioClamp
                 \/ AudioPop \/ AudioLoad \/ AudioStore

SpeedChange ==
  \E speed \in Speeds, action \in {"overwrite", "shift", "scale", "noaction"} :
     SetSpeed(speed, action)

FrameNext == Generator \/ UpdateSamples \/ SpeedChange

(* The audio server calls SCMage_next for every block and the scheduler    *)
(* runs the generator thread, so neither stops while it has a step to take *)
FrameFairness == WF_frameVars(Generator) /\ WF_frameVars(UpdateSamples)

FrameSpec == FrameInit /\ [][FrameNext]_frameVars

FairFrameSpec == FrameSpec /\ FrameFairness

-----------------------------------------------------------------------------
GenStates == {"isFull", "usleep", "fill", "push", "load", "store"}
AudioStates == {"sample", "isEmpty", "get", "clamp", "pop", "load", "store"}

(* Types of the two-thread queue; whatever setSpeed() is called with, the  *)
(* hop length stays positive and the sample counter below its cap.         *)
FrameTypeOK == /\ rawData \in [Slot -> Item]
               /\ read \in Slot /\ write \in Slot
               /\ nOfItems \in Int
               /\ item \in Seq(Item)
               /\ gen \in GenStates /\ genCount \in Int
               /\ audio \in AudioStates /\ audioCount \in Int
               /\ nItem \in Int
               /\ sampleCount \in 0..(maxHopLen - 1)
               /\ hopLen \in 1..maxHopLen
               /\ pushed \in 0..MaxFrames /\ popped \in Int
               /\ raced \in BOOLEAN

(* What each thread concluded from nOfItems is still true when it acts on  *)
(* it, lost updates or not: the generator's isFull() answer until it has   *)
(* loaded the count, the audio callback's isEmpty() answer until it has,   *)
(* so pop()'s clamp never shortens a pop to zero.                          *)
ChecksStayValid ==
  /\ gen \in {"fill", "push", "load"} => nOfItems < length
  /\ audio \in {"get", "clamp", "pop", "load"} => nOfItems > 0
  /\ audio \in {"pop", "load", "store"} => nItem = 1

(* nOfItems stays between 0 and length whatever updates are lost, so       *)
(* isFull() and isEmpty() never wedge a thread on an impossible count.     *)
CountInRange == nOfItems \in 0..length

(* Unless an update of nOfItems was lost, the threads never use the same   *)
(* slot: no frame is handed to the vocoder while the generator is writing  *)
(* into it.                                                                *)
NoSharedSlot == ~raced => ~(gen = "fill" /\ audio = "get" /\ read = write)

(* Unless an update of nOfItems was lost, the vocoder is handed every      *)
(* frame, once, in the order of generation.                                *)
FramesInOrder == (audio = "clamp" /\ ~raced) => item = <<popped + 1>>

(* What the comment in MemQueue::push promises of callers that check       *)
(* isFull(): `write' does not pass `read'.                                 *)
WriteNeverPassesRead == pushed - popped <= length

(* Lost updates or not, the generator's wait on a full queue always ends:  *)
(* it gets every frame out, and the audio callback then empties the queue. *)
GeneratorFinishes == <>[](pushed = MaxFrames /\ nOfItems = 0)
=============================================================================
