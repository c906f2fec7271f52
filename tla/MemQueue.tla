------------------------------ MODULE MemQueue ------------------------------
(***************************************************************************)
(* mage/src/MemQueue.h, the ring buffer under the frame queue and the      *)
(* model queue, used by one thread: each method is one action.  Slots are  *)
(* numbered from 0 as in the code; the caller's array `item' is a sequence *)
(* (numbered from 1).  A request for more items than the queue holds is    *)
(* within the contract of pop and get (they clamp it); a push that does    *)
(* not fit is not (MemQueue.h:266-267), so callers push what fits.         *)
(* FrameQueue shows what two threads make of the same methods.             *)
(***************************************************************************)
EXTENDS Integers, Sequences

CONSTANTS Item,     \* what a slot holds: a Frame, a Model
          length    \* the number of slots

ASSUME LengthAssumption == length \in Nat \ {0}

VARIABLES rawData,   \* the slots
          read,      \* the slot of the oldest item
          write,     \* the next free slot
          nOfItems,  \* the number of items, a signed int
          item       \* the caller's array: the items last copied in or out

memVars == <<rawData, read, write, nOfItems, item>>

Slot == 0..(length - 1)

(* The contents of an array of n items. *)
Arrays == UNION {[1..n -> Item] : n \in 0..length}

MemQueueInit == /\ rawData \in [Slot -> Item]
                /\ read = 0
                /\ write = 0
                /\ nOfItems = 0
                /\ item = <<>>

-----------------------------------------------------------------------------
GetNumOfItems == IF nOfItems > 0 THEN nOfItems ELSE 0

IsEmpty == nOfItems <= 0

IsFull == GetNumOfItems >= length

Advance(p, n) == (p + n) % length

(* The "don't pop() further than available" clamp of pop and get. *)
Available(n) == IF n > GetNumOfItems THEN GetNumOfItems ELSE n

(* mutant of CopyIn: `remain' is what is left after `read' *)
CopyInFromRead(s) ==
  LET n == Len(s)
      remain == length - read
  IN  [j \in Slot |->
         IF j >= write /\ j - write + 1 \in 1..n THEN s[j - write + 1]
         ELSE IF j < n - remain /\ remain + j + 1 \in 1..n
         THEN s[remain + j + 1] ELSE rawData[j]]

(* memcpy into the slots from `write' on: the items that do not fit before *)
(* the end of rawData (beyond `remain') go to its start.                   *)
CopyIn(s) ==
  LET n == Len(s)
      remain == length - write
  IN  IF write + n <= length
      THEN [j \in Slot |-> IF j \in write..(write + n - 1)
                           THEN s[j - write + 1] ELSE rawData[j]]
      ELSE [j \in Slot |-> IF j >= write THEN s[j - write + 1]
                           ELSE IF j < n - remain THEN s[remain + j + 1]
                           ELSE rawData[j]]

(* memcpy of the n oldest items to the caller's array. *)
CopyOut(n) ==
  LET remain == length - read
  IN  IF read + n <= length
      THEN [k \in 1..n |-> rawData[read + k - 1]]
      ELSE [k \in 1..n |-> IF k <= remain THEN rawData[read + k - 1]
                                          ELSE rawData[k - remain - 1]]

-----------------------------------------------------------------------------
(* push( Item * item, unsigned int nItem ) *)
PushItems(s) == /\ item' = s
                /\ rawData' = CopyIn(s)
                /\ write' = Advance(write, Len(s))
                /\ nOfItems' = nOfItems + Len(s)
                /\ UNCHANGED read

(* The caller writes through next(), the slot at `write'. *)
FillNext(v) == /\ rawData' = [rawData EXCEPT ![write] = v]
               /\ UNCHANGED <<read, write, nOfItems, item>>

(* mutant of PushSlots: `write' moves one slot whatever n is *)
PushSlotsByOne(n) == /\ write' = Advance(write, 1)
                     /\ nOfItems' = nOfItems + n
                     /\ UNCHANGED <<rawData, read, item>>

(* push( unsigned int nItem ): the next n slots join the queue as they are *)
PushSlots(n) == /\ write' = Advance(write, n)
                /\ nOfItems' = nOfItems + n
                /\ UNCHANGED <<rawData, read, item>>

(* pop( Item * item, unsigned int nItem ) *)
PopItems(n) == /\ item' = CopyOut(Available(n))
               /\ read' = Advance(read, Available(n))
               /\ nOfItems' = nOfItems - Available(n)
               /\ UNCHANGED <<rawData, write>>

(* pop( unsigned int nItem ) *)
PopSlots(n) == /\ read' = Advance(read, Available(n))
               /\ nOfItems' = nOfItems - Available(n)
               /\ UNCHANGED <<rawData, write, item>>

(* get( Item * item, unsigned int nItem ) *)
GetItems(n) == /\ item' = CopyOut(Available(n))
               /\ UNCHANGED <<rawData, read, write, nOfItems>>

(* The callers' side of the contract: they push, and write to next(), only *)
(* what fits.                                                              *)
Fits(n) == n <= length - nOfItems

MemQueueNext ==
  \/ \E s \in Arrays \ {<<>>} : Fits(Len(s)) /\ PushItems(s)
  \/ \E v \in Item : ~IsFull /\ FillNext(v)
  \/ \E n \in 1..length : \/ Fits(n) /\ PushSlots(n)
                          \/ PopItems(n) \/ PopSlots(n) \/ GetItems(n)

MemQueueSpec == MemQueueInit /\ [][MemQueueNext]_memVars

-----------------------------------------------------------------------------
(* Types of the ring buffer: indices, count and what pop and get return    *)
(* stay in range, pop() and get() clamping what they are asked for.        *)
MemQueueTypeOK == /\ rawData \in [Slot -> Item]
                  /\ read \in Slot
                  /\ write \in Slot
                  /\ nOfItems \in 0..length
                  /\ item \in Arrays

(* `write' is always nOfItems slots after `read', round the ring: the      *)
(* three redundant fields agree after any sequence of calls.               *)
RingInv == write = Advance(read, nOfItems)

(* The items from `read' on, as a caller sees them. *)
Content == [k \in 1..nOfItems |-> rawData[Advance(read, k - 1)]]

Fifo == INSTANCE BoundedFifo WITH queue <- Content, next <- rawData[write]

(* Every sequence of calls whose pushes fit behaves as a bounded FIFO:     *)
(* wherever the copies wrap round the end of rawData, pop and get return   *)
(* the oldest items in order, a push appends exactly the caller's array,   *)
(* and a fill through next() is invisible until the push(n) that adds it.  *)
ImplementsFifo == Fifo!Spec
=============================================================================
