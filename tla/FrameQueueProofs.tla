-------------------------- MODULE FrameQueueProofs --------------------------
(***************************************************************************)
(* Proofs about the ring buffer and about the queue two threads make of    *)
(* it, for every ring length, set of items, number of frames and set of    *)
(* speeds.  MemQueue: its invariants, and that it implements BoundedFifo.  *)
(* FrameQueue: CountInv, which lost updates of nOfItems cannot break, and  *)
(* FifoInv, which holds until one happens.                                 *)
(***************************************************************************)
EXTENDS FrameQueue, SequenceTheorems, TLAPS

(* Advance is `%' of a sum below 2 * length: it wraps at most once. *)
LEMMA AdvanceWraps ==
  ASSUME NEW p \in Slot, NEW n \in 0..length
  PROVE  Advance(p, n) = IF p + n < length THEN p + n ELSE p + n - length
<1>1. CASE p + n < length
  BY <1>1, LengthAssumption DEF Advance, Slot
<1>2. CASE p + n >= length
  BY <1>2, LengthAssumption DEF Advance, Slot
<1> QED BY <1>1, <1>2, LengthAssumption DEF Slot

(* An index that is advanced is an index again. *)
LEMMA AdvanceInSlot ==
  ASSUME NEW p \in Slot, NEW n \in 0..length
  PROVE  Advance(p, n) \in Slot
BY AdvanceWraps, LengthAssumption DEF Slot

(* Advancing twice is advancing by the sum. *)
LEMMA AdvanceAdd ==
  ASSUME NEW p \in Slot, NEW m \in Nat, NEW n \in Nat, m + n <= length
  PROVE  Advance(Advance(p, m), n) = Advance(p, m + n)
<1> DEFINE q == Advance(p, m)
<1>1. q = IF p + m < length THEN p + m ELSE p + m - length
  BY AdvanceWraps, LengthAssumption
<1>2. q \in Slot
  BY AdvanceInSlot, LengthAssumption
<1>3. Advance(q, n) = IF q + n < length THEN q + n ELSE q + n - length
  <2> HIDE DEF q
  <2> QED BY <1>2, AdvanceWraps, LengthAssumption
<1>4. Advance(p, m + n) = IF p + (m + n) < length THEN p + (m + n)
                                                  ELSE p + (m + n) - length
  BY AdvanceWraps, LengthAssumption
<1> HIDE DEF q
<1>5. Advance(q, n) = Advance(p, m + n)
  BY <1>1, <1>2, <1>3, <1>4, LengthAssumption DEF Slot
<1> QED BY <1>5 DEF q

(* Different distances below length lead to different slots. *)
LEMMA AdvanceDistinct ==
  ASSUME NEW p \in Slot, NEW m \in 0..(length - 1), NEW n \in 0..(length - 1),
         m # n
  PROVE  Advance(p, m) # Advance(p, n)
<1>1. /\ Advance(p, m) = IF p + m < length THEN p + m ELSE p + m - length
      /\ Advance(p, n) = IF p + n < length THEN p + n ELSE p + n - length
  BY AdvanceWraps, LengthAssumption
<1> QED BY <1>1, LengthAssumption DEF Slot

-----------------------------------------------------------------------------
(* What the two memcpy of push(item, n) write: slot `write + j' gets the   *)
(* j-th item, every other slot keeps what it has.                          *)
LEMMA CopyInSlots ==
  ASSUME MemQueueTypeOK, NEW s \in Seq(Item), Len(s) <= length,
         NEW j \in Slot
  PROVE  CopyIn(s)[Advance(write, j)] =
            IF j < Len(s) THEN s[j + 1] ELSE rawData[Advance(write, j)]
<1> DEFINE w == Advance(write, j)
<1>1. Len(s) \in Nat /\ write \in Slot /\ j \in 0..length
  BY LengthAssumption DEF MemQueueTypeOK, Slot
<1>2. w = IF write + j < length THEN write + j ELSE write + j - length
  BY <1>1, AdvanceWraps
<1>3. w \in Slot
  BY <1>1, AdvanceInSlot
<1> HIDE DEF w
<1>4. CASE write + Len(s) <= length
  <2>1. CopyIn(s)[w] = IF w \in write..(write + Len(s) - 1)
                       THEN s[w - write + 1] ELSE rawData[w]
    BY <1>3, <1>4 DEF CopyIn
  <2>2. w \in write..(write + Len(s) - 1) <=> j < Len(s)
    BY <1>1, <1>2, <1>4, LengthAssumption DEF Slot
  <2>3. j < Len(s) => w - write + 1 = j + 1
    BY <1>1, <1>2, <1>4, LengthAssumption DEF Slot
  <2> QED BY <2>1, <2>2, <2>3 DEF w
<1>5. CASE write + Len(s) > length
  <2>1. CopyIn(s)[w] = IF w >= write THEN s[w - write + 1]
                       ELSE IF w < Len(s) - (length - write)
                       THEN s[(length - write) + w + 1] ELSE rawData[w]
    BY <1>1, <1>3, <1>5, LengthAssumption DEF CopyIn, Slot
  <2>2. CASE write + j < length
    BY <1>1, <1>2, <1>5, <2>1, <2>2, LengthAssumption DEF Slot, w
  <2>3. CASE write + j >= length
    <3>1. w = write + j - length /\ w < write
      BY <1>1, <1>2, <2>3, LengthAssumption DEF Slot
    <3>2. w < Len(s) - (length - write) <=> j < Len(s)
      BY <1>1, <3>1, LengthAssumption DEF Slot
    <3>3. (length - write) + w + 1 = j + 1
      BY <1>1, <3>1, LengthAssumption DEF Slot
    <3> QED BY <1>1, <1>3, <2>1, <3>1, <3>2, <3>3, LengthAssumption DEF w, Slot
  <2> QED BY <1>1, <2>2, <2>3, LengthAssumption DEF Slot
<1> QED BY <1>1, <1>4, <1>5, LengthAssumption DEF Slot

(* What the two memcpy of pop(item, n) and get(item, n) read: the n oldest *)
(* items, in order, wherever they wrap.                                    *)
LEMMA CopyOutSlots ==
  ASSUME MemQueueTypeOK, NEW n \in 0..nOfItems
  PROVE  CopyOut(n) = [k \in 1..n |-> rawData[Advance(read, k - 1)]]
<1>1. n \in 0..length /\ read \in Slot
  BY LengthAssumption DEF MemQueueTypeOK
<1>2. ASSUME NEW k \in 1..n
      PROVE  Advance(read, k - 1) = IF read + (k - 1) < length
                                    THEN read + (k - 1)
                                    ELSE read + (k - 1) - length
  BY <1>1, AdvanceWraps, LengthAssumption
<1>3. CASE read + n <= length
  <2>1. ASSUME NEW k \in 1..n PROVE Advance(read, k - 1) = read + k - 1
    BY <1>1, <1>2, <1>3, LengthAssumption DEF Slot
  <2> QED BY <1>3, <2>1 DEF CopyOut
<1>4. CASE read + n > length
  <2>1. ASSUME NEW k \in 1..n
        PROVE  Advance(read, k - 1) = IF k <= length - read
                                      THEN read + k - 1
                                      ELSE k - (length - read) - 1
    BY <1>1, <1>2, LengthAssumption DEF Slot
  <2>2. ~(read + n <= length)
    BY <1>1, <1>4, LengthAssumption DEF Slot
  <2> QED BY <2>1, <2>2 DEF CopyOut
<1> QED BY <1>1, <1>3, <1>4, LengthAssumption DEF Slot

-----------------------------------------------------------------------------
(* An array is a sequence of at most length items. *)
LEMMA ArraysAreSeqs ==
  ASSUME NEW s \in Arrays
  PROVE  /\ s \in Seq(Item)
         /\ Len(s) \in 0..length
         /\ s \in [1..Len(s) -> Item]
<1>1. PICK n \in 0..length : s \in [1..n -> Item]
  BY DEF Arrays
<1>2. s \in Seq(Item)
  BY <1>1, LengthAssumption, SeqDef
<1>3. Len(s) = n
  BY <1>1, <1>2, LengthAssumption
<1> QED BY <1>1, <1>2, <1>3

MemInv == MemQueueTypeOK /\ RingInv

(* pop and get never take more than there is. *)
LEMMA AvailableBound ==
  ASSUME MemQueueTypeOK, NEW n \in 1..length
  PROVE  /\ Available(n) \in 0..nOfItems
         /\ Available(n) = IF n <= nOfItems THEN n ELSE nOfItems
BY LengthAssumption DEF MemQueueTypeOK, Available, GetNumOfItems

(* The constructor's empty ring. *)
LEMMA MemInvInit == MemQueueInit => MemInv
<1> SUFFICES ASSUME MemQueueInit PROVE MemInv
  OBVIOUS
<1>1. item \in Arrays
  <2>1. <<>> \in [1..0 -> Item]
    OBVIOUS
  <2> QED BY <2>1, LengthAssumption DEF MemQueueInit, Arrays
<1>2. RingInv
  BY LengthAssumption, AdvanceWraps DEF MemQueueInit, RingInv, Slot
<1> QED BY <1>1, <1>2, LengthAssumption
           DEF MemInv, MemQueueInit, MemQueueTypeOK, Slot

(* What pop(item, n) and get(item, n) copy is an array of items. *)
LEMMA CopyOutIsArray ==
  ASSUME MemQueueTypeOK, NEW n \in 0..nOfItems
  PROVE  CopyOut(n) \in Arrays
<1>1. n \in 0..length /\ read \in Slot /\ rawData \in [Slot -> Item]
  BY LengthAssumption DEF MemQueueTypeOK
<1>2. \A k \in 1..n : Advance(read, k - 1) \in Slot
  BY <1>1, AdvanceInSlot, LengthAssumption
<1>3. CopyOut(n) \in [1..n -> Item]
  BY <1>1, <1>2, CopyOutSlots
<1> QED BY <1>1, <1>3 DEF Arrays

(* push(item, n) leaves every slot with an item in it. *)
LEMMA CopyInIsRing ==
  ASSUME MemQueueTypeOK, NEW s \in Arrays
  PROVE  CopyIn(s) \in [Slot -> Item]
<1>1. Len(s) \in 0..length /\ s \in [1..Len(s) -> Item]
  BY ArraysAreSeqs
<1>2. CASE write + Len(s) <= length
  BY <1>1, <1>2, LengthAssumption DEF CopyIn, MemQueueTypeOK, Slot
<1>3. CASE ~(write + Len(s) <= length)
  BY <1>1, <1>3, LengthAssumption DEF CopyIn, MemQueueTypeOK, Slot
<1> QED BY <1>2, <1>3

(* Each call that takes n <= nOfItems items keeps the indices consistent. *)
LEMMA PopKeepsRing ==
  ASSUME MemInv, NEW n \in 0..nOfItems
  PROVE  /\ Advance(read, n) \in Slot
         /\ write = Advance(Advance(read, n), nOfItems - n)
<1>1. /\ read \in Slot /\ nOfItems \in 0..length /\ n \in 0..length
      /\ write = Advance(read, nOfItems)
  BY LengthAssumption DEF MemInv, MemQueueTypeOK, RingInv
<1>2. Advance(Advance(read, n), nOfItems - n) = Advance(read, n + (nOfItems - n))
  BY <1>1, AdvanceAdd, LengthAssumption
<1> QED BY <1>1, <1>2, AdvanceInSlot, LengthAssumption

(* ... and so does a push of n items that fit. *)
LEMMA PushKeepsRing ==
  ASSUME MemInv, NEW n \in 0..(length - nOfItems)
  PROVE  /\ Advance(write, n) \in Slot
         /\ Advance(write, n) = Advance(read, nOfItems + n)
         /\ nOfItems + n \in 0..length
<1>1. /\ read \in Slot /\ write \in Slot /\ nOfItems \in 0..length
      /\ n \in 0..length /\ write = Advance(read, nOfItems)
  BY LengthAssumption DEF MemInv, MemQueueTypeOK, RingInv
<1> QED BY <1>1, AdvanceAdd, AdvanceInSlot, LengthAssumption

(* Every call preserves the invariant. *)
LEMMA MemInvStep == MemInv /\ [MemQueueNext]_memVars => MemInv'
<1> SUFFICES ASSUME MemInv, [MemQueueNext]_memVars PROVE MemInv'
  OBVIOUS
<1> USE LengthAssumption
<1>t. MemQueueTypeOK /\ RingInv
  BY DEF MemInv
<1>1. ASSUME NEW s \in Arrays, Fits(Len(s)), PushItems(s) PROVE MemInv'
  <2>1. Len(s) \in 0..(length - nOfItems)
    BY <1>1, <1>t, ArraysAreSeqs DEF Fits, MemQueueTypeOK
  <2>2. rawData' \in [Slot -> Item]
    BY <1>1, <1>t, CopyInIsRing DEF PushItems
  <2> QED BY <1>1, <1>t, <2>1, <2>2, PushKeepsRing, ArraysAreSeqs
             DEF PushItems, MemInv, MemQueueTypeOK, RingInv, Advance
<1>2. ASSUME NEW v \in Item, FillNext(v) PROVE MemInv'
  BY <1>2, <1>t DEF FillNext, MemInv, MemQueueTypeOK, RingInv, Advance
<1>3. ASSUME NEW n \in 1..length, Fits(n), PushSlots(n) PROVE MemInv'
  <2>1. n \in 0..(length - nOfItems)
    BY <1>3, <1>t DEF Fits, MemQueueTypeOK
  <2> QED BY <1>3, <1>t, <2>1, PushKeepsRing
             DEF PushSlots, MemInv, MemQueueTypeOK, RingInv, Advance
<1>4. ASSUME NEW n \in 1..length, PopItems(n) PROVE MemInv'
  <2>1. Available(n) \in 0..nOfItems /\ nOfItems \in 0..length
    BY <1>t, AvailableBound DEF MemQueueTypeOK
  <2>2. item' \in Arrays
    BY <1>4, <1>t, <2>1, CopyOutIsArray DEF PopItems
  <2>3. nOfItems - Available(n) \in 0..length
    BY <2>1
  <2> QED BY <1>4, <1>t, <2>1, <2>2, <2>3, PopKeepsRing
             DEF PopItems, MemInv, MemQueueTypeOK, RingInv
<1>5. ASSUME NEW n \in 1..length, PopSlots(n) PROVE MemInv'
  <2>1. Available(n) \in 0..nOfItems /\ nOfItems \in 0..length
    BY <1>t, AvailableBound DEF MemQueueTypeOK
  <2>2. nOfItems - Available(n) \in 0..length
    BY <2>1
  <2> QED BY <1>5, <1>t, <2>1, <2>2, PopKeepsRing
             DEF PopSlots, MemInv, MemQueueTypeOK, RingInv
<1>6. ASSUME NEW n \in 1..length, GetItems(n) PROVE MemInv'
  <2>1. item' \in Arrays
    BY <1>6, <1>t, AvailableBound, CopyOutIsArray DEF GetItems
  <2> QED BY <1>6, <1>t, <2>1
             DEF GetItems, MemInv, MemQueueTypeOK, RingInv, Advance
<1>7. CASE UNCHANGED memVars
  BY <1>7, <1>t DEF memVars, MemInv, MemQueueTypeOK, RingInv, Advance
<1> QED BY <1>1, <1>2, <1>3, <1>4, <1>5, <1>6, <1>7 DEF MemQueueNext

(* MemQueue's type invariant. *)
THEOREM MemQueueTypeCorrect == MemQueueSpec => []MemQueueTypeOK
<1>1. MemInv => MemQueueTypeOK
  BY DEF MemInv
<1> QED BY <1>1, MemInvInit, MemInvStep, PTL DEF MemQueueSpec

(* read, write and nOfItems agree after every sequence of calls. *)
THEOREM RingConsistent == MemQueueSpec => []RingInv
<1>1. MemInv => RingInv
  BY DEF MemInv
<1> QED BY <1>1, MemInvInit, MemInvStep, PTL DEF MemQueueSpec

-----------------------------------------------------------------------------
(* The refinement of BoundedFifo under queue <- Content. *)

(* The n items from slot r on are a sequence. *)
LEMMA ItemsAreSeq ==
  ASSUME NEW raw \in [Slot -> Item], NEW r \in Slot, NEW n \in 0..length
  PROVE  LET c == [k \in 1..n |-> raw[Advance(r, k - 1)]]
         IN  c \in Seq(Item) /\ Len(c) = n
<1> DEFINE c == [k \in 1..n |-> raw[Advance(r, k - 1)]]
<1>1. \A k \in 1..n : Advance(r, k - 1) \in Slot
  BY AdvanceInSlot, LengthAssumption
<1>2. c \in [1..n -> Item]
  BY <1>1
<1> HIDE DEF c
<1>3. c \in Seq(Item)
  BY <1>2, SeqDef, LengthAssumption
<1>4. Len(c) = n
  BY <1>2, <1>3, LenProperties, LengthAssumption
<1> QED BY <1>3, <1>4 DEF c

(* What the callers see is a sequence of nOfItems items, before ... *)
LEMMA ContentIsSeq ==
  ASSUME MemQueueTypeOK
  PROVE  /\ Content \in Seq(Item)
         /\ Len(Content) = nOfItems
         /\ \A k \in 1..nOfItems : Content[k] = rawData[Advance(read, k - 1)]
BY ItemsAreSeq DEF Content, MemQueueTypeOK

(* ... and after a call. *)
LEMMA ContentIsSeqNext ==
  ASSUME MemQueueTypeOK'
  PROVE  /\ Content' \in Seq(Item)
         /\ Len(Content') = nOfItems'
         /\ \A k \in 1..nOfItems' : Content'[k] = rawData'[Advance(read', k - 1)]
BY ItemsAreSeq DEF Content, MemQueueTypeOK

(* The slots that are not in the queue are the ones from `write' on: the   *)
(* k-th oldest item is length - nOfItems + k - 1 slots after `write'.      *)
LEMMA ContentBehindWrite ==
  ASSUME MemInv, NEW k \in 1..nOfItems
  PROVE  /\ length - nOfItems + k - 1 \in Slot
         /\ Advance(read, k - 1) = Advance(write, length - nOfItems + k - 1)
<1> DEFINE d == length - nOfItems + k - 1
<1>1. /\ read \in Slot /\ nOfItems \in 0..length /\ k - 1 \in 0..length
      /\ write = Advance(read, nOfItems) /\ write \in Slot
      /\ d \in 0..length /\ d \in Slot
  BY LengthAssumption DEF MemInv, MemQueueTypeOK, RingInv, Slot
<1>2. write = IF read + nOfItems < length THEN read + nOfItems
                                          ELSE read + nOfItems - length
  BY <1>1, AdvanceWraps
<1>3. Advance(read, k - 1) = IF read + (k - 1) < length THEN read + (k - 1)
                                                   ELSE read + (k - 1) - length
  BY <1>1, AdvanceWraps
<1>4. Advance(write, d) = IF write + d < length THEN write + d
                                                ELSE write + d - length
  <2> HIDE DEF d
  <2> QED BY <1>1, AdvanceWraps
<1>5. Advance(read, k - 1) = Advance(write, d)
  BY <1>1, <1>2, <1>3, <1>4, LengthAssumption DEF Slot
<1> QED BY <1>1, <1>5

(* If the n slots from `write' on hold s and no other slot changed, a push *)
(* of n slots appends s to the queue.                                      *)
LEMMA PushAppends ==
  ASSUME MemInv, MemQueueTypeOK', NEW s \in Seq(Item),
         Len(s) \in 0..(length - nOfItems),
         nOfItems' = nOfItems + Len(s), read' = read,
         \A j \in Slot : rawData'[Advance(write, j)] =
               IF j < Len(s) THEN s[j + 1] ELSE rawData[Advance(write, j)]
  PROVE  Content' = Content \o s
<1>1. /\ read \in Slot /\ nOfItems \in 0..length /\ MemQueueTypeOK
      /\ write = Advance(read, nOfItems)
  BY DEF MemInv, MemQueueTypeOK, RingInv
<1>2. /\ Content \in Seq(Item) /\ Len(Content) = nOfItems
      /\ \A k \in 1..nOfItems : Content[k] = rawData[Advance(read, k - 1)]
  BY <1>1, ContentIsSeq
<1>3. /\ Content' \in Seq(Item) /\ Len(Content') = nOfItems'
      /\ \A k \in 1..nOfItems' : Content'[k] = rawData'[Advance(read, k - 1)]
  BY ContentIsSeqNext
<1>4. /\ Content \o s \in Seq(Item)
      /\ Len(Content \o s) = nOfItems + Len(s)
      /\ \A i \in 1..(nOfItems + Len(s)) :
            (Content \o s)[i] = IF i <= nOfItems THEN Content[i]
                                                 ELSE s[i - nOfItems]
  BY <1>2, ConcatProperties
<1>5. ASSUME NEW i \in 1..(nOfItems + Len(s))
      PROVE  Content'[i] = (Content \o s)[i]
  <2>1. CASE i <= nOfItems
    <3>1. i \in 1..nOfItems
      BY <2>1, <1>1
    <3>2. /\ length - nOfItems + i - 1 \in Slot
          /\ Advance(read, i - 1) = Advance(write, length - nOfItems + i - 1)
      BY <3>1, ContentBehindWrite
    <3>3. ~(length - nOfItems + i - 1 < Len(s))
      BY <3>1, <1>1, LengthAssumption
    <3>4. rawData'[Advance(read, i - 1)] = rawData[Advance(read, i - 1)]
      BY <3>2, <3>3
    <3> QED BY <1>2, <1>3, <1>4, <2>1, <3>1, <3>4
  <2>2. CASE i > nOfItems
    <3> DEFINE j == i - 1 - nOfItems
    <3>1. j \in Slot /\ j < Len(s) /\ j + 1 = i - nOfItems
      BY <2>2, <1>1, LengthAssumption DEF Slot
    <3>2. Advance(write, j) = Advance(read, i - 1)
      <4>1. nOfItems \in Nat /\ j \in Nat /\ nOfItems + j <= length
            /\ nOfItems + j = i - 1
        BY <2>2, <3>1, <1>1, LengthAssumption DEF Slot
      <4> HIDE DEF j
      <4> QED BY <4>1, <1>1, AdvanceAdd
    <3>3. rawData'[Advance(read, i - 1)] = s[i - nOfItems]
      BY <3>1, <3>2
    <3> QED BY <1>1, <1>3, <1>4, <2>2, <3>3
  <2>3. i <= nOfItems \/ i > nOfItems
    BY <1>1, LengthAssumption
  <2> QED BY ONLY <2>1, <2>2, <2>3
<1> QED BY <1>3, <1>4, <1>5, SeqEqual

(* Advancing `read' by n drops the n oldest items. *)
LEMMA PopDrops ==
  ASSUME MemInv, MemQueueTypeOK', NEW n \in 0..nOfItems,
         read' = Advance(read, n), nOfItems' = nOfItems - n, rawData' = rawData
  PROVE  Content' = SubSeq(Content, n + 1, Len(Content))
<1>1. read \in Slot /\ nOfItems \in 0..length /\ MemQueueTypeOK /\ n \in Nat
  BY LengthAssumption DEF MemInv, MemQueueTypeOK
<1>2. /\ Content \in Seq(Item) /\ Len(Content) = nOfItems
      /\ \A k \in 1..nOfItems : Content[k] = rawData[Advance(read, k - 1)]
  BY <1>1, ContentIsSeq
<1>3. /\ Content' \in Seq(Item) /\ Len(Content') = nOfItems - n
      /\ \A k \in 1..(nOfItems - n) :
            Content'[k] = rawData[Advance(Advance(read, n), k - 1)]
  BY ContentIsSeqNext
<1> DEFINE rest == SubSeq(Content, n + 1, nOfItems)
<1>4. \A i \in (n + 1)..nOfItems : Content[i] \in Item
  BY <1>1, <1>2, ElementOfSeq
<1>5. /\ rest \in Seq(Item)
      /\ Len(rest) = IF n + 1 <= nOfItems THEN nOfItems - (n + 1) + 1 ELSE 0
      /\ \A i \in 1..(nOfItems - (n + 1) + 1) : rest[i] = Content[n + 1 + i - 1]
  <2> HIDE DEF rest
  <2>1. n + 1 \in Int /\ nOfItems \in Int
    BY <1>1
  <2> QED BY <1>4, <2>1, SubSeqProperties DEF rest
<1> HIDE DEF rest
<1>6. Len(rest) = nOfItems - n
  BY <1>1, <1>5
<1>7. ASSUME NEW k \in 1..(nOfItems - n) PROVE Content'[k] = rest[k]
  <2>1. k \in Int /\ k - 1 \in Nat /\ n + (k - 1) <= length
    BY <1>1, LengthAssumption
  <2>2. Advance(Advance(read, n), k - 1) = Advance(read, n + (k - 1))
    BY <2>1, <1>1, AdvanceAdd
  <2>3. n + k \in 1..nOfItems /\ n + (k - 1) = n + k - 1 /\ n + 1 + k - 1 = n + k
        /\ k \in 1..(nOfItems - (n + 1) + 1)
    BY <2>1, <1>1
  <2>4. Content[n + k] = rawData[Advance(read, n + k - 1)]
    BY <2>3, <1>2
  <2>5. rest[k] = Content[n + k]
    BY <2>3, <1>5
  <2> QED BY <1>3, <2>2, <2>3, <2>4, <2>5
<1>8. Content' = rest
  BY <1>3, <1>5, <1>6, <1>7, SeqEqual
<1> QED BY <1>2, <1>8 DEF rest

(* What pop(item, n) and get(item, n) copy are the n oldest items. *)
LEMMA CopyOutTakes ==
  ASSUME MemInv, NEW n \in 0..nOfItems
  PROVE  CopyOut(n) = SubSeq(Content, 1, n)
<1>1. /\ nOfItems \in 0..length /\ MemQueueTypeOK /\ n \in Nat
      /\ n \in 0..length /\ read \in Slot /\ rawData \in [Slot -> Item]
  BY LengthAssumption DEF MemInv, MemQueueTypeOK
<1>2. /\ Content \in Seq(Item) /\ Len(Content) = nOfItems
      /\ \A k \in 1..nOfItems : Content[k] = rawData[Advance(read, k - 1)]
  BY <1>1, ContentIsSeq
<1> DEFINE c == [k \in 1..n |-> rawData[Advance(read, k - 1)]]
           first == SubSeq(Content, 1, n)
<1>3. CopyOut(n) = c
  BY <1>1, CopyOutSlots
<1>4. c \in Seq(Item) /\ Len(c) = n
  BY <1>1, ItemsAreSeq
<1>5. \A i \in 1..n : Content[i] \in Item
  BY <1>1, <1>2, ElementOfSeq
<1>6. /\ first \in Seq(Item)
      /\ Len(first) = IF 1 <= n THEN n - 1 + 1 ELSE 0
      /\ \A i \in 1..(n - 1 + 1) : first[i] = Content[1 + i - 1]
  <2> HIDE DEF first
  <2> QED BY <1>1, <1>5, SubSeqProperties DEF first
<1>7. \A i \in 1..n : c[i] = first[i]
  <2> SUFFICES ASSUME NEW i \in 1..n PROVE c[i] = first[i]
    OBVIOUS
  <2>1. c[i] = rawData[Advance(read, i - 1)]
    OBVIOUS
  <2> HIDE DEF c, first
  <2>2. i \in 1..nOfItems /\ i \in 1..(n - 1 + 1) /\ 1 + i - 1 = i
    BY <1>1
  <2> QED BY <1>2, <1>6, <2>1, <2>2
<1> HIDE DEF c, first
<1>8. c = first
  BY <1>1, <1>4, <1>6, <1>7, SeqEqual
<1> QED BY <1>3, <1>8 DEF first

(* A new queue is an empty FIFO. *)
LEMMA FifoInit == MemQueueInit => Fifo!Init
<1> SUFFICES ASSUME MemQueueInit
             PROVE  Content = <<>> /\ item = <<>> /\ rawData[write] \in Item
  BY DEF Fifo!Init
<1>1. MemQueueTypeOK /\ nOfItems = 0 /\ item = <<>>
  BY MemInvInit DEF MemInv, MemQueueInit
<1>2. Content \in Seq(Item) /\ Len(Content) = 0
  BY <1>1, ContentIsSeq
<1>3. rawData[write] \in Item
  BY <1>1 DEF MemQueueTypeOK
<1> QED BY <1>1, <1>2, <1>3, EmptySeq

(* Every call is a step of the FIFO, or leaves it alone. *)
LEMMA FifoStep ==
  MemInv /\ MemInv' /\ [MemQueueNext]_memVars => [Fifo!Next]_Fifo!vars
<1> SUFFICES ASSUME MemInv, MemInv', [MemQueueNext]_memVars
             PROVE  [Fifo!Next]_Fifo!vars
  OBVIOUS
<1>t. MemQueueTypeOK /\ MemQueueTypeOK' /\ RingInv
  BY DEF MemInv
<1>n. nOfItems \in 0..length /\ write \in Slot /\ Len(Content) = nOfItems
  BY <1>t, ContentIsSeq DEF MemQueueTypeOK
<1>a. ASSUME NEW n \in 1..length
      PROVE  /\ Available(n) \in 0..nOfItems
             /\ Available(n) = Fifo!Least(n, Len(Content))
  BY <1>t, <1>n, AvailableBound DEF Fifo!Least
<1>s. rawData[write] \in Item /\ rawData[write]' \in Item
  BY <1>t DEF MemQueueTypeOK
<1>1. ASSUME NEW s \in Arrays \ {<<>>}, Fits(Len(s)), PushItems(s)
      PROVE  Fifo!PushCopy
  <2>1. s \in Seq(Item) /\ Len(s) \in 0..length
    BY ArraysAreSeqs
  <2>2. Len(s) \in 1..(length - nOfItems)
    BY <1>1, <1>n, <2>1, EmptySeq, LengthAssumption DEF Fits
  <2>3. \A j \in Slot : rawData'[Advance(write, j)] =
              IF j < Len(s) THEN s[j + 1] ELSE rawData[Advance(write, j)]
    BY <1>1, <1>t, <2>1, CopyInSlots DEF PushItems
  <2>4. Content' = Content \o s
    BY <1>1, <1>t, <2>1, <2>2, <2>3, PushAppends, LengthAssumption DEF PushItems
  <2> QED BY <1>1, <1>n, <1>s, <2>1, <2>2, <2>4 DEF PushItems, Fifo!PushCopy
<1>2. ASSUME NEW v \in Item, ~IsFull, FillNext(v) PROVE Fifo!Fill
  <2>1. nOfItems < length
    BY <1>2, <1>n, LengthAssumption DEF IsFull, GetNumOfItems
  <2>2. ASSUME NEW k \in 1..nOfItems
        PROVE  rawData'[Advance(read, k - 1)] = rawData[Advance(read, k - 1)]
    <3>1. k - 1 \in 0..(length - 1) /\ nOfItems \in 0..(length - 1)
          /\ k - 1 # nOfItems /\ k - 1 \in 0..length
      BY <2>1, <1>n, LengthAssumption
    <3>2. read \in Slot /\ write = Advance(read, nOfItems)
      BY <1>t DEF MemQueueTypeOK, RingInv
    <3>3. Advance(read, k - 1) # write /\ Advance(read, k - 1) \in Slot
      BY <3>1, <3>2, AdvanceDistinct, AdvanceInSlot
    <3> QED BY <1>2, <1>t, <3>3 DEF FillNext, MemQueueTypeOK
  <2>3. read' = read /\ nOfItems' = nOfItems /\ item' = item
    BY <1>2 DEF FillNext
  <2>4. Content' = Content
    BY <2>2, <2>3 DEF Content
  <2> QED BY <1>n, <1>s, <2>1, <2>3, <2>4 DEF Fifo!Fill
<1>3. ASSUME NEW n \in 1..length, Fits(n), PushSlots(n) PROVE Fifo!Push
  <2> DEFINE s == [k \in 1..n |-> rawData[Advance(write, k - 1)]]
  <2>1. n \in 0..length /\ rawData \in [Slot -> Item]
    BY <1>t, LengthAssumption DEF MemQueueTypeOK
  <2>2. s \in Seq(Item) /\ Len(s) = n
    BY <1>n, <2>1, ItemsAreSeq
  <2>3. \A j \in Slot : rawData'[Advance(write, j)] =
              IF j < n THEN s[j + 1] ELSE rawData[Advance(write, j)]
    BY <1>3, LengthAssumption DEF PushSlots, Slot
  <2>a. s[1] = rawData[Advance(write, 0)] /\ Advance(write, 0) = write
    BY <1>n, AdvanceWraps, LengthAssumption DEF Slot
  <2> HIDE DEF s
  <2>4. Len(s) \in 1..(length - nOfItems)
    BY <1>3, <1>n, <2>2, LengthAssumption DEF Fits
  <2>5. Content' = Content \o s
    BY <1>3, <1>t, <2>2, <2>3, <2>4, PushAppends, LengthAssumption DEF PushSlots
  <2>6. s \in [1..Len(s) -> Item]
    BY <2>2, LenProperties
  <2> QED BY <1>3, <1>n, <1>s, <2>a, <2>4, <2>5, <2>6 DEF PushSlots, Fifo!Push
<1>4. ASSUME NEW n \in 1..length, PopItems(n) PROVE Fifo!PopCopy
  <2>1. Content' = Fifo!Dropped(n)
    BY <1>4, <1>t, <1>a, PopDrops DEF PopItems, Fifo!Dropped
  <2>2. item' = Fifo!Taken(n)
    BY <1>4, <1>a, CopyOutTakes DEF PopItems, Fifo!Taken
  <2> QED BY <1>4, <2>1, <2>2 DEF Fifo!PopCopy, PopItems
<1>5. ASSUME NEW n \in 1..length, PopSlots(n) PROVE Fifo!Pop
  <2>1. Content' = Fifo!Dropped(n)
    BY <1>5, <1>t, <1>a, PopDrops DEF PopSlots, Fifo!Dropped
  <2> QED BY <1>5, <2>1 DEF Fifo!Pop, PopSlots
<1>6. ASSUME NEW n \in 1..length, GetItems(n) PROVE Fifo!Get
  <2>1. item' = Fifo!Taken(n)
    BY <1>6, <1>a, CopyOutTakes DEF GetItems, Fifo!Taken
  <2>2. Content' = Content
    BY <1>6 DEF GetItems, Content, Advance
  <2> QED BY <1>6, <2>1, <2>2 DEF Fifo!Get, GetItems
<1>7. ASSUME UNCHANGED memVars PROVE UNCHANGED Fifo!vars
  BY <1>7 DEF memVars, Fifo!vars, Content, Advance
<1> QED BY <1>1, <1>2, <1>3, <1>4, <1>5, <1>6, <1>7 DEF MemQueueNext, Fifo!Next

(* MemQueue implements a bounded FIFO, for every length and item type. *)
THEOREM MemQueueImplementsFifo == MemQueueSpec => ImplementsFifo
<1>1. MemQueueSpec => []MemInv
  BY MemInvInit, MemInvStep, PTL DEF MemQueueSpec
<1> QED BY <1>1, FifoInit, FifoStep, PTL
           DEF MemQueueSpec, ImplementsFifo, Fifo!Spec

-----------------------------------------------------------------------------
(* CountInv: the range of nOfItems together with what the threads hold in  *)
(* their registers and concluded from it.                                  *)
CountInv == /\ FrameTypeOK
            /\ CountInRange
            /\ ChecksStayValid
            /\ gen = "store" => genCount \in 0..(length - 1)
            /\ audio = "store" => audioCount \in 1..length
            /\ gen \in {"fill", "push"} => pushed < MaxFrames

(* The queue starts empty, with no thread in the middle of an update. *)
LEMMA CountInvInit == FrameInit => CountInv
<1> SUFFICES ASSUME FrameInit PROVE CountInv
  OBVIOUS
<1>1. item \in Seq(Item)
  BY DEF FrameInit
<1>2. raced \in BOOLEAN
  BY Zenon DEF FrameInit
<1>3. rawData \in [Slot -> Item] /\ read \in Slot /\ write \in Slot
  BY LengthAssumption, FrameAssumption DEF FrameInit, Slot
<1>4. sampleCount \in 0..(maxHopLen - 1) /\ hopLen \in 1..maxHopLen
  BY SpeedAssumption DEF FrameInit
<1>5. FrameTypeOK
  BY <1>1, <1>2, <1>3, <1>4, FrameAssumption
     DEF FrameInit, FrameTypeOK, GenStates, AudioStates
<1> QED
  BY <1>5, LengthAssumption
     DEF FrameInit, CountInv, CountInRange, ChecksStayValid

(* setSpeed's clamp keeps hopLen in range whatever it is asked for. *)
LEMMA ClampInRange ==
  ASSUME NEW hop \in Int PROVE Clamp(hop) \in 1..maxHopLen
BY SpeedAssumption DEF Clamp

(* Every step of either thread preserves CountInv. *)
LEMMA CountInvStep == CountInv /\ [FrameNext]_frameVars => CountInv'
<1> SUFFICES ASSUME CountInv, [FrameNext]_frameVars PROVE CountInv'
  OBVIOUS
<1> USE LengthAssumption, FrameAssumption, SpeedAssumption
<1> USE DEF CountInv, CountInRange, ChecksStayValid, FrameTypeOK, GenStates,
            AudioStates, memVars, genVars, audioVars
<1>1. CASE GenWait
  BY <1>1 DEF GenWait, IsFull, GetNumOfItems
<1>2. CASE GenWake
  BY <1>2 DEF GenWake
<1>3. CASE GenFill
  BY <1>3 DEF GenFill
<1>4. CASE GenPush
  BY <1>4, AdvanceInSlot DEF GenPush
<1>5. CASE GenLoad
  BY <1>5 DEF GenLoad
<1>6. CASE GenStore
  BY <1>6 DEF GenStore
<1>7. CASE Sample
  BY <1>7 DEF Sample
<1>8. CASE HopEmpty
  BY <1>8 DEF HopEmpty
<1>9. CASE HopFrame
  BY <1>9 DEF HopFrame, IsEmpty
<1>10. CASE AudioGet
  BY <1>10 DEF AudioGet
<1>11. CASE AudioClamp
  BY <1>11 DEF AudioClamp, Available, GetNumOfItems
<1>12. CASE AudioPop
  BY <1>12, AdvanceInSlot DEF AudioPop
<1>13. CASE AudioLoad
  BY <1>13 DEF AudioLoad
<1>14. CASE AudioStore
  BY <1>14 DEF AudioStore
<1>15. CASE SpeedChange
  <2>1. PICK speed \in Speeds,
             action \in {"overwrite", "shift", "scale", "noaction"} :
                SetSpeed(speed, action)
    BY <1>15 DEF SpeedChange
  <2>2. AskedHopLen(speed, action) \in Int
    BY DEF AskedHopLen
  <2>3. Clamp(AskedHopLen(speed, action)) \in 1..maxHopLen
    BY <2>2, ClampInRange
  <2> QED BY <2>1, <2>3 DEF SetSpeed
<1>16. CASE UNCHANGED frameVars
  BY <1>16 DEF frameVars
<1> QED
  BY <1>1, <1>2, <1>3, <1>4, <1>5, <1>6, <1>7, <1>8, <1>9, <1>10, <1>11,
     <1>12, <1>13, <1>14, <1>15, <1>16
     DEF FrameNext, Generator, UpdateSamples

(* CountInv holds of every run. *)
LEMMA CountInvariant == FrameSpec => []CountInv
BY CountInvInit, CountInvStep, PTL DEF FrameSpec

(* FrameQueue's type invariant. *)
THEOREM FrameTypeCorrect == FrameSpec => []FrameTypeOK
<1>1. CountInv => FrameTypeOK
  BY DEF CountInv
<1> QED BY <1>1, CountInvariant, PTL

(* The two threads' unsynchronised updates of nOfItems can lose counts but *)
(* never drive the count below 0 or above length.                          *)
THEOREM CountStaysInRange == FrameSpec => []CountInRange
<1>1. CountInv => CountInRange
  BY DEF CountInv
<1> QED BY <1>1, CountInvariant, PTL

(* isFull() and isEmpty() answers stay true until they are acted on. *)
THEOREM ChecksAreStable == FrameSpec => []ChecksStayValid
<1>1. CountInv => ChecksStayValid
  BY DEF CountInv
<1> QED BY <1>1, CountInvariant, PTL

-----------------------------------------------------------------------------
(* FifoInv: what the ring holds as long as no update was lost.  nOfItems   *)
(* is the number of frames in the ring but for the thread that moved its   *)
(* index and did not store the count yet.                                  *)
Occupancy == pushed - popped

CountExact == nOfItems = Occupancy
                         - (IF gen \in {"load", "store"} THEN 1 ELSE 0)
                         + (IF audio \in {"load", "store"} THEN 1 ELSE 0)

RingExact == /\ Occupancy \in 0..length
             /\ write = Advance(read, Occupancy)

SlotsExact == \A k \in 0..(length - 1) :
                 k < Occupancy => rawData[Advance(read, k)] = popped + 1 + k

HandoverExact == /\ gen = "push" => rawData[write] = pushed + 1
                 /\ audio = "clamp" => item = <<popped + 1>>

FifoInv == ~raced => CountExact /\ RingExact /\ SlotsExact /\ HandoverExact

(* The empty ring. *)
LEMMA FifoInvInit == FrameInit => FifoInv
<1> SUFFICES ASSUME FrameInit PROVE FifoInv
  OBVIOUS
<1>1. CountExact /\ HandoverExact
  BY DEF FrameInit, CountExact, HandoverExact, Occupancy
<1>2. RingExact /\ SlotsExact
  BY LengthAssumption, AdvanceWraps
     DEF FrameInit, RingExact, SlotsExact, Occupancy, Slot
<1> QED BY <1>1, <1>2 DEF FifoInv

(* A step that leaves the ring, the counts and the ghosts alone and moves  *)
(* neither thread past an update preserves FifoInv.                        *)
LEMMA FifoInvStep ==
  CountInv /\ FifoInv /\ [FrameNext]_frameVars => FifoInv'
<1> SUFFICES ASSUME CountInv, FifoInv, [FrameNext]_frameVars, ~raced'
             PROVE  (CountExact /\ RingExact /\ SlotsExact /\ HandoverExact)'
  BY DEF FifoInv
<1> USE LengthAssumption
<1>a. ~raced
  BY Zenon DEF FrameNext, Generator, UpdateSamples, SpeedChange, SetSpeed,
     GenWait, GenWake, GenFill, GenPush, GenLoad, GenStore, Sample, HopEmpty,
     HopFrame, AudioGet, AudioClamp, AudioPop, AudioLoad, AudioStore, frameVars
<1>b. CountExact /\ RingExact /\ SlotsExact /\ HandoverExact
  BY <1>a DEF FifoInv
<1>t. /\ read \in Slot /\ write \in Slot
      /\ rawData \in [Slot -> Item]
      /\ pushed \in Int /\ popped \in Int
      /\ nOfItems \in 0..length
      /\ ChecksStayValid
  BY FrameAssumption DEF CountInv, FrameTypeOK, CountInRange
<1> HIDE DEF CountInv
<1> USE DEF CountExact, RingExact, SlotsExact, HandoverExact, Occupancy,
            memVars, genVars, audioVars
<1>1. CASE GenWait
  BY <1>1, <1>b DEF GenWait
<1>2. CASE GenWake
  BY <1>2, <1>b DEF GenWake
<1>3. CASE GenFill
  <2>1. Occupancy < length
    BY <1>3, <1>b, <1>t DEF GenFill, ChecksStayValid
  <2>2. ASSUME NEW k \in 0..(length - 1), k < Occupancy
        PROVE  Advance(read, k) # write /\ Advance(read, k) \in Slot
    BY <2>1, <2>2, <1>b, <1>t, AdvanceDistinct, AdvanceInSlot
  <2>3. (CountExact /\ RingExact /\ HandoverExact)'
    BY <1>3, <1>b, <1>t DEF GenFill
  <2>4. SlotsExact'
    BY <1>3, <2>2, <1>b, <1>t DEF GenFill, Advance
  <2> QED BY <2>3, <2>4
<1>4. CASE GenPush
  <2>1. Occupancy \in 0..(length - 1) /\ Occupancy' = Occupancy + 1
    BY <1>4, <1>b, <1>t DEF GenPush, ChecksStayValid
  <2>2. (CountExact /\ HandoverExact)'
    BY <1>4, <1>b, <1>t DEF GenPush
  <2>3. Advance(Advance(read, Occupancy), 1) = Advance(read, Occupancy + 1)
    BY <2>1, <1>t, AdvanceAdd
  <2>4. RingExact'
    BY <1>4, <1>b, <2>1, <2>3 DEF GenPush, Advance
  <2>5. SlotsExact'
    BY <1>4, <1>b, <1>t, <2>1 DEF GenPush, Advance
  <2> QED BY <2>2, <2>4, <2>5
<1>5. CASE GenLoad
  BY <1>5, <1>b, <1>t DEF GenLoad
<1>6. CASE GenStore
  <2>1. genCount = nOfItems
    BY Zenon, <1>6 DEF GenStore
  <2> QED BY <2>1, <1>6, <1>b, <1>t DEF GenStore, Advance
<1>7. CASE Sample
  BY <1>7, <1>b, <1>t DEF Sample
<1>8. CASE HopEmpty
  BY <1>8, <1>b, <1>t DEF HopEmpty
<1>9. CASE HopFrame
  BY <1>9, <1>b, <1>t DEF HopFrame
<1>10. CASE AudioGet
  <2>1. Occupancy > 0
    BY <1>10, <1>b, <1>t DEF AudioGet, ChecksStayValid
  <2>2. rawData[Advance(read, 0)] = popped + 1
    BY <2>1, <1>b, <1>t
  <2>3. Advance(read, 0) = read
    BY <1>t, AdvanceWraps DEF Slot
  <2> QED BY <1>10, <2>2, <2>3, <1>b, <1>t DEF AudioGet, Advance
<1>11. CASE AudioClamp
  BY <1>11, <1>b, <1>t DEF AudioClamp
<1>12. CASE AudioPop
  <2>1. nItem = 1 /\ Occupancy \in 1..length /\ Occupancy' = Occupancy - 1
    BY <1>12, <1>b, <1>t DEF AudioPop, ChecksStayValid
  <2>2. (CountExact /\ HandoverExact)'
    BY <1>12, <1>b, <1>t, <2>1 DEF AudioPop
  <2>3. ASSUME NEW k \in 0..(length - 1)
        PROVE  Advance(Advance(read, 1), k) = Advance(read, k + 1)
    BY <1>t, AdvanceAdd
  <2>4. RingExact'
    BY <1>12, <1>b, <2>1, <2>3 DEF AudioPop
  <2>5. SlotsExact'
    BY <1>12, <1>b, <1>t, <2>1, <2>3 DEF AudioPop
  <2> QED BY <2>2, <2>4, <2>5
<1>13. CASE AudioLoad
  BY <1>13, <1>b, <1>t DEF AudioLoad
<1>14. CASE AudioStore
  <2>1. audioCount = nOfItems
    BY Zenon, <1>14 DEF AudioStore
  <2> QED BY <2>1, <1>14, <1>b, <1>t DEF AudioStore, ChecksStayValid, Advance
<1>15. CASE SpeedChange
  BY <1>15, <1>b, <1>t DEF SpeedChange, SetSpeed
<1>16. CASE UNCHANGED frameVars
  BY <1>16, <1>b DEF frameVars
<1> QED
  BY <1>1, <1>2, <1>3, <1>4, <1>5, <1>6, <1>7, <1>8, <1>9, <1>10, <1>11,
     <1>12, <1>13, <1>14, <1>15, <1>16
     DEF FrameNext, Generator, UpdateSamples

(* FifoInv holds of every run. *)
LEMMA FifoInvariant == FrameSpec => [](CountInv /\ FifoInv)
BY CountInvInit, CountInvStep, FifoInvInit, FifoInvStep, PTL DEF FrameSpec

(* Until an update of nOfItems is lost, the vocoder is handed every frame  *)
(* once and in the order generate() produced them.                         *)
THEOREM FramesDeliveredInOrder == FrameSpec => []FramesInOrder
<1>1. FifoInv => FramesInOrder
  BY DEF FifoInv, HandoverExact, FramesInOrder
<1> QED BY <1>1, FifoInvariant, PTL

(* Until an update of nOfItems is lost, generate() never writes into the   *)
(* slot the vocoder is reading.                                            *)
THEOREM SlotsNotShared == FrameSpec => []NoSharedSlot
<1>1. CountInv /\ FifoInv => NoSharedSlot
  <2> SUFFICES ASSUME CountInv, FifoInv, ~raced, gen = "fill", audio = "get"
               PROVE  read # write
    BY DEF NoSharedSlot
  <2>1. nOfItems < length /\ nOfItems > 0
    BY DEF CountInv, ChecksStayValid
  <2>2. nOfItems = Occupancy /\ write = Advance(read, Occupancy)
    BY DEF FifoInv, CountExact, RingExact, Occupancy, CountInv, FrameTypeOK
  <2>3. nOfItems \in 0..length /\ read \in Slot
    BY DEF CountInv, CountInRange, FrameTypeOK
  <2> QED BY <2>1, <2>2, <2>3, AdvanceWraps, LengthAssumption DEF Slot
<1> QED BY <1>1, FifoInvariant, PTL
=============================================================================
