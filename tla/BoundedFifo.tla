----------------------------- MODULE BoundedFifo -----------------------------
(***************************************************************************)
(* What a queue of mage/src/MemQueue.h promises its callers: a first-in    *)
(* first-out queue of at most `length' items.  `queue' is the content, the *)
(* oldest item first; `item' is the array the last copying call was given  *)
(* (push) or filled (pop, get); `next' is what the slot next() returns     *)
(* holds: the caller may change it, and push(n) adds it to the queue.      *)
(***************************************************************************)
EXTENDS Naturals, Sequences

CONSTANTS Item, length

VARIABLES queue, item, next

vars == <<queue, item, next>>

Least(a, b) == IF a <= b THEN a ELSE b

Init == queue = <<>> /\ item = <<>> /\ next \in Item

(* The caller's array, if it fits, is appended. *)
PushCopy == /\ item' # <<>>
            /\ Len(item') <= length - Len(queue)
            /\ queue' = queue \o item'
            /\ next' \in Item

(* The caller writes through next(). *)
Fill == /\ Len(queue) < length
        /\ next' \in Item
        /\ UNCHANGED <<queue, item>>

(* The slot of next() is appended, and n - 1 slots nobody filled. *)
Push == /\ \E n \in 1..(length - Len(queue)) :
              \E s \in [1..n -> Item] : s[1] = next /\ queue' = queue \o s
        /\ next' \in Item
        /\ UNCHANGED item

(* A request for n items takes as many as there are. *)
Taken(n) == SubSeq(queue, 1, Least(n, Len(queue)))

Dropped(n) == SubSeq(queue, Least(n, Len(queue)) + 1, Len(queue))

PopCopy == /\ \E n \in 1..length : queue' = Dropped(n) /\ item' = Taken(n)
           /\ UNCHANGED next

Pop == /\ \E n \in 1..length : queue' = Dropped(n)
       /\ UNCHANGED <<item, next>>

Get == /\ \E n \in 1..length : item' = Taken(n)
       /\ UNCHANGED <<queue, next>>

Next == PushCopy \/ Fill \/ Push \/ PopCopy \/ Pop \/ Get

Spec == Init /\ [][Next]_vars
=============================================================================
