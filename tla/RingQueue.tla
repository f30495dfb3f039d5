----------------------------- MODULE RingQueue -----------------------------
(***************************************************************************)
(* The circular buffer of pkg/utils/queue.go under the calls the server    *)
(* makes on it.  One behaviour is the life of one queue, and `use` says    *)
(* which of the server's queues it is:                                     *)
(*                                                                         *)
(*   "recent"       the dynamic queues behind the web events               *)
(*                  (network/web.go InitialData): Enqueue and ToSlice      *)
(*   "generations"  the static queue of generations                        *)
(*                  (cmd/server/server.go:122): Enqueue and ToSlice        *)
(*   "jobs"         the static job queues that ProcessJobs drains          *)
(*                  (cmd/server/server.go:344, 455-481)                    *)
(*   "interface"    a static queue whose caller makes every call the Queue *)
(*                  interface offers                                       *)
(*                                                                         *)
(* Every src/ caller enqueues one item at a time; BulkSize > 1 lets        *)
(* Enqueue take several, as its signature and the unit tests do.           *)
(***************************************************************************)
EXTENDS Integers, Sequences

CONSTANTS
  Item,      \* the values that can be queued
  Zero,      \* the zero value of the element type
  Capacity,  \* queue.capacity
  BulkSize,  \* the most items one Enqueue is given
  Uses       \* the uses under study

ASSUME CapacityAssumption == Capacity \in Nat \ {0}
ASSUME BulkAssumption     == BulkSize \in Nat \ {0}
ASSUME UsesAssumption     ==
  Uses \subseteq {"recent", "generations", "jobs", "interface"}

VARIABLES
  use,       \* which queue this is
  data,      \* queue.data, a slice of Capacity slots
  head,      \* index of the next element to dequeue
  tail,      \* index of the next slot to fill
  size,      \* number of queued elements, as the code counts them
  reply      \* what the last call returned

vars == <<use, data, head, tail, size, reply>>

Slot == 0 .. Capacity - 1

Calls(u) ==
  CASE u \in {"recent", "generations"} -> {"Enqueue", "ToSlice"}
    [] u = "jobs"                      -> {"Enqueue", "Dequeue"}
    [] u = "interface"                 -> {"Enqueue", "Dequeue", "ToSlice"}

policy == IF use = "recent" THEN "dynamic" ELSE "static"

Answer(call, status, items) ==
  [call |-> call, status |-> status, items |-> items]

IsEmpty == size = 0

\* Mutant of IsFull: >= read as >.
IsFullTooLate == size > Capacity

\* Mutant of IsFull: one slot kept free.
IsFullTooEarly == size = Capacity - 1

IsFull == size = Capacity

\* What one Enqueue may be given.
Batch == UNION {[1 .. n -> Item] : n \in 1 .. BulkSize}

\* Mutant of Next1: the index is not wrapped.
Next1Unwrapped(i) == i + 1

Next1(i) == (i + 1) % Capacity

(***************************************************************************)
(* newQueue: all slots hold the zero value.                                *)
(***************************************************************************)
Init ==
  /\ use \in Uses
  /\ data = [i \in Slot |-> Zero]
  /\ head = 0
  /\ tail = 0
  /\ size = 0
  /\ reply = Answer("none", "ok", <<>>)

(***************************************************************************)
(* Enqueue.  The outer Enqueue looks at IsFull once, before the first      *)
(* item: a static queue that is full refuses the call, a dynamic one frees *)
(* one slot whatever the number of items.  The inner Enqueue then refuses  *)
(* more than Capacity items (the freed slot stays free) and otherwise      *)
(* writes them one by one at tail without looking at size again.           *)
(***************************************************************************)
FillSlots(d, t, items) ==
  [i \in Slot |->
     LET k == 1 + ((i - t + Capacity) % Capacity)
     IN  IF k <= Len(items) THEN items[k] ELSE d[i]]

EnqueueItems(d, h, s, items) ==
  IF Len(items) > Capacity
  THEN /\ data' = d /\ head' = h /\ size' = s /\ tail' = tail
       /\ reply' = Answer("Enqueue", "error", <<>>)
  ELSE /\ data' = FillSlots(d, tail, items)
       /\ head' = h
       /\ tail' = (tail + Len(items)) % Capacity
       /\ size' = s + Len(items)
       /\ reply' = Answer("Enqueue", "ok", <<>>)

RefuseFull ==
  /\ reply' = Answer("Enqueue", "error", <<>>)
  /\ UNCHANGED <<data, head, tail, size>>

Enqueue(items) ==
  /\ "Enqueue" \in Calls(use)
  /\ UNCHANGED use
  /\ \/ IsFull /\ policy = "static"  /\ RefuseFull
     \/ IsFull /\ policy = "dynamic"
               /\ EnqueueItems([data EXCEPT ![head] = Zero],
                               Next1(head), size - 1, items)
     \/ ~IsFull /\ EnqueueItems(data, head, size, items)

(***************************************************************************)
(* Dequeue: take the element at head and zero its slot.                    *)
(***************************************************************************)
Dequeue ==
  /\ "Dequeue" \in Calls(use)
  /\ UNCHANGED <<use, tail>>
  /\ \/ /\ IsEmpty
        /\ reply' = Answer("Dequeue", "error", <<>>)
        /\ UNCHANGED <<data, head, size>>
     \/ /\ ~IsEmpty
        /\ reply' = Answer("Dequeue", "ok", <<data[head]>>)
        /\ data' = [data EXCEPT ![head] = Zero]
        /\ head' = Next1(head)
        /\ size' = size - 1

(***************************************************************************)
(* ToSlice dequeues everything from a copy whose backing slice has only    *)
(* `size` slots: a copy index of size or more is out of range and panics.  *)
(* A slot read a second time has been zeroed by the first read.            *)
(***************************************************************************)
\* Mutant of CopyReads: the copy is read from slot 0 and not from head.
CopyReadsFromZero == [k \in 1 .. size |-> k - 1]

CopyReads == [k \in 1 .. size |-> (head + k - 1) % Capacity]

Slice == [k \in 1 .. size |-> IF k > Capacity THEN Zero ELSE data[CopyReads[k]]]

ToSlice ==
  /\ "ToSlice" \in Calls(use)
  /\ reply' = IF \E k \in 1 .. size : CopyReads[k] >= size
              THEN Answer("ToSlice", "panic", <<>>)
              ELSE Answer("ToSlice", "ok", Slice)
  /\ UNCHANGED <<use, data, head, tail, size>>

Next ==
  \/ \E items \in Batch : Enqueue(items)
  \/ Dequeue
  \/ ToSlice

Spec == Init /\ [][Next]_vars

-----------------------------------------------------------------------------
(***************************************************************************)
(* Properties                                                              *)
(***************************************************************************)

Reply == [call : {"none", "Enqueue", "Dequeue", "ToSlice"},
          status : {"ok", "error", "panic"},
          items : Seq(Item \cup {Zero})]

\* Shape of the state: indices inside the slice, one value per slot.
TypeOK ==
  /\ use \in Uses
  /\ data \in [Slot -> Item \cup {Zero}]
  /\ head \in Slot
  /\ tail \in Slot
  /\ size \in Nat
  /\ reply \in Reply

\* The number of queued elements never exceeds the capacity ("capacity is
\* the maximum number of elements allowed to queue", queue.go:53).
SizeWithinCapacity == size <= Capacity

\* The slot k places behind head.
SlotAt(k) == (head + k - 1) % Capacity

\* head, tail and size describe the same ring: tail is size slots ahead of
\* head, exactly the slots in between hold items, and a queue that is only
\* read by ToSlice has wrapped around only if it is full.
RingInv ==
  /\ SizeWithinCapacity
  /\ tail = (head + size) % Capacity
  /\ \A k \in 1 .. size : data[SlotAt(k)] \in Item
  /\ \A k \in size + 1 .. Capacity : data[SlotAt(k)] = Zero
  /\ use \in {"recent", "generations"} => head = 0 \/ IsFull

\* ToSlice never indexes past its copy of the ring (queue.go:147-175): the
\* web handler and the evolution jobs call it on queues that have wrapped.
SliceNeverPanics == reply.status # "panic"

\* The contents of the ring in the order Dequeue would return them.
Contents == [k \in 1 .. size |-> data[SlotAt(k)]]

Fifo == INSTANCE BoundedFifo WITH policy <- policy, fifo <- Contents

\* Through every call, the ring is the bounded first-in-first-out queue its
\* doc comments promise, in what it keeps and in what it answers.
ImplementsFifo == Fifo!AbsSpec
=============================================================================
