-------------------------- MODULE RingQueueProofs ---------------------------
(***************************************************************************)
(* Proofs about RingQueue for every capacity and every set of items.       *)
(***************************************************************************)
EXTENDS RingQueue, TLAPS

-----------------------------------------------------------------------------
(***************************************************************************)
(* Arithmetic of the ring.                                                 *)
(***************************************************************************)

LEMMA ModRange == \A x \in Nat : x % Capacity \in Slot
  BY CapacityAssumption DEF Slot

\* An index that has gone round at most once comes back by one subtraction.
LEMMA ModOnce ==
  ASSUME NEW x \in 0 .. 2 * Capacity - 1
  PROVE  x % Capacity = IF x < Capacity THEN x ELSE x - Capacity
  BY CapacityAssumption

\* The slot k places behind position h, and what it means for slots d to hold
\* s items from position h on.
At(h, k) == (h + k - 1) % Capacity

Ring(d, h, s) ==
  /\ \A k \in 1 .. s : d[At(h, k)] \in Item
  /\ \A k \in s + 1 .. Capacity : d[At(h, k)] = Zero

ItemsIn(d, h, s) == [k \in 1 .. s |-> d[At(h, k)]]

LEMMA AtValue ==
  ASSUME NEW h \in Slot, NEW k \in 1 .. Capacity + 1
  PROVE  /\ At(h, k) \in Slot
         /\ At(h, k) = IF h + k - 1 < Capacity THEN h + k - 1 ELSE h + k - 1 - Capacity
<1>1. h + k - 1 \in 0 .. 2 * Capacity - 1
  BY CapacityAssumption DEF Slot
<1> QED
  BY <1>1, ModOnce, CapacityAssumption DEF At, Slot

\* Different places are different slots.
LEMMA AtInjective ==
  ASSUME NEW h \in Slot, NEW j \in 1 .. Capacity, NEW k \in 1 .. Capacity,
         At(h, j) = At(h, k)
  PROVE  j = k
<1>1. At(h, j) = IF h + j - 1 < Capacity THEN h + j - 1 ELSE h + j - 1 - Capacity
  BY AtValue, CapacityAssumption
<1>2. At(h, k) = IF h + k - 1 < Capacity THEN h + k - 1 ELSE h + k - 1 - Capacity
  BY AtValue, CapacityAssumption
<1>3. h \in Int /\ j \in Int /\ k \in Int /\ Capacity \in Int
      /\ 0 <= h /\ h < Capacity /\ 1 <= j /\ j <= Capacity /\ 1 <= k /\ k <= Capacity
  BY CapacityAssumption DEF Slot
<1>4. CASE h + j - 1 < Capacity /\ h + k - 1 < Capacity
  <2>1. h + j - 1 = h + k - 1
    BY <1>1, <1>2, <1>4
  <2> QED
    BY <1>3, <2>1
<1>5. CASE h + j - 1 < Capacity /\ ~(h + k - 1 < Capacity)
  <2>1. h + j - 1 = h + k - 1 - Capacity
    BY <1>1, <1>2, <1>5
  <2> QED
    BY <1>3, <2>1
<1>6. CASE ~(h + j - 1 < Capacity) /\ h + k - 1 < Capacity
  <2>1. h + j - 1 - Capacity = h + k - 1
    BY <1>1, <1>2, <1>6
  <2> QED
    BY <1>3, <2>1
<1>7. CASE ~(h + j - 1 < Capacity) /\ ~(h + k - 1 < Capacity)
  <2>1. h + j - 1 - Capacity = h + k - 1 - Capacity
    BY <1>1, <1>2, <1>7
  <2> QED
    BY <1>3, <2>1
<1> QED
  BY <1>4, <1>5, <1>6, <1>7

LEMMA NextValue ==
  ASSUME NEW i \in Slot
  PROVE  Next1(i) = IF i + 1 < Capacity THEN i + 1 ELSE 0
<1>1. i + 1 \in 0 .. 2 * Capacity - 1
  BY CapacityAssumption DEF Slot
<1> QED
  BY <1>1, ModOnce, CapacityAssumption DEF Next1, Slot

\* Moving the start by one place renumbers the places by one.
LEMMA AtNext ==
  ASSUME NEW h \in Slot, NEW k \in 1 .. Capacity
  PROVE  /\ Next1(h) \in Slot
         /\ At(Next1(h), k) = At(h, k + 1)
         /\ At(Next1(h), Capacity) = h
<1>2. Next1(h) = IF h + 1 < Capacity THEN h + 1 ELSE 0
  BY NextValue
<1>3. Next1(h) \in Slot
  BY <1>2, CapacityAssumption DEF Slot
<1>4. At(Next1(h), k) = At(h, k + 1)
  BY <1>2, <1>3, AtValue, CapacityAssumption DEF Slot
<1>5. At(Next1(h), Capacity) = h
  BY <1>2, <1>3, AtValue, CapacityAssumption DEF Slot
<1> QED
  BY <1>3, <1>4, <1>5

-----------------------------------------------------------------------------
(***************************************************************************)
(* Adding one item at the tail and taking one from the head.               *)
(***************************************************************************)

LEMMA FillOne ==
  ASSUME NEW d \in [Slot -> Item \cup {Zero}], NEW t \in Slot,
         NEW items \in [1 .. 1 -> Item]
  PROVE  FillSlots(d, t, items) = [d EXCEPT ![t] = items[1]]
<1>1. Len(items) = 1
  OBVIOUS
<1>2. ASSUME NEW i \in Slot
      PROVE  (i - t + Capacity) % Capacity \in Nat
             /\ ((i - t + Capacity) % Capacity = 0 <=> i = t)
  <2>1. i - t + Capacity \in 0 .. 2 * Capacity - 1
    BY CapacityAssumption DEF Slot
  <2> QED
    BY <2>1, ModOnce, CapacityAssumption DEF Slot
<1>3. ASSUME NEW i \in Slot
      PROVE  FillSlots(d, t, items)[i] = IF i = t THEN items[1] ELSE d[i]
  <2> DEFINE k == 1 + ((i - t + Capacity) % Capacity)
  <2>1. FillSlots(d, t, items)[i] = IF k <= 1 THEN items[k] ELSE d[i]
    BY <1>1 DEF FillSlots
  <2>2. k \in Nat /\ (k <= 1 <=> i = t) /\ (k <= 1 => k = 1)
    BY <1>2
  <2> HIDE DEF k
  <2> QED
    BY <2>1, <2>2
<1> QED
  BY <1>3 DEF FillSlots

Put(d, i, v) == [d EXCEPT ![i] = v]

\* Enqueue of one item: the contents grow at the end.
LEMMA Push ==
  ASSUME NEW d \in [Slot -> Item \cup {Zero}], NEW h \in Slot,
         NEW s \in 0 .. Capacity - 1, NEW v \in Item, Ring(d, h, s)
  PROVE  /\ Ring(Put(d, At(h, s + 1), v), h, s + 1)
         /\ ItemsIn(Put(d, At(h, s + 1), v), h, s + 1) = Append(ItemsIn(d, h, s), v)
<1> DEFINE e == Put(d, At(h, s + 1), v)
<1>1. At(h, s + 1) \in Slot
  BY AtValue, CapacityAssumption
<1>2. e \in [Slot -> Item \cup {Zero}] /\ e[At(h, s + 1)] = v
  BY <1>1 DEF Put
<1>3. ASSUME NEW k \in 1 .. Capacity, k # s + 1
      PROVE  e[At(h, k)] = d[At(h, k)]
  <2>1. At(h, k) \in Slot /\ At(h, k) # At(h, s + 1)
    BY <1>3, AtValue, AtInjective, CapacityAssumption
  <2> QED
    BY <1>1, <2>1 DEF Put
<1> HIDE DEF e
<1>4. Ring(e, h, s + 1)
  BY <1>2, <1>3, CapacityAssumption DEF Ring
<1>5. ItemsIn(e, h, s + 1) = Append(ItemsIn(d, h, s), v)
  <2>1. ItemsIn(d, h, s) \in Seq(Item) /\ Len(ItemsIn(d, h, s)) = s
    BY CapacityAssumption DEF Ring, ItemsIn
  <2>2. \A k \in 1 .. s + 1 :
          ItemsIn(e, h, s + 1)[k] = Append(ItemsIn(d, h, s), v)[k]
    BY <1>2, <1>3, <2>1, CapacityAssumption DEF ItemsIn
  <2> QED
    BY <2>1, <2>2 DEF ItemsIn
<1> QED
  BY <1>4, <1>5 DEF e

\* Dequeue: the contents lose their first item, its slot is zero again.
LEMMA Pop ==
  ASSUME NEW d \in [Slot -> Item \cup {Zero}], NEW h \in Slot,
         NEW s \in 1 .. Capacity, Ring(d, h, s)
  PROVE  LET e == [d EXCEPT ![h] = Zero] IN
         /\ e \in [Slot -> Item \cup {Zero}]
         /\ Ring(e, Next1(h), s - 1)
         /\ ItemsIn(d, h, s) # <<>> /\ Head(ItemsIn(d, h, s)) = d[h]
         /\ ItemsIn(e, Next1(h), s - 1) = Tail(ItemsIn(d, h, s))
<1> DEFINE e == [d EXCEPT ![h] = Zero]
<1>1. At(h, 1) = h
  BY AtValue, CapacityAssumption DEF Slot
<1>2. e \in [Slot -> Item \cup {Zero}] /\ e[h] = Zero
  OBVIOUS
<1>3. ASSUME NEW k \in 2 .. Capacity
      PROVE  e[At(h, k)] = d[At(h, k)]
  <2>1. At(h, k) \in Slot /\ At(h, k) # h
    BY <1>1, AtValue, AtInjective, CapacityAssumption
  <2> QED
    BY <2>1
<1> HIDE DEF e
<1>4. ASSUME NEW k \in 1 .. Capacity - 1
      PROVE  e[At(Next1(h), k)] = d[At(h, k + 1)]
  BY <1>3, AtNext, CapacityAssumption
<1>5. e[At(Next1(h), Capacity)] = Zero
  BY <1>2, AtNext, CapacityAssumption
<1>6. Ring(e, Next1(h), s - 1)
  BY <1>4, <1>5, CapacityAssumption DEF Ring
<1>7. ItemsIn(d, h, s) \in Seq(Item) /\ Len(ItemsIn(d, h, s)) = s
  BY CapacityAssumption DEF Ring, ItemsIn
<1>8. ItemsIn(d, h, s) # <<>> /\ Head(ItemsIn(d, h, s)) = d[h]
  BY <1>1, <1>7, CapacityAssumption DEF ItemsIn
<1>9. ItemsIn(e, Next1(h), s - 1) = Tail(ItemsIn(d, h, s))
  <2>1. \A k \in 1 .. s - 1 :
          ItemsIn(e, Next1(h), s - 1)[k] = Tail(ItemsIn(d, h, s))[k]
    BY <1>4, <1>7, CapacityAssumption DEF ItemsIn
  <2> QED
    BY <1>7, <2>1 DEF ItemsIn
<1> QED
  BY <1>2, <1>6, <1>8, <1>9 DEF e

-----------------------------------------------------------------------------
(***************************************************************************)
(* Types, whatever the queue is used for.                                  *)
(***************************************************************************)

LEMMA FillTyped ==
  ASSUME NEW d \in [Slot -> Item \cup {Zero}], NEW t \in Slot, NEW items \in Batch
  PROVE  FillSlots(d, t, items) \in [Slot -> Item \cup {Zero}]
<1>1. PICK n \in 1 .. BulkSize : items \in [1 .. n -> Item]
  BY DEF Batch
<1>2. Len(items) = n
  BY <1>1, BulkAssumption
<1>3. ASSUME NEW i \in Slot
      PROVE  (i - t + Capacity) % Capacity \in Nat
  BY CapacityAssumption, ModRange DEF Slot
<1> QED
  BY <1>1, <1>2, <1>3 DEF FillSlots

LEMMA AnswerTyped ==
  ASSUME NEW call \in {"none", "Enqueue", "Dequeue", "ToSlice"},
         NEW status \in {"ok", "error", "panic"}, NEW items \in Seq(Item \cup {Zero})
  PROVE  Answer(call, status, items) \in Reply
  BY DEF Answer, Reply

LEMMA EmptyAnswers ==
  /\ Answer("none", "ok", <<>>) \in Reply
  /\ Answer("Enqueue", "ok", <<>>) \in Reply
  /\ Answer("Enqueue", "error", <<>>) \in Reply
  /\ Answer("Dequeue", "error", <<>>) \in Reply
  /\ Answer("ToSlice", "panic", <<>>) \in Reply
<1>1. <<>> \in Seq(Item \cup {Zero})
  OBVIOUS
<1> QED
  BY <1>1 DEF Answer, Reply

LEMMA EnqueueTyped ==
  ASSUME TypeOK, NEW items \in Batch, Enqueue(items)
  PROVE  TypeOK'
<1> USE DEF TypeOK
<1>0. Len(items) \in Nat
  BY BulkAssumption DEF Batch
<1>1. (tail + Len(items)) % Capacity \in Slot
  <2>1. tail + Len(items) \in Nat
    BY <1>0, CapacityAssumption DEF Slot
  <2> QED
    BY <2>1, ModRange
<1>2. Next1(head) \in Slot
  BY AtNext, CapacityAssumption
<1>3. ASSUME NEW d \in [Slot -> Item \cup {Zero}], NEW h \in Slot, NEW s \in Nat,
             EnqueueItems(d, h, s, items), UNCHANGED use
      PROVE  TypeOK'
  <2>1. reply' \in Reply
    BY <1>3, EmptyAnswers DEF EnqueueItems
  <2>2. data' \in [Slot -> Item \cup {Zero}] /\ head' \in Slot /\ use' \in Uses
    BY <1>3, FillTyped DEF EnqueueItems
  <2>3. tail' \in Slot /\ size' \in Nat
    BY <1>0, <1>1, <1>3 DEF EnqueueItems
  <2> QED
    BY <2>1, <2>2, <2>3
<1>4. CASE IsFull /\ policy = "static" /\ RefuseFull
  BY <1>4, EmptyAnswers DEF RefuseFull, Enqueue
<1>5. CASE IsFull /\ EnqueueItems([data EXCEPT ![head] = Zero], Next1(head), size - 1, items)
  <2>1. size - 1 \in Nat
    BY <1>5, CapacityAssumption DEF IsFull
  <2> QED
    BY <1>2, <1>3, <1>5, <2>1 DEF Enqueue
<1>6. CASE EnqueueItems(data, head, size, items)
  BY <1>3, <1>6 DEF Enqueue
<1> QED
  BY <1>4, <1>5, <1>6 DEF Enqueue

LEMMA TypeStep == TypeOK /\ [Next]_vars => TypeOK'
<1> SUFFICES ASSUME TypeOK, [Next]_vars PROVE TypeOK'
  OBVIOUS
<1>1. ASSUME NEW items \in Batch, Enqueue(items) PROVE TypeOK'
  BY <1>1, EnqueueTyped
<1>2. CASE Dequeue
  <2>1. CASE IsEmpty
    BY <1>2, <2>1, EmptyAnswers DEF Dequeue, TypeOK
  <2>2. CASE ~IsEmpty
    <3>1. <<data[head]>> \in Seq(Item \cup {Zero})
      BY DEF TypeOK
    <3>2. reply' \in Reply
      <4>1. Answer("Dequeue", "ok", <<data[head]>>) \in Reply
        BY <3>1, AnswerTyped
      <4> QED
        BY <1>2, <2>2, <4>1 DEF Dequeue
    <3>3. head' \in Slot
      BY <1>2, <2>2, AtNext, CapacityAssumption DEF Dequeue, TypeOK
    <3> QED
      BY <1>2, <2>2, <3>2, <3>3 DEF Dequeue, TypeOK, IsEmpty
  <2> QED
    BY <2>1, <2>2
<1>3. CASE ToSlice
  <2>1. Slice \in Seq(Item \cup {Zero})
    <3>1. ASSUME NEW k \in 1 .. size PROVE CopyReads[k] \in Slot
      <4>1. head + k - 1 \in Nat
        BY CapacityAssumption DEF TypeOK, Slot
      <4> QED
        BY <4>1, ModRange DEF CopyReads
    <3>2. \A k \in 1 .. size :
            (IF k > Capacity THEN Zero ELSE data[CopyReads[k]]) \in Item \cup {Zero}
      BY <3>1 DEF TypeOK
    <3> QED
      BY <3>2 DEF Slice, TypeOK
  <2>2. reply' \in Reply
    <3>1. Answer("ToSlice", "ok", Slice) \in Reply
      BY <2>1, AnswerTyped
    <3> QED
      BY <1>3, <3>1, EmptyAnswers DEF ToSlice
  <2> QED
    BY <1>3, <2>2 DEF ToSlice, TypeOK
<1>4. CASE UNCHANGED vars
  BY <1>4 DEF vars, TypeOK
<1> QED
  BY <1>1, <1>2, <1>3, <1>4 DEF Next

\* Indices stay inside the slice and the size stays a number, even when one
\* call enqueues several items past the capacity.
THEOREM RingTyped == Spec => []TypeOK
<1>1. Init => TypeOK
  BY CapacityAssumption, EmptyAnswers DEF Init, TypeOK, Slot
<1> QED
  BY <1>1, TypeStep, PTL DEF Spec

-----------------------------------------------------------------------------
(***************************************************************************)
(* The ring, when Enqueue is given one item at a time as in every caller.  *)
(***************************************************************************)

RInv == TypeOK /\ RingInv

\* RingInv in the terms of the lemmas above.
LEMMA RingInvMeans ==
  ASSUME TypeOK
  PROVE  RingInv <=> /\ size \in 0 .. Capacity
                     /\ tail = At(head, size + 1)
                     /\ Ring(data, head, size)
                     /\ use \in {"recent", "generations"} => head = 0 \/ IsFull
<1>1. head + (size + 1) - 1 = head + size
  BY CapacityAssumption DEF TypeOK, Slot
<1>2. size \in 0 .. Capacity <=> SizeWithinCapacity
  BY CapacityAssumption DEF TypeOK, SizeWithinCapacity
<1>3. At(head, size + 1) = (head + size) % Capacity
  BY <1>1 DEF At
<1> QED
  BY <1>2, <1>3 DEF RingInv, Ring, At, SlotAt

LEMMA ContentsIsItemsIn == Contents = ItemsIn(data, head, size)
  BY DEF Contents, ItemsIn, SlotAt, At

\* What an Enqueue of one item does to the contents, for each policy.
Pushed(v) ==
  /\ size' = size + 1 /\ head' = head /\ Contents' = Append(Contents, v)
  /\ reply' = Answer("Enqueue", "ok", <<>>)

Replaced(v) ==
  /\ size = Capacity /\ size' = size /\ Contents' = Append(Tail(Contents), v)
  /\ reply' = Answer("Enqueue", "ok", <<>>)

LEMMA EnqueueOne ==
  ASSUME BulkSize = 1, RInv, NEW items \in Batch, Enqueue(items)
  PROVE  /\ RingInv'
         /\ items[1] \in Item
         /\ \/ ~IsFull /\ Pushed(items[1])
            \/ IsFull /\ policy = "dynamic" /\ Replaced(items[1])
            \/ IsFull /\ policy = "static" /\ UNCHANGED Contents
               /\ reply' = Answer("Enqueue", "error", <<>>)
<1>0. items \in [1 .. 1 -> Item] /\ items[1] \in Item /\ Len(items) = 1
  BY DEF Batch
<1>1. PICK v \in Item : v = items[1] /\ items \in [1 .. 1 -> Item] /\ Len(items) = 1
  BY <1>0
<1>2. TypeOK /\ TypeOK' /\ RingInv
  BY EnqueueTyped DEF RInv
<1>3. /\ size \in 0 .. Capacity /\ tail = At(head, size + 1) /\ Ring(data, head, size)
      /\ use \in {"recent", "generations"} => head = 0 \/ IsFull
  BY <1>2, RingInvMeans
<1>4. ASSUME NEW d \in [Slot -> Item \cup {Zero}], NEW h \in Slot,
             NEW s \in 0 .. Capacity - 1, Ring(d, h, s), tail = At(h, s + 1),
             EnqueueItems(d, h, s, items)
      PROVE  /\ size' = s + 1 /\ head' = h /\ tail' = At(h, s + 2)
             /\ Ring(data', h, s + 1)
             /\ Contents' = Append(ItemsIn(d, h, s), v)
             /\ reply' = Answer("Enqueue", "ok", <<>>)
  <2>1. /\ data' = FillSlots(d, tail, items) /\ head' = h
        /\ tail' = (tail + 1) % Capacity /\ size' = s + 1
        /\ reply' = Answer("Enqueue", "ok", <<>>)
    BY <1>1, <1>4, CapacityAssumption DEF EnqueueItems
  <2>2. data' = [d EXCEPT ![At(h, s + 1)] = v]
    BY <1>1, <1>2, <1>4, <2>1, FillOne DEF TypeOK
  <2>3. Ring(data', h, s + 1) /\ ItemsIn(data', h, s + 1) = Append(ItemsIn(d, h, s), v)
    <3>1. data' = Put(d, At(h, s + 1), v)
      BY <2>2 DEF Put
    <3> QED
      BY <1>4, <3>1, Push
  <2>4. Contents' = ItemsIn(data', h, s + 1)
    BY <2>1 DEF Contents, ItemsIn, SlotAt, At
  <2>5. tail' = At(h, s + 2)
    <3>1. tail' = Next1(At(h, s + 1))
      BY <1>4, <2>1 DEF Next1
    <3>2. s + 1 \in 1 .. Capacity + 1 /\ s + 2 \in 1 .. Capacity + 1
      BY CapacityAssumption
    <3>3. /\ At(h, s + 1) \in Slot
          /\ At(h, s + 1) = IF h + s < Capacity THEN h + s ELSE h + s - Capacity
      BY <3>2, AtValue, CapacityAssumption DEF Slot
    <3>4. At(h, s + 2) = IF h + s + 1 < Capacity THEN h + s + 1 ELSE h + s + 1 - Capacity
      BY <3>2, AtValue, CapacityAssumption DEF Slot
    <3>5. Next1(At(h, s + 1)) =
            IF At(h, s + 1) + 1 < Capacity THEN At(h, s + 1) + 1 ELSE 0
      BY <3>3, NextValue
    <3> QED
      BY <3>1, <3>3, <3>4, <3>5, CapacityAssumption DEF Slot
  <2> QED
    BY <2>1, <2>3, <2>4, <2>5
<1>5. CASE IsFull /\ policy = "static" /\ RefuseFull
  <2>1. UNCHANGED <<use, data, head, tail, size>>
        /\ reply' = Answer("Enqueue", "error", <<>>)
    BY <1>5 DEF Enqueue, RefuseFull
  <2>2. RingInv' /\ UNCHANGED Contents
    BY <1>2, <2>1 DEF RingInv, SizeWithinCapacity, SlotAt, IsFull, Contents
  <2> QED
    BY <1>1, <1>5, <2>1, <2>2
<1>6. CASE IsFull /\ policy = "dynamic"
           /\ EnqueueItems([data EXCEPT ![head] = Zero], Next1(head), size - 1, items)
  <2> DEFINE d == [data EXCEPT ![head] = Zero]
             h == Next1(head)
             s == size - 1
  <2>1. size = Capacity /\ size \in 1 .. Capacity /\ head \in Slot
        /\ data \in [Slot -> Item \cup {Zero}] /\ Ring(data, head, size)
    BY <1>2, <1>3, <1>6, CapacityAssumption DEF IsFull, TypeOK
  <2>2. /\ d \in [Slot -> Item \cup {Zero}] /\ Ring(d, h, s)
        /\ ItemsIn(d, h, s) = Tail(ItemsIn(data, head, size))
    BY <2>1, Pop
  <2>3. h \in Slot /\ s \in 0 .. Capacity - 1 /\ s + 1 = Capacity
    BY <2>1, AtNext, CapacityAssumption
  <2>4. tail = At(h, s + 1)
    <3>1. At(head, Capacity + 1) = At(h, Capacity)
      BY <2>1, AtNext, CapacityAssumption
    <3> QED
      BY <1>3, <2>1, <2>3, <3>1
  <2>5. EnqueueItems(d, h, s, items)
    BY <1>6
  <2> HIDE DEF d, h, s
  <2>6. /\ size' = s + 1 /\ head' = h /\ tail' = At(h, s + 2)
        /\ Ring(data', h, s + 1)
        /\ Contents' = Append(ItemsIn(d, h, s), v)
        /\ reply' = Answer("Enqueue", "ok", <<>>)
    BY <1>4, <2>2, <2>3, <2>4, <2>5
  <2>7. s + 2 = (s + 1) + 1 /\ size' = Capacity /\ UNCHANGED use
    BY <2>3, <2>6 DEF Enqueue
  <2>8. RingInv'
    <3>1. size' \in 0 .. Capacity /\ tail' = At(head', size' + 1) /\ Ring(data', head', size')
          /\ size' = Capacity
      BY <2>3, <2>6, <2>7, CapacityAssumption
    <3>2. (RingInv <=> /\ size \in 0 .. Capacity
                       /\ tail = At(head, size + 1)
                       /\ Ring(data, head, size)
                       /\ use \in {"recent", "generations"} => head = 0 \/ IsFull)'
      BY <1>2, RingInvMeans, PTL
    <3> QED
      BY <3>1, <3>2 DEF IsFull
  <2>9. Replaced(v)
    BY <2>1, <2>2, <2>6, <2>7, ContentsIsItemsIn DEF Replaced
  <2> QED
    BY <1>1, <1>6, <2>8, <2>9
<1>7. CASE ~IsFull /\ EnqueueItems(data, head, size, items)
  <2>1. size \in 0 .. Capacity - 1 /\ head \in Slot /\ data \in [Slot -> Item \cup {Zero}]
    BY <1>2, <1>3, <1>7, CapacityAssumption DEF IsFull, TypeOK
  <2>2. /\ size' = size + 1 /\ head' = head /\ tail' = At(head, size + 2)
        /\ Ring(data', head, size + 1)
        /\ Contents' = Append(ItemsIn(data, head, size), v)
        /\ reply' = Answer("Enqueue", "ok", <<>>)
    BY <1>3, <1>4, <1>7, <2>1
  <2>3. size + 2 = (size + 1) + 1 /\ UNCHANGED use
    BY <2>1 DEF Enqueue
  <2>4. RingInv'
    <3>1. size' \in 0 .. Capacity /\ tail' = At(head', size' + 1) /\ Ring(data', head', size')
          /\ (use' \in {"recent", "generations"} => head' = 0)
      BY <1>3, <1>7, <2>1, <2>2, <2>3, CapacityAssumption
    <3>2. (RingInv <=> /\ size \in 0 .. Capacity
                       /\ tail = At(head, size + 1)
                       /\ Ring(data, head, size)
                       /\ use \in {"recent", "generations"} => head = 0 \/ IsFull)'
      BY <1>2, RingInvMeans, PTL
    <3> QED
      BY <3>1, <3>2 DEF IsFull
  <2>5. Pushed(v)
    BY <2>2, ContentsIsItemsIn DEF Pushed
  <2> QED
    BY <1>1, <1>7, <2>4, <2>5
<1> QED
  BY <1>5, <1>6, <1>7 DEF Enqueue

LEMMA DequeueOne ==
  ASSUME RInv, Dequeue
  PROVE  /\ RingInv'
         /\ \/ /\ Contents = <<>> /\ UNCHANGED Contents
               /\ reply' = Answer("Dequeue", "error", <<>>)
            \/ /\ Contents # <<>> /\ Contents' = Tail(Contents)
               /\ reply' = Answer("Dequeue", "ok", <<Head(Contents)>>)
<1>1. /\ TypeOK /\ RingInv /\ TypeOK'
  BY TypeStep DEF RInv, Next
<1>2. /\ size \in 0 .. Capacity /\ tail = At(head, size + 1) /\ Ring(data, head, size)
  BY <1>1, RingInvMeans
<1>3. CASE IsEmpty
  <2>1. UNCHANGED <<use, data, head, tail, size>>
        /\ reply' = Answer("Dequeue", "error", <<>>)
    BY <1>3 DEF Dequeue
  <2>2. RingInv' /\ UNCHANGED Contents
    BY <1>1, <2>1 DEF RingInv, SizeWithinCapacity, SlotAt, IsFull, Contents
  <2>3. Contents = <<>>
    BY <1>3 DEF IsEmpty, Contents
  <2> QED
    BY <2>1, <2>2, <2>3
<1>4. CASE ~IsEmpty
  <2>1. /\ reply' = Answer("Dequeue", "ok", <<data[head]>>)
        /\ data' = [data EXCEPT ![head] = Zero]
        /\ head' = Next1(head) /\ size' = size - 1 /\ tail' = tail /\ use' = use
    BY <1>4 DEF Dequeue
  <2>2. size \in 1 .. Capacity /\ head \in Slot /\ data \in [Slot -> Item \cup {Zero}]
    BY <1>1, <1>2, <1>4, CapacityAssumption DEF IsEmpty, TypeOK
  <2> DEFINE e == [data EXCEPT ![head] = Zero]
  <2>3. /\ Ring(e, Next1(head), size - 1)
        /\ ItemsIn(data, head, size) # <<>> /\ Head(ItemsIn(data, head, size)) = data[head]
        /\ ItemsIn(e, Next1(head), size - 1) = Tail(ItemsIn(data, head, size))
    BY <1>2, <2>2, Pop
  <2>4. data' = e
    BY <2>1
  <2> HIDE DEF e
  <2>5. Contents' = ItemsIn(data', head', size')
    BY DEF Contents, ItemsIn, SlotAt, At
  <2>6. size' \in 0 .. Capacity /\ Ring(data', head', size') /\ tail' = At(head', size' + 1)
    <3>1. At(Next1(head), size) = At(head, size + 1)
      BY <2>2, AtNext, CapacityAssumption
    <3>2. size' + 1 = size /\ size' \in 0 .. Capacity
      BY <2>1, <2>2, CapacityAssumption
    <3>3. Ring(data', head', size')
      BY <2>1, <2>3, <2>4
    <3>4. tail' = At(head', size' + 1)
      BY <1>2, <2>1, <3>1, <3>2
    <3> QED
      BY <3>2, <3>3, <3>4
  <2>7. use \notin {"recent", "generations"}
    BY DEF Dequeue, Calls
  <2>8. RingInv'
    <3>1. (RingInv <=> /\ size \in 0 .. Capacity
                       /\ tail = At(head, size + 1)
                       /\ Ring(data, head, size)
                       /\ use \in {"recent", "generations"} => head = 0 \/ IsFull)'
      BY <1>1, RingInvMeans, PTL
    <3> QED
      BY <2>1, <2>6, <2>7, <3>1
  <2> QED
    BY <2>1, <2>3, <2>4, <2>5, <2>8, ContentsIsItemsIn
<1> QED
  BY <1>3, <1>4

LEMMA RingStep ==
  ASSUME BulkSize = 1, RInv, [Next]_vars
  PROVE  RInv'
<1>1. TypeOK'
  BY TypeStep DEF RInv
<1>2. ASSUME UNCHANGED <<use, data, head, tail, size>> PROVE RingInv'
  BY <1>2 DEF RInv, RingInv, SizeWithinCapacity, SlotAt, IsFull
<1>3. ASSUME NEW items \in Batch, Enqueue(items) PROVE RingInv'
  BY <1>3, EnqueueOne
<1>4. ASSUME Dequeue PROVE RingInv'
  BY <1>4, DequeueOne
<1>5. ASSUME ToSlice PROVE RingInv'
  BY <1>2, <1>5 DEF ToSlice
<1>6. ASSUME UNCHANGED vars PROVE RingInv'
  BY <1>2, <1>6 DEF vars
<1> QED
  BY <1>1, <1>3, <1>4, <1>5, <1>6 DEF Next, RInv

LEMMA RingInit == Init => RInv
<1> SUFFICES ASSUME Init PROVE RInv
  OBVIOUS
<1>1. TypeOK
  BY CapacityAssumption, EmptyAnswers DEF Init, TypeOK, Slot
<1>2. size \in 0 .. Capacity /\ head = 0 /\ size = 0 /\ tail = 0
  BY CapacityAssumption DEF Init
<1>3. At(0, 1) = 0
  BY AtValue, CapacityAssumption DEF Slot
<1>4. Ring(data, head, size)
  BY <1>2, AtValue, CapacityAssumption DEF Init, Ring, Slot
<1> QED
  BY <1>1, <1>2, <1>3, <1>4, RingInvMeans DEF RInv

\* Given one item at a time, every queue of the server stays a ring: never
\* more than its capacity, its items exactly between head and tail.
THEOREM RingConsistent == BulkSize = 1 => (Spec => []RingInv)
<1> SUFFICES ASSUME BulkSize = 1 PROVE Spec => []RingInv
  OBVIOUS
<1>1. RInv /\ [Next]_vars => RInv'
  BY RingStep
<1>2. RInv => RingInv
  BY DEF RInv
<1> QED
  BY <1>1, <1>2, RingInit, PTL DEF Spec

-----------------------------------------------------------------------------
(***************************************************************************)
(* Refinement: BoundedFifo, for the queues of the server.                  *)
(***************************************************************************)

Served == BulkSize = 1 /\ Uses \subseteq {"recent", "generations", "jobs"}

\* A queue that is only read by ToSlice is full or starts at slot 0, so the
\* copy that ToSlice takes of its first `size` slots is all of it.
LEMMA SliceIsContents ==
  ASSUME Served, RInv, ToSlice
  PROVE  reply' = Answer("ToSlice", "ok", Contents) /\ UNCHANGED <<use, Contents>>
<1>1. /\ TypeOK /\ size \in 0 .. Capacity /\ head \in Slot
      /\ use \in {"recent", "generations"} => head = 0 \/ size = Capacity
  BY RingInvMeans DEF RInv, TypeOK, IsFull
<1>2. use \in {"recent", "generations"}
  BY <1>1 DEF ToSlice, Calls, Served, TypeOK
<1>3. ASSUME NEW k \in 1 .. size PROVE ~(CopyReads[k] >= size)
  <2>1. CopyReads[k] = At(head, k)
    BY <1>1 DEF CopyReads, At
  <2>2. /\ At(head, k) \in Slot
        /\ At(head, k) = IF head + k - 1 < Capacity THEN head + k - 1
                         ELSE head + k - 1 - Capacity
    BY <1>1, AtValue, CapacityAssumption
  <2> QED
    BY <1>1, <1>2, <2>1, <2>2, CapacityAssumption DEF Slot
<1>4. Slice = Contents
  BY <1>1, CapacityAssumption DEF Slice, Contents, CopyReads, SlotAt
<1>5. reply' = Answer("ToSlice", "ok", Slice)
  BY <1>3 DEF ToSlice
<1> QED
  BY <1>4, <1>5 DEF ToSlice, Contents, SlotAt

\* IsFull and IsEmpty, seen through the refinement mapping.
LEMMA ContentsLen ==
  ASSUME RInv
  PROVE  Contents \in Seq(Item) /\ Len(Contents) = size
<1>1. size \in Nat /\ \A k \in 1 .. size : data[SlotAt(k)] \in Item
  BY DEF RInv, RingInv, TypeOK
<1> QED
  BY <1>1 DEF Contents

LEMMA FifoStep ==
  ASSUME Served, RInv, [Next]_vars
  PROVE  [Fifo!AbsNext]_(Fifo!absVars)
<1> USE DEF Fifo!absVars
<1>1. ASSUME NEW items \in Batch, Enqueue(items) PROVE Fifo!AbsNext
  <2>1. /\ items[1] \in Item
        /\ \/ ~IsFull /\ Pushed(items[1])
           \/ IsFull /\ policy = "dynamic" /\ Replaced(items[1])
           \/ IsFull /\ policy = "static" /\ UNCHANGED Contents
              /\ reply' = Answer("Enqueue", "error", <<>>)
    BY <1>1, EnqueueOne DEF Served
  <2>2. UNCHANGED policy
    BY <1>1 DEF Enqueue, policy
  <2>3. Len(Contents) = size /\ size \in 0 .. Capacity
    BY ContentsLen, RingInvMeans DEF RInv
  <2>4. Fifo!AbsEnqueue(items[1])
    BY <2>1, <2>2, <2>3, CapacityAssumption
       DEF Fifo!AbsEnqueue, Fifo!Answer, Answer, Pushed, Replaced, IsFull
  <2> QED
    BY <2>1, <2>4 DEF Fifo!AbsNext
<1>2. ASSUME Dequeue PROVE Fifo!AbsNext
  <2>1. UNCHANGED policy
    BY <1>2 DEF Dequeue, policy
  <2>2. Fifo!AbsDequeue
    BY <1>2, <2>1, DequeueOne DEF Fifo!AbsDequeue, Fifo!Answer, Answer
  <2> QED
    BY <2>2 DEF Fifo!AbsNext
<1>3. ASSUME ToSlice PROVE Fifo!AbsNext
  <2>1. Fifo!AbsToSlice
    BY <1>3, SliceIsContents DEF Fifo!AbsToSlice, Fifo!Answer, Answer, policy
  <2> QED
    BY <2>1 DEF Fifo!AbsNext
<1>4. ASSUME UNCHANGED vars PROVE UNCHANGED Fifo!absVars
  BY <1>4 DEF vars, Contents, SlotAt, policy
<1> QED
  BY <1>1, <1>2, <1>3, <1>4 DEF Next

LEMMA FifoInit == Init => Fifo!AbsInit
  BY DEF Init, Fifo!AbsInit, Fifo!NoReply, Contents, policy, Answer

\* In the uses the server makes of it, the ring is a bounded queue in every
\* answer it gives; in particular its ToSlice does not panic.
THEOREM RingImplementsFifo == Served => (Spec => ImplementsFifo)
<1> SUFFICES ASSUME Served PROVE Spec => Fifo!AbsSpec
  BY DEF ImplementsFifo
<1>1. RInv /\ [Next]_vars => RInv'
  BY RingStep DEF Served
<1>2. RInv /\ [Next]_vars => [Fifo!AbsNext]_(Fifo!absVars)
  BY FifoStep
<1> QED
  BY <1>1, <1>2, RingInit, FifoInit, PTL DEF Spec, Fifo!AbsSpec

\* What a call that did not panic answers.
NoPanic(r) == \E c, i : r = Answer(c, "ok", i) \/ r = Answer(c, "error", i)

LEMMA NoPanicMeans == ASSUME NEW r, NoPanic(r) PROVE r.status # "panic"
<1>1. PICK c, i : r = Answer(c, "ok", i) \/ r = Answer(c, "error", i)
  BY DEF NoPanic
<1>2. CASE r = Answer(c, "ok", i)
  BY <1>2 DEF Answer
<1>3. CASE r = Answer(c, "error", i)
  BY <1>3 DEF Answer
<1> QED
  BY <1>1, <1>2, <1>3

\* No queue of the server ever panics in ToSlice (queue.go:147-175), however
\* often it has wrapped around and whatever its capacity.
THEOREM RingSliceNeverPanics == Served => (Spec => []SliceNeverPanics)
<1> SUFFICES ASSUME Served PROVE Spec => []SliceNeverPanics
  OBVIOUS
<1>1. Init => SliceNeverPanics
  BY DEF Init, SliceNeverPanics, Answer
<1>2. ASSUME RInv, SliceNeverPanics, [Next]_vars PROVE SliceNeverPanics'
  <2>1. ASSUME NEW items \in Batch, Enqueue(items) PROVE NoPanic(reply')
    <3>1. \/ reply' = Answer("Enqueue", "ok", <<>>)
          \/ reply' = Answer("Enqueue", "error", <<>>)
      BY <2>1 DEF Enqueue, EnqueueItems, RefuseFull
    <3> QED
      BY <3>1 DEF NoPanic
  <2>2. ASSUME Dequeue PROVE NoPanic(reply')
    <3>1. \/ reply' = Answer("Dequeue", "error", <<>>)
          \/ reply' = Answer("Dequeue", "ok", <<data[head]>>)
      BY <2>2 DEF Dequeue
    <3> QED
      BY <3>1 DEF NoPanic
  <2>3. ASSUME ToSlice PROVE NoPanic(reply')
    BY <1>2, <2>3, SliceIsContents DEF NoPanic
  <2>4. ASSUME UNCHANGED vars PROVE SliceNeverPanics'
    BY <1>2, <2>4 DEF vars, SliceNeverPanics
  <2>5. ASSUME NoPanic(reply') PROVE SliceNeverPanics'
    BY <2>5, NoPanicMeans DEF SliceNeverPanics
  <2> QED
    BY <1>2, <2>1, <2>2, <2>3, <2>4, <2>5 DEF Next
<1>3. RInv /\ [Next]_vars => RInv'
  BY RingStep DEF Served
<1> QED
  BY <1>1, <1>2, <1>3, RingInit, PTL DEF Spec
=============================================================================
