---------------------------- MODULE BoundedFifo ----------------------------
(***************************************************************************)
(* What the queues of pkg/utils promise their callers, without the ring:   *)
(* a first-in-first-out list of at most Capacity items.  A static queue    *)
(* refuses an item when it is full, a dynamic one drops its oldest item to *)
(* make room (queue.go:17-18, 28-30).  reply is what the last call         *)
(* returned, so that an implementation answers for its results and not     *)
(* only for its state.                                                     *)
(***************************************************************************)
EXTENDS Integers, Sequences

CONSTANTS
  Item,      \* the values that can be queued
  Capacity   \* the most items the queue may hold

VARIABLES
  policy,    \* "static" or "dynamic", fixed when the queue is made
  fifo,      \* the queued items, oldest first
  reply      \* the answer of the last call

absVars == <<policy, fifo, reply>>

NoReply   == [call |-> "none", status |-> "ok", items |-> <<>>]
Answer(call, status, items) ==
  [call |-> call, status |-> status, items |-> items]

AbsInit ==
  /\ policy \in {"static", "dynamic"}
  /\ fifo = <<>>
  /\ reply = NoReply

AbsEnqueue(v) ==
  /\ \/ /\ Len(fifo) < Capacity
        /\ fifo' = Append(fifo, v)
        /\ reply' = Answer("Enqueue", "ok", <<>>)
     \/ /\ Len(fifo) = Capacity
        /\ policy = "dynamic"
        /\ fifo' = Append(Tail(fifo), v)
        /\ reply' = Answer("Enqueue", "ok", <<>>)
     \/ /\ Len(fifo) = Capacity
        /\ policy = "static"
        /\ fifo' = fifo
        /\ reply' = Answer("Enqueue", "error", <<>>)
  /\ UNCHANGED policy

AbsDequeue ==
  /\ \/ /\ fifo # <<>>
        /\ fifo' = Tail(fifo)
        /\ reply' = Answer("Dequeue", "ok", <<Head(fifo)>>)
     \/ /\ fifo = <<>>
        /\ fifo' = fifo
        /\ reply' = Answer("Dequeue", "error", <<>>)
  /\ UNCHANGED policy

AbsToSlice ==
  /\ reply' = Answer("ToSlice", "ok", fifo)
  /\ UNCHANGED <<policy, fifo>>

AbsNext ==
  \/ \E v \in Item : AbsEnqueue(v)
  \/ AbsDequeue
  \/ AbsToSlice

AbsSpec == AbsInit /\ [][AbsNext]_absVars
=============================================================================
