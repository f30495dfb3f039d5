------------------------- MODULE BroadcasterProofs --------------------------
(***************************************************************************)
(* Proofs about Broadcaster, for every set of pages and every capacity:    *)
(* the types, that a Broadcast never sends on a closed channel, and that   *)
(* no item falls between the replay and the live feed.                     *)
(***************************************************************************)
EXTENDS Broadcaster, FiniteSetTheorems, SequenceTheorems, TLAPS

\* What a channel or a slice of the recent items may hold.
Shown == Item \cup {None}

Typed ==
  /\ feed \in Feeds
  /\ clients \subseteq Page
  /\ pc \in [Page -> Phase] /\ gone \in [Page -> BOOLEAN]
  /\ send \in [Page -> Seq(Shown)]
  /\ replay \in [Page -> Seq(Shown)]
  /\ settled \in [Page -> SUBSET Shown]
  /\ since \in [Page -> 1 .. MaxItem + 1]
  /\ recent \in Seq(Item) /\ Len(recent) <= RecentCap
  /\ writing \in Shown /\ made \in 0 .. MaxItem
  /\ pending \in Seq(Item) /\ casting \in BOOLEAN
  /\ recorded \subseteq Item /\ announced \subseteq Item

Bounded == \A p \in Page : Len(send[p]) <= SendCap

(* A Broadcast looks only at clients of its broadcaster, and while it does *)
(* the handlers of those have not taken them out.                          *)
Held ==
  /\ todo \subseteq clients
  /\ ~casting => todo = {}
  /\ casting => pending # << >>
  /\ \A p \in clients : pc[p] \notin {"away", "removed", "closed"}

IInv == Typed /\ Bounded /\ Held

-----------------------------------------------------------------------------
(* Sequences.                                                              *)

LEMMA HeadTail ==
  ASSUME NEW S, NEW s \in Seq(S), s # << >>
  PROVE  Head(s) \in S /\ Tail(s) \in Seq(S) /\ Len(Tail(s)) = Len(s) - 1
  BY EmptySeq, HeadTailProperties, ElementOfSeq, LenProperties

LEMMA Appended ==
  ASSUME NEW S, NEW s \in Seq(S), NEW e \in S
  PROVE  /\ Append(s, e) \in Seq(S) /\ Len(Append(s, e)) = Len(s) + 1
         /\ Append(s, e) # << >>
  BY AppendProperties, LenProperties, EmptySeq

\* A sequence of items may hold the zero value too.
LEMMA Widened == \A s \in Seq(Item) : s \in Seq(Shown)
<1>1. TAKE s \in Seq(Item)
<1>2. s \in [1 .. Len(s) -> Item] /\ Len(s) \in Nat
  BY LenProperties
<1>3. s \in [1 .. Len(s) -> Shown]
  BY <1>2 DEF Shown
<1>. QED
  BY <1>2, <1>3, SeqDef

\* The queue with its new item is no longer than it may be.
LEMMA RolledTyped ==
  ASSUME recent \in Seq(Item), Len(recent) <= RecentCap, writing \in Item
  PROVE  Rolled \in Seq(Item) /\ Len(Rolled) <= RecentCap /\ Rolled # << >>
<1>1. Len(recent) \in Nat /\ RecentCap \in Nat \ {0}
  BY LenProperties, FeedAssumption
<1>2. CASE Len(recent) = RecentCap
  <2>1. recent # << >>
    BY <1>1, <1>2
  <2>2. Tail(recent) \in Seq(Item) /\ Len(Tail(recent)) = Len(recent) - 1
    BY <2>1, HeadTail
  <2>3. Rolled = Append(Tail(recent), writing)
    BY <1>2 DEF Rolled
  <2>. QED
    BY <1>1, <1>2, <2>2, <2>3, Appended
<1>3. CASE Len(recent) # RecentCap
  <2>1. Rolled = Append(recent, writing)
    BY <1>3 DEF Rolled
  <2>. QED
    BY <1>1, <1>3, <2>1, Appended
<1>. QED
  BY <1>2, <1>3

LEMMA SlicesTyped == Typed => \A s \in Slices : s \in Seq(Shown)
<1> SUFFICES ASSUME Typed, NEW s \in Slices PROVE s \in Seq(Shown)
  OBVIOUS
<1>1. recent \in Seq(Item) /\ Len(recent) <= RecentCap /\ writing \in Shown
  BY DEF Typed
<1>2. CASE writing = None
  BY <1>1, <1>2, Widened DEF Slices
<1>3. CASE writing # None
  <2>1. Rolled \in Seq(Item)
    BY <1>1, <1>3, RolledTyped DEF Shown
  <2>2. CASE Len(recent) = RecentCap
    <3>1. recent # << >>
      BY <2>2, FeedAssumption
    <3>2. Tail(recent) \in Seq(Item)
      BY <1>1, <3>1, HeadTail
    <3>3. Tail(recent) \in Seq(Shown) /\ None \in Shown
      BY <3>2, Widened DEF Shown
    <3>4. Append(Tail(recent), None) \in Seq(Shown)
      BY <3>3, Appended
    <3>5. s \in {recent, Rolled, Tail(recent), Append(Tail(recent), None)}
      BY <1>3, <2>2 DEF Slices
    <3>. QED
      BY <1>1, <2>1, <3>3, <3>4, <3>5, Widened
  <2>3. CASE Len(recent) # RecentCap
    BY <1>1, <1>3, <2>1, <2>3, Widened DEF Slices
  <2>. QED
    BY <2>2, <2>3
<1>. QED
  BY <1>2, <1>3

LEMMA OldestTyped == Typed => Oldest \in 1 .. MaxItem + 1
<1> SUFFICES ASSUME Typed PROVE Oldest \in 1 .. MaxItem + 1
  OBVIOUS
<1>1. recent \in Seq(Item) /\ Len(recent) <= RecentCap /\ writing \in Shown
      /\ made \in 0 .. MaxItem /\ MaxItem \in Nat
  BY FeedAssumption DEF Typed
<1>2. CASE writing # None
  <2>1. Rolled \in Seq(Item) /\ Rolled # << >>
    BY <1>1, <1>2, RolledTyped DEF Shown
  <2>2. Head(Rolled) \in Item
    BY <2>1, HeadTail
  <2>. QED
    BY <1>1, <1>2, <2>2 DEF Oldest, Item
<1>3. CASE writing = None /\ recent # << >>
  <2>1. Head(recent) \in Item
    BY <1>1, <1>3, HeadTail
  <2>. QED
    BY <1>1, <1>3, <2>1 DEF Oldest, Item
<1>4. CASE writing = None /\ recent = << >>
  BY <1>1, <1>4 DEF Oldest
<1>. QED
  BY <1>2, <1>3, <1>4

-----------------------------------------------------------------------------
(* The makers and the Broadcast.                                           *)

LEMMA MakeIInv ==
  ASSUME IInv, NEW kind, Make(kind)
  PROVE  IInv'
<1>. USE DEF IInv
<1>1. made \in 0 .. MaxItem /\ made < MaxItem /\ MaxItem \in Nat
  BY FeedAssumption DEF Typed, Make
<1>2. made + 1 \in Item /\ made + 1 \in 0 .. MaxItem
  BY <1>1 DEF Item
<1>3. made' \in 0 .. MaxItem /\ writing' \in Shown
  BY <1>2 DEF Make, Shown
<1>4. Append(pending, made + 1) \in Seq(Item) /\ Append(pending, made + 1) # << >>
  BY <1>2, Appended DEF Typed
<1>5. pending' \in Seq(Item) /\ (pending # << >> => pending' # << >>)
  BY <1>4 DEF Make, Typed
<1>6. UNCHANGED <<feed, clients, send, settled, pc, gone, replay, since, recent, recorded,
                  casting, todo, announced>>
  BY DEF Make, handlers
<1>7. Typed'
  BY <1>3, <1>5, <1>6 DEF Typed
<1>8. Held'
  BY <1>5, <1>6 DEF Held
<1>. QED
  BY <1>6, <1>7, <1>8 DEF Bounded

LEMMA RecordIInv ==
  ASSUME IInv, Record
  PROVE  IInv'
<1>. USE DEF IInv
<1>1. writing \in Item
  BY DEF Record, Typed, Shown
<1>2. recent' \in Seq(Item) /\ Len(recent') <= RecentCap
  BY <1>1, RolledTyped DEF Record, Typed
<1>3. Append(pending, writing) \in Seq(Item) /\ Append(pending, writing) # << >>
  BY <1>1, Appended DEF Typed
<1>4. pending' \in Seq(Item) /\ (pending # << >> => pending' # << >>)
  BY <1>3 DEF Record, Typed
<1>5. recorded' \subseteq Item /\ writing' \in Shown
  BY <1>1 DEF Record, Typed, Shown
<1>6. UNCHANGED <<feed, clients, send, settled, pc, gone, replay, since, made, casting, todo,
                  announced>>
  BY DEF Record, handlers
<1>7. Typed'
  BY <1>2, <1>4, <1>5, <1>6 DEF Typed
<1>8. Held'
  BY <1>4, <1>6 DEF Held
<1>. QED
  BY <1>6, <1>7, <1>8 DEF Bounded

LEMMA BroadcastBeginIInv ==
  ASSUME IInv, BroadcastBegin
  PROVE  IInv'
<1>. USE DEF IInv, BroadcastBegin, handlers, makers
<1>1. Typed'
  BY DEF Typed
<1>2. Held'
  BY DEF Held
<1>. QED
  BY <1>1, <1>2 DEF Bounded

LEMMA OfferIInv ==
  ASSUME IInv, NEW p \in Page, Offer(p)
  PROVE  IInv'
<1>. USE DEF IInv
<1>1. pending \in Seq(Item) /\ pending # << >>
  BY DEF Offer, Typed, Held
<1>2. PICK i \in Item : i = Head(pending)
  BY <1>1, HeadTail
<1>3. i \in Shown
  BY DEF Shown
<1>4. UNCHANGED <<feed, clients, pc, gone, replay, since, recent, writing, made, recorded,
                  pending, casting, announced>> /\ todo' \subseteq todo
      /\ (~casting => todo' = {})
  BY DEF Offer, handlers, makers
<1>5. CASE Len(send[p]) < SendCap
  <2>1. send' = [send EXCEPT ![p] = Append(@, i)] /\ settled' = settled
    BY <1>2, <1>5 DEF Offer
  <2>2. Append(send[p], i) \in Seq(Shown) /\ Len(Append(send[p], i)) = Len(send[p]) + 1
    BY <1>3, Appended DEF Typed
  <2>3. send' \in [Page -> Seq(Shown)]
    BY <2>1, <2>2 DEF Typed
  <2>4. Len(send[p]) + 1 <= SendCap
    BY <1>5, FeedAssumption, LenProperties DEF Typed
  <2>5. Bounded'
    BY <2>1, <2>2, <2>4 DEF Bounded, Typed
  <2>6. Typed'
    BY <1>4, <2>1, <2>3 DEF Typed
  <2>7. Held'
    BY <1>4 DEF Held
  <2>. QED
    BY <2>5, <2>6, <2>7
<1>6. CASE ~(Len(send[p]) < SendCap)
  <2>1. send' = send /\ settled' = [settled EXCEPT ![p] = @ \cup {i}]
    BY <1>2, <1>6 DEF Offer
  <2>2. settled' \in [Page -> SUBSET Shown]
    BY <1>3, <2>1 DEF Typed
  <2>3. Typed'
    BY <1>4, <2>1, <2>2 DEF Typed
  <2>4. Held'
    BY <1>4 DEF Held
  <2>. QED
    BY <2>1, <2>3, <2>4 DEF Bounded
<1>. QED
  BY <1>5, <1>6

LEMMA BroadcastEndIInv ==
  ASSUME IInv, BroadcastEnd
  PROVE  IInv'
<1>. USE DEF IInv
<1>1. pending \in Seq(Item) /\ pending # << >>
  BY DEF BroadcastEnd, Typed, Held
<1>2. Head(pending) \in Item /\ Tail(pending) \in Seq(Item)
  BY <1>1, HeadTail
<1>3. Typed'
  BY <1>2 DEF BroadcastEnd, Typed, handlers, makers
<1>4. Held'
  BY DEF BroadcastEnd, Held, handlers, makers
<1>. QED
  BY <1>3, <1>4 DEF BroadcastEnd, Bounded

-----------------------------------------------------------------------------
(* The handlers.                                                           *)

\* A handler that moves on among the phases in which its client is held, or
\* leaves it out, keeps what the Broadcast counts on.
LEMMA GoesHeld ==
  ASSUME IInv, NEW p \in Page, NEW from, NEW to \in Phase, Goes(p, from, to),
         UNCHANGED <<todo, casting, pending>>
  PROVE  /\ pc' \in [Page -> Phase]
         /\ clients' = clients /\ to \notin {"away", "removed", "closed"} => Held'
         /\ clients' = clients /\ from \in {"away", "removed", "closed"} => Held'
         /\ clients' = clients \ {p} /\ ~casting => Held'
         /\ clients' = clients \cup {p} /\ to \notin {"away", "removed", "closed"} => Held'
<1>1. pc' = [pc EXCEPT ![p] = to] /\ pc[p] = from
  BY DEF Goes
<1>2. pc' \in [Page -> Phase] /\ clients \subseteq Page
      /\ \A r \in Page : pc'[r] = IF r = p THEN to ELSE pc[r]
  BY <1>1 DEF IInv, Typed
<1>3. clients' = clients /\ to \notin {"away", "removed", "closed"} => Held'
  BY <1>2 DEF IInv, Held
<1>4. clients' = clients /\ from \in {"away", "removed", "closed"} => Held'
  BY <1>1, <1>2 DEF IInv, Held
<1>5. clients' = clients \ {p} /\ ~casting => Held'
  BY <1>2 DEF IInv, Held
<1>6. clients' = clients \cup {p} /\ to \notin {"away", "removed", "closed"} => Held'
  BY <1>2 DEF IInv, Held
<1>. QED
  BY <1>2, <1>3, <1>4, <1>5, <1>6

LEMMA CloseIInv ==
  ASSUME IInv, NEW p \in Page, Close(p)
  PROVE  IInv'
<1>. USE DEF IInv, Close, makers, casts
<1>1. gone' \in [Page -> BOOLEAN]
  BY DEF Typed
<1>2. Typed'
  BY <1>1 DEF Typed
<1>3. Held'
  BY DEF Held
<1>. QED
  BY <1>2, <1>3 DEF Bounded

LEMMA RegisterIInv ==
  ASSUME IInv, NEW p \in Page, Register(p)
  PROVE  IInv'
<1>. USE DEF IInv
<1>1. PICK to \in {"serving", "registered"} : Goes(p, "away", to)
  BY DEF Register
<1>2. pc' \in [Page -> Phase] /\ Held'
  BY <1>1, GoesHeld DEF Register, casts, Phase
<1>3. made + 1 \in 1 .. MaxItem + 1
  BY FeedAssumption DEF Typed
<1>4. since' \in [Page -> 1 .. MaxItem + 1]
  BY <1>3 DEF Register, Typed
<1>5. Typed'
  BY <1>2, <1>4 DEF Register, Typed, makers, casts
<1>. QED
  BY <1>2, <1>5 DEF Register, Bounded

LEMMA SliceRecentIInv ==
  ASSUME IInv, NEW p \in Page, SliceRecent(p)
  PROVE  IInv'
<1>. USE DEF IInv
<1>1. pc' \in [Page -> Phase] /\ Held'
  BY GoesHeld DEF SliceRecent, casts, Phase
<1>2. PICK s \in Slices : replay' = [replay EXCEPT ![p] = s]
  BY DEF SliceRecent
<1>3. s \in Seq(Shown)
  BY SlicesTyped
<1>4. replay' \in [Page -> Seq(Shown)]
  BY <1>2, <1>3 DEF Typed
<1>5. PICK o \in 1 .. MaxItem + 1 : o = Oldest
  BY OldestTyped
<1>6. since' \in [Page -> 1 .. MaxItem + 1]
  BY <1>5 DEF SliceRecent, Typed
<1>7. Typed'
  BY <1>1, <1>4, <1>6 DEF SliceRecent, Typed, makers, casts
<1>. QED
  BY <1>1, <1>7 DEF SliceRecent, Bounded

LEMMA ReplayNextIInv ==
  ASSUME IInv, NEW p \in Page, ReplayNext(p)
  PROVE  IInv'
<1>. USE DEF IInv
<1>1. replay[p] \in Seq(Shown) /\ replay[p] # << >> /\ send[p] \in Seq(Shown)
      /\ Len(send[p]) < SendCap
  BY DEF ReplayNext, Typed
<1>2. PICK i \in Shown : i = Head(replay[p])
  BY <1>1, HeadTail
<1>3. PICK t \in Seq(Shown) : t = Tail(replay[p])
  BY <1>1, HeadTail
<1>4. send' = [send EXCEPT ![p] = Append(@, i)] /\ replay' = [replay EXCEPT ![p] = t]
  BY <1>2, <1>3 DEF ReplayNext
<1>5. Append(send[p], i) \in Seq(Shown) /\ Len(Append(send[p], i)) <= SendCap
  BY <1>1, Appended, FeedAssumption, LenProperties
<1>6. send' \in [Page -> Seq(Shown)] /\ Bounded'
  BY <1>4, <1>5 DEF Typed, Bounded
<1>7. replay' \in [Page -> Seq(Shown)]
  BY <1>4 DEF Typed
<1>8. Typed'
  BY <1>6, <1>7 DEF ReplayNext, Typed, makers, casts
<1>9. Held'
  BY DEF ReplayNext, Held, casts
<1>. QED
  BY <1>6, <1>8, <1>9

\* Handlers that only move on.
LEMMA MovesOn ==
  ASSUME IInv, NEW p \in Page,
         SlicePanics(p) \/ ReplayEnd(p) \/ Leave(p)
  PROVE  IInv'
<1>. USE DEF IInv
<1>1. PICK from \in Phase, to \in {"leaving", "serving"} : Goes(p, from, to)
  BY DEF SlicePanics, ReplayEnd, Leave, Phase
<1>2. UNCHANGED <<feed, clients, send, settled, gone, replay, since, recent, writing, made,
                  recorded, pending, casting, todo, announced>>
  BY DEF SlicePanics, ReplayEnd, Leave, makers, casts
<1>3. pc' \in [Page -> Phase] /\ Held'
  BY <1>1, <1>2, GoesHeld DEF Phase
<1>4. Typed'
  BY <1>2, <1>3 DEF Typed
<1>. QED
  BY <1>2, <1>3, <1>4 DEF Bounded

LEMMA ShowIInv ==
  ASSUME IInv, NEW p \in Page, Show(p)
  PROVE  IInv'
<1>. USE DEF IInv
<1>1. send[p] \in Seq(Shown) /\ send[p] # << >> /\ Len(send[p]) <= SendCap
  BY DEF Show, Typed, Bounded
<1>2. PICK i \in Shown : i = Head(send[p])
  BY <1>1, HeadTail
<1>3. PICK t \in Seq(Shown) : t = Tail(send[p]) /\ Len(t) = Len(send[p]) - 1
  BY <1>1, HeadTail
<1>4. Len(t) <= SendCap
  BY <1>1, <1>3, FeedAssumption, LenProperties
<1>5. send' = [send EXCEPT ![p] = t]
  BY <1>3 DEF Show
<1>6. send' \in [Page -> Seq(Shown)] /\ Bounded'
  BY <1>4, <1>5 DEF Typed, Bounded
<1>7. UNCHANGED <<feed, clients, gone, replay, since, recent, writing, made, recorded,
                  pending, casting, todo, announced>>
  BY DEF Show, makers, casts
<1>8. CASE settled' = [settled EXCEPT ![p] = @ \cup {i}] /\ pc' = pc
  <2>1. settled' \in [Page -> SUBSET Shown]
    BY <1>8 DEF Typed
  <2>. QED
    BY <1>6, <1>7, <1>8, <2>1 DEF Typed, Held
<1>9. CASE pc' = [pc EXCEPT ![p] = "leaving"] /\ settled' = settled
  <2>1. Goes(p, "serving", "leaving")
    BY <1>9 DEF Show, Goes
  <2>2. pc' \in [Page -> Phase] /\ Held'
    BY <1>7, <2>1, GoesHeld DEF Phase
  <2>. QED
    BY <1>6, <1>7, <1>9, <2>2 DEF Typed
<1>. QED
  BY <1>2, <1>8, <1>9 DEF Show

LEMMA DeregisterIInv ==
  ASSUME IInv, NEW p \in Page, Deregister(p)
  PROVE  IInv'
<1>. USE DEF IInv
<1>1. pc' \in [Page -> Phase] /\ Held'
  BY GoesHeld DEF Deregister, Phase, casts
<1>2. << >> \in Seq(Shown) /\ Len(<< >>) = 0 /\ 1 \in 1 .. MaxItem + 1
  BY FeedAssumption
<1>3. send' \in [Page -> Seq(Shown)] /\ replay' \in [Page -> Seq(Shown)]
  BY <1>2 DEF Deregister, Typed
<1>4. Bounded'
  BY <1>2, FeedAssumption DEF Deregister, Typed, Bounded
<1>5. settled' \in [Page -> SUBSET Shown] /\ since' \in [Page -> 1 .. MaxItem + 1]
  BY <1>2 DEF Deregister, Typed
<1>6. Typed'
  BY <1>1, <1>3, <1>5 DEF Deregister, Typed, makers, casts
<1>. QED
  BY <1>1, <1>4, <1>6

LEMMA CloseSendIInv ==
  ASSUME IInv, NEW p \in Page, CloseSend(p)
  PROVE  IInv'
<1>. USE DEF IInv
<1>1. pc' \in [Page -> Phase] /\ Held'
  BY GoesHeld DEF CloseSend, Phase, casts
<1>2. gone' \in [Page -> BOOLEAN]
  BY DEF CloseSend, Typed
<1>3. Typed'
  BY <1>1, <1>2 DEF CloseSend, Typed, makers, casts
<1>. QED
  BY <1>1, <1>3 DEF CloseSend, Bounded

-----------------------------------------------------------------------------
(* The invariant, and what follows from it.                                *)

LEMMA InitIInv == Init => IInv
<1> SUFFICES ASSUME Init PROVE IInv
  OBVIOUS
<1>1. << >> \in Seq(Shown) /\ << >> \in Seq(Item) /\ Len(<< >>) = 0
  OBVIOUS
<1>2. 1 \in 1 .. MaxItem + 1 /\ 0 \in 0 .. MaxItem /\ 0 <= SendCap /\ 0 <= RecentCap
  BY FeedAssumption
<1>3. Typed
  BY <1>1, <1>2 DEF Init, Typed, Phase, Shown
<1>4. Bounded
  BY <1>1, <1>2 DEF Init, Bounded
<1>5. Held
  BY DEF Init, Held
<1>. QED
  BY <1>3, <1>4, <1>5 DEF IInv

LEMMA NextIInv == IInv /\ [Next]_vars => IInv'
<1> SUFFICES ASSUME IInv, [Next]_vars PROVE IInv'
  OBVIOUS
<1>1. CASE UNCHANGED vars
  BY <1>1 DEF IInv, Typed, Bounded, Held, vars, handlers, makers, casts
<1>2. ASSUME NEW kind, Make(kind) PROVE IInv'
  BY <1>2, MakeIInv
<1>3. CASE Record \/ BroadcastBegin \/ BroadcastEnd
  BY <1>3, RecordIInv, BroadcastBeginIInv, BroadcastEndIInv
<1>4. ASSUME NEW p \in Page, Offer(p) PROVE IInv'
  BY <1>4, OfferIInv
<1>5. ASSUME NEW p \in Page, Register(p) \/ Close(p) PROVE IInv'
  BY <1>5, RegisterIInv, CloseIInv
<1>6. ASSUME NEW p \in Page, Handler(p) PROVE IInv'
  BY <1>6, SliceRecentIInv, ReplayNextIInv, MovesOn, ShowIInv, DeregisterIInv,
     CloseSendIInv DEF Handler
<1>. QED
  BY <1>1, <1>2, <1>3, <1>4, <1>5, <1>6 DEF Next

LEMMA Invariant == Spec => []IInv
<1>1. Init /\ [][Next]_vars => []IInv
  BY InitIInv, NextIInv, PTL
<1>. QED
  BY <1>1, PTL DEF Spec

(* Channels and queues stay within their capacities, and hold items or,    *)
(* after a torn slice, a zero value.                                       *)
THEOREM FeedTyped == Spec => []TypeOK
<1>1. IInv => TypeOK
  <2> SUFFICES ASSUME IInv PROVE TypeOK
    OBVIOUS
  <2>. USE DEF IInv
  <2>1. \A p \in Page :
          /\ send[p] \in Seq(Item \cup {None}) /\ Len(send[p]) <= SendCap
          /\ replay[p] \in Seq(Item \cup {None})
          /\ settled[p] \subseteq Item \cup {None}
          /\ since[p] \in 1 .. MaxItem + 1
    BY DEF Typed, Bounded, Shown
  <2>2. todo \subseteq Page
    BY DEF Typed, Held
  <2>. QED
    BY <2>1, <2>2 DEF TypeOK, Typed, Shown
<1>. QED
  BY <1>1, Invariant, PTL

(* A Broadcast never sends on the closed channel of a page that is gone.   *)
THEOREM FeedNeverSendsOnClosed == Spec => []NeverSendsOnClosed
<1>1. IInv => NeverSendsOnClosed
  BY DEF IInv, Held, NeverSendsOnClosed
<1>. QED
  BY <1>1, Invariant, PTL

-----------------------------------------------------------------------------
(***************************************************************************)
(* Nothing falls between the replay and the live feed.                     *)
(***************************************************************************)

Among(i, s) == \E k \in DOMAIN s : s[k] = i

\* Items are numbered as they are made; recent holds the last of the recorded
\* ones, in order; outside the chat nothing is announced while it is written.
Numbered ==
  /\ announced \subseteq 1 .. made /\ recorded \subseteq 1 .. made
  /\ \A k \in DOMAIN pending : pending[k] <= made
  /\ writing # None => writing = made /\ writing \notin recorded
  /\ writing # None /\ feed # "chat" => pending = << >> /\ writing \notin announced

Recents ==
  /\ \A k \in DOMAIN recent : recent[k] \in recorded
  /\ \A j, k \in DOMAIN recent : j < k => recent[j] < recent[k]
  /\ recent = << >> => recorded = {}
  /\ \A i \in recorded : recent # << >> /\ i >= Head(recent) => Among(i, recent)

\* A page's handler before it leaves.
Open == {"registered", "replaying", "serving"}

\* A Broadcast has reached the open pages it no longer has to look at.
Reached(p) ==
  /\ pc[p] \in Open => p \in clients
  /\ pc[p] \in {"away", "registered"} => replay[p] = << >>
  /\ p \in LiveOnly => pc[p] \notin {"registered", "replaying"}
  /\ casting /\ pc[p] \in Open /\ p \notin todo => Head(pending) \in Seen(p)

\* What has been announced, and is or is being recorded, since p came.
Owed(p) ==
  {i \in IF p \in LiveOnly THEN announced ELSE announced \cap (recorded \cup {writing}) :
     i >= since[p]}

OneLost(S) == \E x : S \subseteq {x}

\* The chat's pages may have lost the item that was being written when they
\* looked at the recent ones.
Told(p) ==
  pc[p] \in {"replaying", "serving"} =>
    IF feed = "chat" /\ p \notin LiveOnly
    THEN OneLost(Owed(p) \ Seen(p))
    ELSE Owed(p) \subseteq Seen(p)

GapInv == Numbered /\ Recents /\ \A p \in Page : Reached(p) /\ Told(p)

LEMMA TailAt ==
  ASSUME NEW S, NEW s \in Seq(S), s # << >>
  PROVE  /\ DOMAIN s = 1 .. Len(s) /\ DOMAIN Tail(s) = 1 .. Len(s) - 1 /\ Len(s) \in Nat \ {0}
         /\ Head(s) = s[1] /\ \A k \in DOMAIN Tail(s) : Tail(s)[k] = s[k + 1]
         /\ Tail(s) # << >> => Len(s) >= 2 /\ Head(Tail(s)) = s[2]
<1>1. /\ DOMAIN s = 1 .. Len(s) /\ DOMAIN Tail(s) = 1 .. Len(s) - 1 /\ Len(s) \in Nat \ {0}
      /\ Head(s) = s[1] /\ \A k \in 1 .. Len(s) - 1 : Tail(s)[k] = s[k + 1]
      /\ Tail(s) \in Seq(S) /\ Len(Tail(s)) = Len(s) - 1
  OBVIOUS
<1>2. ASSUME Tail(s) # << >> PROVE Len(s) >= 2 /\ Head(Tail(s)) = s[2]
  <2>1. Len(Tail(s)) # 0 /\ Head(Tail(s)) = Tail(s)[1]
    BY <1>1, <1>2
  <2>2. Len(s) >= 2 /\ 1 \in 1 .. Len(s) - 1
    BY <1>1, <2>1
  <2>3. Tail(s)[1] = s[1 + 1]
    BY <1>1, <2>2
  <2>. QED
    BY <2>1, <2>2, <2>3
<1>. QED
  BY <1>1, <1>2

LEMMA AmongTail ==
  ASSUME NEW S, NEW s \in Seq(S), s # << >>, NEW i
  PROVE  Among(i, s) <=> i = Head(s) \/ Among(i, Tail(s))
<1>1. /\ DOMAIN s = 1 .. Len(s) /\ DOMAIN Tail(s) = 1 .. Len(s) - 1 /\ Len(s) \in Nat \ {0}
      /\ Head(s) = s[1] /\ \A k \in 1 .. Len(s) - 1 : Tail(s)[k] = s[k + 1]
  OBVIOUS
<1>2. ASSUME NEW k \in DOMAIN s, k # 1, s[k] = i PROVE Among(i, Tail(s))
  <2>1. k - 1 \in DOMAIN Tail(s) /\ Tail(s)[k - 1] = s[k]
    BY <1>1, <1>2
  <2>. QED
    BY <1>2, <2>1 DEF Among
<1>3. ASSUME NEW k \in DOMAIN Tail(s), Tail(s)[k] = i PROVE Among(i, s)
  <2>1. k + 1 \in DOMAIN s /\ s[k + 1] = i
    BY <1>1, <1>3
  <2>. QED
    BY <2>1 DEF Among
<1>4. 1 \in DOMAIN s
  BY <1>1
<1>. QED
  BY <1>1, <1>2, <1>3, <1>4 DEF Among

LEMMA AmongAppend ==
  ASSUME NEW S, NEW s \in Seq(S), NEW e, NEW i
  PROVE  Among(i, Append(s, e)) <=> Among(i, s) \/ i = e
<1>1. /\ DOMAIN Append(s, e) = 1 .. Len(s) + 1 /\ DOMAIN s = 1 .. Len(s) /\ Len(s) \in Nat
      /\ \A k \in 1 .. Len(s) : Append(s, e)[k] = s[k]
      /\ Append(s, e)[Len(s) + 1] = e
  OBVIOUS
<1>2. \A k \in DOMAIN s : k \in DOMAIN Append(s, e) /\ Append(s, e)[k] = s[k]
  BY <1>1
<1>3. Len(s) + 1 \in DOMAIN Append(s, e)
  BY <1>1
<1>4. \A k \in DOMAIN Append(s, e) : k \in DOMAIN s \/ Append(s, e)[k] = e
  BY <1>1
<1>. QED
  BY <1>1, <1>2, <1>3, <1>4 DEF Among

\* What a page has seen, and sees with its next step.
LEMMA SeenIff ==
  ASSUME NEW p \in Page, NEW i
  PROVE  /\ i \in Seen(p) <=> i \in settled[p] \/ Among(i, send[p]) \/ Among(i, replay[p])
         /\ i \in Seen(p)' <=> i \in settled'[p] \/ Among(i, send'[p]) \/ Among(i, replay'[p])
<1>1. i \in Seen(p) <=> i \in settled[p] \/ Among(i, send[p]) \/ Among(i, replay[p])
  BY DEF Seen, Among
<1>2. i \in Seen(p)' <=> i \in settled'[p] \/ Among(i, send'[p]) \/ Among(i, replay'[p])
  BY DEF Seen, Among
<1>. QED
  BY <1>1, <1>2

\* A page that goes on, or leaves, is told no less than before.
LEMMA PageStep ==
  ASSUME NEW p \in Page, Reached(p), Told(p), feed' = feed,
         \/ pc'[p] = pc[p]
         \/ pc[p] = "replaying" /\ pc'[p] = "serving"
         \/ pc'[p] \notin Open \cup {"away"},
         pc'[p] \in Open /\ p \in clients => p \in clients',
         replay[p] = << >> => replay'[p] = << >>,
         casting' /\ pc'[p] \in Open /\ p \notin todo' => Head(pending)' \in Seen(p)',
         pc'[p] \in {"replaying", "serving"} =>
           Owed(p)' \ Seen(p)' \subseteq Owed(p) \ Seen(p)
  PROVE  Reached(p)' /\ Told(p)'
<1>1. Reached(p)'
  BY DEF Reached, Open
<1>2. Told(p)'
  <2> SUFFICES ASSUME pc'[p] \in {"replaying", "serving"}
               PROVE  IF feed = "chat" /\ p \notin LiveOnly
                      THEN OneLost(Owed(p)' \ Seen(p)')
                      ELSE Owed(p)' \subseteq Seen(p)'
    BY DEF Told, OneLost
  <2>1. pc[p] \in {"replaying", "serving"}
    BY DEF Open
  <2>2. CASE feed = "chat" /\ p \notin LiveOnly
    <3>1. PICK x : Owed(p) \ Seen(p) \subseteq {x}
      BY <2>1, <2>2 DEF Told, OneLost
    <3>2. Owed(p)' \ Seen(p)' \subseteq {x}
      BY <3>1
    <3>. QED
      BY <2>2, <3>2 DEF OneLost
  <2>3. CASE ~(feed = "chat" /\ p \notin LiveOnly)
    <3>1. Owed(p) \ Seen(p) = {}
      BY <2>1, <2>3 DEF Told
    <3>2. Owed(p)' \ Seen(p)' = {}
      BY <3>1
    <3>. QED
      BY <2>3, <3>2
  <2>. QED
    BY <2>2, <2>3
<1>. QED
  BY <1>1, <1>2

-----------------------------------------------------------------------------
(* The makers and the Broadcast.                                           *)

LEMMA MakeGap ==
  ASSUME IInv, GapInv, NEW kind \in {"both", "record", "broadcast"}, Make(kind)
  PROVE  GapInv'
<1>1. /\ writing = None /\ made' = made + 1 /\ made \in Nat /\ None \notin Item
      /\ writing' \in {None, made + 1}
      /\ feed # "chat" => pending = << >>
      /\ pending' \in {pending, Append(pending, made + 1)}
      /\ UNCHANGED <<feed, clients, send, settled, pc, replay, since, recent, recorded,
                     casting, todo, announced>>
  BY FeedAssumption DEF Make, handlers, IInv, Typed, Item, None
<1>2. pending \in Seq(Item) /\ (casting => pending # << >>)
  BY DEF IInv, Typed, Held
<1>3. Numbered'
  <2>1. announced' \subseteq 1 .. made' /\ recorded' \subseteq 1 .. made'
    BY <1>1 DEF GapInv, Numbered
  <2>2. ASSUME NEW k \in DOMAIN pending' PROVE pending'[k] <= made'
    <3>1. CASE pending' = pending
      <4>1. pending[k] <= made /\ pending[k] \in Item
        BY <1>2, <2>2, <3>1 DEF GapInv, Numbered
      <4>. QED
        BY <1>1, <3>1, <4>1 DEF Item
    <3>2. CASE pending' = Append(pending, made + 1)
      <4>1. k \in DOMAIN pending \/ pending'[k] = made + 1
        BY <1>2, <2>2, <3>2
      <4>2. k \in DOMAIN pending => pending'[k] = pending[k] /\ pending[k] <= made
        BY <1>2, <3>2 DEF GapInv, Numbered
      <4>3. k \in DOMAIN pending => pending[k] \in Item
        BY <1>2
      <4>. QED
        BY <1>1, <4>1, <4>2, <4>3 DEF Item
    <3>. QED
      BY <1>1, <3>1, <3>2
  <2>3. writing' # None => writing' = made' /\ writing' \notin recorded'
    BY <1>1 DEF GapInv, Numbered
  <2>4. ASSUME writing' # None, feed' # "chat"
        PROVE  pending' = << >> /\ writing' \notin announced'
    <3>1. kind # "broadcast"
      BY <2>4 DEF Make
    <3>2. AnnouncedAt(kind) # "made"
      BY <1>1, <2>4, <3>1 DEF AnnouncedAt
    <3>3. pending' = << >>
      BY <1>1, <2>4, <3>2 DEF Make
    <3>. QED
      BY <1>1, <2>4, <3>3 DEF GapInv, Numbered
  <2>. QED
    BY <2>1, <2>2, <2>3, <2>4 DEF Numbered
<1>4. Recents'
  BY <1>1 DEF GapInv, Recents, Among
<1>5. ASSUME NEW p \in Page PROVE Reached(p)' /\ Told(p)'
  <2>1. Seen(p)' = Seen(p)
    BY <1>1 DEF Seen
  <2>2. Owed(p)' \subseteq Owed(p)
    BY <1>1 DEF Owed, GapInv, Numbered, None
  <2>3. casting => Head(pending)' = Head(pending)
    <3>1. pending # << >> => Head(Append(pending, made + 1)) = Head(pending)
      BY <1>2
    <3>. QED
      BY <1>1, <1>2, <3>1
  <2>4. Reached(p) /\ Told(p)
    BY DEF GapInv
  <2>5. casting' /\ pc'[p] \in Open /\ p \notin todo' => Head(pending)' \in Seen(p)'
    BY <1>1, <2>1, <2>3, <2>4 DEF Reached
  <2>. QED
    BY <1>1, <2>1, <2>2, <2>4, <2>5, PageStep
<1>. QED
  BY <1>3, <1>4, <1>5 DEF GapInv

\* The queue after its new item still holds the last of the recorded ones.
LEMMA RolledHolds ==
  ASSUME IInv, GapInv, writing # None
  PROVE  /\ Rolled \in Seq(Item) /\ Rolled # << >>
         /\ \A k \in DOMAIN Rolled : Rolled[k] \in recorded \cup {writing}
         /\ \A j, k \in DOMAIN Rolled : j < k => Rolled[j] < Rolled[k]
         /\ \A i \in recorded : i >= Head(Rolled) => Among(i, Rolled) /\ Among(i, recent)
         /\ \A i \in recorded : i >= Head(Rolled) /\ Len(recent) = RecentCap =>
              Among(i, Tail(recent))
         /\ Among(writing, Rolled)
<1> DEFINE s == IF Len(recent) = RecentCap THEN Tail(recent) ELSE recent
<1>1. /\ recent \in Seq(Item) /\ Len(recent) \in Nat /\ RecentCap \in Nat \ {0}
      /\ writing \in Item /\ writing = made /\ writing \notin recorded
      /\ recorded \subseteq 1 .. made /\ made \in Nat
  BY LenProperties, FeedAssumption DEF IInv, Typed, GapInv, Numbered, Shown
<1>2. Rolled = Append(s, writing)
  BY DEF Rolled
<1>3. Len(recent) = RecentCap => recent # << >>
  BY <1>1
<1>4. s \in Seq(Item)
  BY <1>1, <1>3, HeadTail
<1>5. \A i \in recorded : i < writing
  BY <1>1
<1>6. /\ \A k \in DOMAIN s : s[k] \in recorded
      /\ \A j, k \in DOMAIN s : j < k => s[j] < s[k]
  <2>1. CASE Len(recent) = RecentCap
    <3>1. /\ DOMAIN s = 1 .. Len(recent) - 1 /\ DOMAIN recent = 1 .. Len(recent)
          /\ \A k \in DOMAIN s : s[k] = recent[k + 1]
      <4>1. recent # << >> /\ s = Tail(recent)
        BY <1>3, <2>1
      <4> HIDE DEF s
      <4>. QED
        BY <1>1, <4>1, TailAt
    <3> HIDE DEF s
    <3>2. \A k \in DOMAIN s : k + 1 \in DOMAIN recent /\ s[k] = recent[k + 1] /\ k \in Int
      BY <1>1, <3>1
    <3>3. \A j, k \in DOMAIN s : j < k => j + 1 < k + 1
      BY <3>2
    <3>. QED
      BY <3>2, <3>3 DEF GapInv, Recents
  <2>2. CASE Len(recent) # RecentCap
    BY <2>2 DEF GapInv, Recents
  <2>. QED
    BY <2>1, <2>2
<1>7. \A i \in recorded : recent # << >> /\ i >= Head(recent) => Among(i, recent)
  BY DEF GapInv, Recents
<1>8. \A i \in recorded : s = << >> \/ i >= Head(s) =>
        IF s = << >> THEN Len(recent) = RecentCap \/ recorded = {} ELSE Among(i, s)
  <2> SUFFICES ASSUME NEW i \in recorded, s # << >>, i >= Head(s) PROVE Among(i, s)
    BY <1>1 DEF GapInv, Recents
  <2>1. CASE Len(recent) # RecentCap
    BY <1>7, <2>1
  <2>2. CASE Len(recent) = RecentCap
    <3>1. /\ 1 \in DOMAIN recent /\ 2 \in DOMAIN recent
          /\ Head(s) = recent[2] /\ Head(recent) = recent[1]
      <4>1. recent # << >> /\ s = Tail(recent)
        BY <1>3, <2>2
      <4> HIDE DEF s
      <4>. QED
        BY <1>1, <4>1, TailAt
    <3>2. recent[1] < recent[2] /\ recent[1] \in Int /\ recent[2] \in Int /\ i \in Int
      <4>1. recent[1] < recent[2] /\ recent[1] \in recorded /\ recent[2] \in recorded
        BY <3>1 DEF GapInv, Recents
      <4>2. \A x \in recorded : x \in Int
        BY <1>1
      <4>. QED
        BY <4>1, <4>2
    <3>3. i >= Head(recent) /\ i # Head(recent)
      BY <3>1, <3>2
    <3>4. Among(i, recent)
      BY <1>3, <1>7, <2>2, <3>3
    <3>. QED
      BY <1>1, <1>3, <2>2, <3>3, <3>4, AmongTail
  <2>. QED
    BY <2>1, <2>2
<1> HIDE DEF s
<1>9. Head(Rolled) = IF s = << >> THEN writing ELSE Head(s)
  BY <1>2, <1>4
<1>10. \A i \in recorded : i >= Head(Rolled) => s # << >> /\ Among(i, s)
  BY <1>1, <1>5, <1>8, <1>9
<1>11. \A i : Among(i, s) => Among(i, recent)
  <2>1. CASE Len(recent) = RecentCap
    BY <1>1, <1>3, <2>1, AmongTail DEF s
  <2>2. CASE Len(recent) # RecentCap
    BY <2>2 DEF s
  <2>. QED
    BY <2>1, <2>2
<1>12. Rolled \in Seq(Item) /\ Rolled # << >>
  BY <1>1, <1>2, <1>4, Appended
<1>13. /\ DOMAIN Rolled = 1 .. Len(s) + 1 /\ DOMAIN s = 1 .. Len(s) /\ Len(s) \in Nat
       /\ \A k \in DOMAIN s : Rolled[k] = s[k]
       /\ Rolled[Len(s) + 1] = writing
  BY <1>2, <1>4
<1>14. \A k \in DOMAIN Rolled : k \in DOMAIN s \/ k = Len(s) + 1
  BY <1>13
<1>15. \A k \in DOMAIN Rolled : Rolled[k] \in recorded \cup {writing}
  BY <1>6, <1>13, <1>14
<1>16. ASSUME NEW j \in DOMAIN Rolled, NEW k \in DOMAIN Rolled, j < k
       PROVE  Rolled[j] < Rolled[k]
  <2>1. j \in DOMAIN s
    BY <1>13, <1>16
  <2>2. CASE k \in DOMAIN s
    BY <1>6, <1>13, <1>16, <2>1, <2>2
  <2>3. CASE k = Len(s) + 1
    BY <1>5, <1>6, <1>13, <2>1, <2>3
  <2>. QED
    BY <1>14, <2>2, <2>3
<1>17. \A i : Among(i, Rolled) <=> Among(i, s) \/ i = writing
  BY <1>2, <1>4, AmongAppend
<1>18. \A i \in recorded : i >= Head(Rolled) /\ Len(recent) = RecentCap =>
         Among(i, Tail(recent))
  BY <1>10 DEF s
<1>. QED
  BY <1>10, <1>11, <1>12, <1>15, <1>16, <1>17, <1>18

LEMMA RecordGap ==
  ASSUME IInv, GapInv, Record
  PROVE  GapInv'
<1>1. /\ writing # None /\ writing \in Item /\ recent' = Rolled
      /\ recorded' = recorded \cup {writing} /\ writing' = None
      /\ pending' \in {pending, Append(pending, writing)}
      /\ UNCHANGED <<feed, clients, send, settled, pc, replay, since, made,
                     casting, todo, announced>>
  BY DEF Record, handlers, IInv, Typed, Shown
<1>2. /\ pending \in Seq(Item) /\ (casting => pending # << >>)
      /\ writing = made /\ made \in Nat /\ None \notin 1 .. made
  BY <1>1 DEF IInv, Typed, Held, GapInv, Numbered, None
<1>3. Numbered'
  <2>1. announced' \subseteq 1 .. made' /\ recorded' \subseteq 1 .. made'
    BY <1>1, <1>2 DEF GapInv, Numbered, Item
  <2>2. ASSUME NEW k \in DOMAIN pending' PROVE pending'[k] <= made'
    <3>1. CASE pending' = pending
      BY <1>1, <2>2, <3>1 DEF GapInv, Numbered
    <3>2. CASE pending' = Append(pending, writing)
      <4>1. k \in DOMAIN pending \/ pending'[k] = writing
        BY <1>2, <2>2, <3>2
      <4>2. k \in DOMAIN pending => pending'[k] = pending[k] /\ pending[k] <= made
        BY <1>2, <3>2 DEF GapInv, Numbered
      <4>. QED
        BY <1>1, <1>2, <4>1, <4>2
    <3>. QED
      BY <1>1, <3>1, <3>2
  <2>. QED
    BY <1>1, <2>1, <2>2 DEF Numbered
<1>4. Recents'
  <2>1. /\ Rolled \in Seq(Item) /\ Rolled # << >>
        /\ \A k \in DOMAIN Rolled : Rolled[k] \in recorded \cup {writing}
        /\ \A j, k \in DOMAIN Rolled : j < k => Rolled[j] < Rolled[k]
        /\ \A i \in recorded : i >= Head(Rolled) => Among(i, Rolled)
        /\ Among(writing, Rolled)
    BY <1>1, RolledHolds
  <2>2. PICK r : r = Rolled
    OBVIOUS
  <2>. QED
    BY <1>1, <2>1, <2>2 DEF Recents, Among
<1>5. ASSUME NEW p \in Page PROVE Reached(p)' /\ Told(p)'
  <2>1. Seen(p)' = Seen(p)
    BY <1>1 DEF Seen
  <2>2. Owed(p)' \subseteq Owed(p)
    BY <1>1, <1>2 DEF Owed, GapInv, Numbered
  <2>3. casting => Head(pending)' = Head(pending)
    <3>1. pending # << >> => Head(Append(pending, writing)) = Head(pending)
      BY <1>2
    <3>. QED
      BY <1>1, <1>2, <3>1
  <2>4. Reached(p) /\ Told(p)
    BY DEF GapInv
  <2>5. casting' /\ pc'[p] \in Open /\ p \notin todo' => Head(pending)' \in Seen(p)'
    BY <1>1, <2>1, <2>3, <2>4 DEF Reached
  <2>. QED
    BY <1>1, <2>1, <2>2, <2>4, <2>5, PageStep
<1>. QED
  BY <1>3, <1>4, <1>5 DEF GapInv

LEMMA BroadcastBeginGap ==
  ASSUME IInv, GapInv, BroadcastBegin
  PROVE  GapInv'
<1>1. /\ todo' = clients
      /\ UNCHANGED <<feed, clients, send, settled, pc, replay, since, recent, writing, made,
                     recorded, pending, announced>>
  BY DEF BroadcastBegin, handlers, makers
<1>2. Numbered' /\ Recents'
  BY <1>1 DEF GapInv, Numbered, Recents, Among
<1>3. ASSUME NEW p \in Page PROVE Reached(p)' /\ Told(p)'
  <2>1. Reached(p) /\ Told(p) /\ Seen(p)' = Seen(p) /\ Owed(p)' = Owed(p)
    BY <1>1 DEF GapInv, Seen, Owed
  <2>2. pc'[p] \in Open => p \in todo'
    BY <1>1, <2>1 DEF Reached
  <2>. QED
    BY <1>1, <2>1, <2>2, PageStep
<1>. QED
  BY <1>2, <1>3 DEF GapInv

LEMMA OfferGap ==
  ASSUME IInv, GapInv, NEW r \in Page, Offer(r)
  PROVE  GapInv'
<1>1. /\ todo' = todo \ {r}
      /\ UNCHANGED <<feed, clients, pc, replay, since, recent, writing, made,
                     recorded, pending, casting, announced>>
      /\ casting
  BY DEF Offer, handlers, makers
<1>2. Numbered' /\ Recents'
  BY <1>1 DEF GapInv, Numbered, Recents, Among
<1>3. PICK i : i = Head(pending)
  OBVIOUS
<1>4. /\ send[r] \in Seq(Shown)
      /\ \/ send' = [send EXCEPT ![r] = Append(@, i)] /\ UNCHANGED settled
         \/ settled' = [settled EXCEPT ![r] = @ \cup {i}] /\ UNCHANGED send
      /\ send \in [Page -> Seq(Shown)] /\ settled \in [Page -> SUBSET Shown]
  BY <1>3 DEF IInv, Typed, Offer
<1>5. ASSUME NEW p \in Page PROVE Reached(p)' /\ Told(p)'
  <2>1. Reached(p) /\ Told(p) /\ Owed(p)' = Owed(p)
    BY <1>1 DEF GapInv, Owed
  <2>2. /\ settled[p] \subseteq settled'[p]
        /\ \A x : Among(x, send[p]) => Among(x, send'[p])
        /\ p = r => i \in settled'[p] \/ Among(i, send'[p])
    <3>1. CASE p # r
      BY <1>4, <3>1
    <3>2. CASE p = r
      <4>1. \A x : Among(x, Append(send[r], i)) <=> Among(x, send[r]) \/ x = i
        BY <1>4, AmongAppend
      <4>2. \/ send'[r] = Append(send[r], i) /\ settled'[r] = settled[r]
            \/ settled'[r] = settled[r] \cup {i} /\ send'[r] = send[r]
        BY <1>4
      <4>. QED
        BY <3>2, <4>1, <4>2
    <3>. QED
      BY <3>1, <3>2
  <2>3. \A x : x \in Seen(p) => x \in Seen(p)'
    BY <1>1, <2>2, SeenIff
  <2>4. p = r => i \in Seen(p)'
    BY <2>2, SeenIff
  <2>5. Owed(p)' \ Seen(p)' \subseteq Owed(p) \ Seen(p)
    BY <2>1, <2>3
  <2>6. casting' /\ pc'[p] \in Open /\ p \notin todo' => Head(pending)' \in Seen(p)'
    BY <1>1, <1>3, <2>1, <2>3, <2>4 DEF Reached
  <2>. QED
    BY <1>1, <2>1, <2>5, <2>6, PageStep
<1>. QED
  BY <1>2, <1>5 DEF GapInv

LEMMA BroadcastEndGap ==
  ASSUME IInv, GapInv, BroadcastEnd
  PROVE  GapInv'
<1>1. /\ casting /\ todo = {} /\ casting' = FALSE
      /\ announced' = announced \cup {Head(pending)} /\ pending' = Tail(pending)
      /\ UNCHANGED <<feed, clients, send, settled, pc, replay, since, recent, writing, made,
                     recorded, todo>>
  BY DEF BroadcastEnd, handlers, makers
<1>2. pending \in Seq(Item) /\ pending # << >> /\ made \in Nat
  BY <1>1 DEF IInv, Typed, Held
<1>3. Numbered'
  <2>1. /\ DOMAIN pending = 1 .. Len(pending) /\ Len(pending) \in Nat \ {0}
        /\ DOMAIN Tail(pending) = 1 .. Len(pending) - 1 /\ Head(pending) = pending[1]
        /\ \A k \in DOMAIN Tail(pending) : Tail(pending)[k] = pending[k + 1]
    BY <1>2, TailAt
  <2>2. Head(pending) \in 1 .. made
    <3>1. 1 \in DOMAIN pending
      BY <2>1
    <3>2. pending[1] \in Item /\ pending[1] <= made
      BY <1>2, <3>1 DEF GapInv, Numbered
    <3>. QED
      BY <1>2, <2>1, <3>2 DEF Item
  <2>3. \A k \in DOMAIN Tail(pending) : Tail(pending)[k] <= made
    <3> SUFFICES ASSUME NEW k \in DOMAIN Tail(pending) PROVE Tail(pending)[k] <= made
      OBVIOUS
    <3>1. k + 1 \in DOMAIN pending
      BY <2>1
    <3>. QED
      BY <2>1, <3>1 DEF GapInv, Numbered
  <2>. QED
    BY <1>1, <1>2, <2>2, <2>3 DEF GapInv, Numbered
<1>4. Recents'
  BY <1>1 DEF GapInv, Recents, Among
<1>5. ASSUME NEW p \in Page PROVE Reached(p)' /\ Told(p)'
  <2>1. Reached(p) /\ Told(p) /\ Seen(p)' = Seen(p)
    BY <1>1 DEF GapInv, Seen
  <2>2. pc'[p] \in {"replaying", "serving"} => Head(pending) \in Seen(p)
    BY <1>1, <2>1 DEF Reached, Open
  <2>3. Owed(p)' \subseteq Owed(p) \cup {Head(pending)}
    BY <1>1 DEF Owed
  <2>4. pc'[p] \in {"replaying", "serving"} =>
          Owed(p)' \ Seen(p)' \subseteq Owed(p) \ Seen(p)
    BY <2>1, <2>2, <2>3
  <2>. QED
    BY <1>1, <2>1, <2>4, PageStep
<1>. QED
  BY <1>3, <1>4, <1>5 DEF GapInv

-----------------------------------------------------------------------------
(* The handlers.                                                           *)

\* A handler leaves the other pages, the items and the Broadcast alone.
LEMMA OthersGap ==
  ASSUME GapInv, NEW r \in Page, UNCHANGED <<feed, makers, casts>>,
         \A p \in Page \ {r} : /\ p \in clients => p \in clients'
                               /\ pc'[p] = pc[p] /\ since'[p] = since[p]
                               /\ send'[p] = send[p] /\ settled'[p] = settled[p]
                               /\ replay'[p] = replay[p],
         Reached(r)' /\ Told(r)'
  PROVE  GapInv'
<1>1. UNCHANGED <<feed, recent, writing, made, recorded, pending, casting, todo, announced>>
  BY DEF makers, casts
<1>2. Numbered' /\ Recents'
  BY <1>1 DEF GapInv, Numbered, Recents, Among
<1>3. ASSUME NEW p \in Page, p # r PROVE Reached(p)' /\ Told(p)'
  <2>1. Reached(p) /\ Told(p) /\ Seen(p)' = Seen(p) /\ Owed(p)' = Owed(p)
    BY <1>1, <1>3 DEF GapInv, Seen, Owed
  <2>2. casting' /\ pc'[p] \in Open /\ p \notin todo' => Head(pending)' \in Seen(p)'
    BY <1>1, <1>3, <2>1 DEF Reached
  <2>. QED
    BY <1>1, <1>3, <2>1, <2>2, PageStep
<1>. QED
  BY <1>2, <1>3 DEF GapInv

LEMMA RegisterGap ==
  ASSUME IInv, GapInv, NEW r \in Page, Register(r)
  PROVE  GapInv'
<1>1. /\ ~casting /\ pc[r] = "away" /\ r \in clients'
      /\ pc'[r] = IF r \in LiveOnly THEN "serving" ELSE "registered"
      /\ since'[r] = made + 1
      /\ UNCHANGED <<feed, send, settled, replay, makers, casts>>
      /\ \A p \in Page \ {r} : /\ p \in clients => p \in clients'
                               /\ pc'[p] = pc[p] /\ since'[p] = since[p]
  BY DEF Register, Goes, IInv, Typed
<1>2. ~casting' /\ announced' = announced
  BY <1>1 DEF casts
<1>3. replay'[r] = << >>
  BY <1>1 DEF GapInv, Reached
<1>4. Reached(r)'
  BY <1>1, <1>2, <1>3 DEF Reached
<1>5. Told(r)'
  <2> SUFFICES ASSUME r \in LiveOnly PROVE Owed(r)' = {}
    BY <1>1 DEF Told
  <2>1. Owed(r)' = {i \in announced : i >= made + 1}
    BY <1>1, <1>2 DEF Owed
  <2>2. announced \subseteq 1 .. made /\ made \in Nat
    BY DEF GapInv, Numbered, IInv, Typed
  <2>3. \A i \in announced : ~(i >= made + 1)
    BY <2>2
  <2>. QED
    BY <2>1, <2>3
<1>. QED
  BY <1>1, <1>4, <1>5, OthersGap

LEMMA SliceRecentGap ==
  ASSUME IInv, GapInv, NEW r \in Page, SliceRecent(r)
  PROVE  GapInv'
<1>0. PICK s \in Slices : replay' = [replay EXCEPT ![r] = s]
  BY DEF SliceRecent
<1>1. PICK o : o = Oldest
  OBVIOUS
<1>2. /\ pc[r] = "registered" /\ pc'[r] = "replaying"
      /\ since'[r] = o /\ replay'[r] = s
      /\ UNCHANGED <<feed, clients, send, settled, makers, casts>>
      /\ \A p \in Page \ {r} : /\ pc'[p] = pc[p] /\ since'[p] = since[p]
                               /\ replay'[p] = replay[p]
  BY <1>0, <1>1 DEF SliceRecent, Goes, IInv, Typed
<1>3. /\ r \notin LiveOnly /\ replay[r] = << >> /\ r \in clients
      /\ UNCHANGED <<recent, writing, made, recorded, pending, casting, todo, announced>>
  BY <1>2 DEF GapInv, Reached, makers, casts, Open
<1>4. \A i : i \in Seen(r) => i \in Seen(r)'
  <2>1. \A i : ~Among(i, replay[r])
    BY <1>3 DEF Among
  <2>. QED
    BY <1>2, <2>1, SeenIff
<1>5. Reached(r)'
  BY <1>2, <1>3, <1>4 DEF GapInv, Reached, Open
<1>6. \A i \in recorded : i >= o => Among(i, s)
  <2>1. CASE writing = None
    <3>1. s = recent
      BY <2>1 DEF Slices
    <3>2. recent # << >> => o = Head(recent)
      BY <1>1, <2>1 DEF Oldest
    <3>. QED
      BY <3>1, <3>2 DEF GapInv, Recents
  <2>2. CASE writing # None
    <3>1. o = Head(Rolled)
      BY <1>1, <2>2 DEF Oldest
    <3>2. \A i \in recorded : i >= o =>
            /\ Among(i, Rolled) /\ Among(i, recent)
            /\ Len(recent) = RecentCap => Among(i, Tail(recent))
      BY <2>2, <3>1, RolledHolds
    <3>3. CASE s = recent \/ s = Rolled
      BY <3>2, <3>3
    <3>4. CASE /\ Len(recent) = RecentCap
               /\ s = Tail(recent) \/ s = Append(Tail(recent), None)
      <4>0. PICK t : t = Tail(recent)
        OBVIOUS
      <4>1. t \in Seq(Item)
        <5>1. recent \in Seq(Item) /\ recent # << >>
          BY <3>4, FeedAssumption DEF IInv, Typed
        <5>. QED
          BY <4>0, <5>1, HeadTail
      <4>2. \A i : Among(i, Append(t, None)) <=> Among(i, t) \/ i = None
        BY <4>1, AmongAppend
      <4>. QED
        BY <3>2, <3>4, <4>0, <4>2
    <3>. QED
      BY <2>2, <3>3, <3>4 DEF Slices
  <2>. QED
    BY <2>1, <2>2
<1>7. Told(r)'
  <2>1. Owed(r)' = {i \in announced \cap (recorded \cup {writing}) : i >= o}
    BY <1>2, <1>3 DEF Owed
  <2>2. \A i \in recorded : i >= o => i \in Seen(r)'
    BY <1>2, <1>6, SeenIff
  <2>3. Owed(r)' \ Seen(r)' \subseteq {writing}
    BY <2>1, <2>2
  <2>4. feed # "chat" => writing \notin announced
    BY DEF GapInv, Numbered, None
  <2>5. CASE feed = "chat"
    BY <1>2, <1>3, <2>3, <2>5 DEF Told, OneLost
  <2>6. CASE feed # "chat"
    <3>1. Owed(r)' \subseteq Seen(r)'
      BY <2>1, <2>2, <2>4, <2>6
    <3>. QED
      BY <1>2, <2>6, <3>1 DEF Told
  <2>. QED
    BY <2>5, <2>6
<1>. QED
  BY <1>2, <1>5, <1>7, OthersGap

LEMMA SlicePanicsGap ==
  ASSUME IInv, GapInv, NEW r \in Page, SlicePanics(r)
  PROVE  GapInv'
<1>1. /\ pc'[r] = "leaving"
      /\ UNCHANGED <<feed, clients, send, settled, replay, since, makers, casts>>
      /\ \A p \in Page \ {r} : pc'[p] = pc[p]
  BY DEF SlicePanics, Goes, IInv, Typed
<1>2. Reached(r)' /\ Told(r)'
  BY <1>1 DEF Reached, Told, Open
<1>. QED
  BY <1>1, <1>2, OthersGap

\* What was to be replayed is in the channel now.
LEMMA ReplayNextGap ==
  ASSUME IInv, GapInv, NEW r \in Page, ReplayNext(r)
  PROVE  GapInv'
<1>1. PICK x : x = Head(replay[r])
  OBVIOUS
<1>2. /\ replay[r] # << >> /\ replay[r] \in Seq(Shown) /\ send[r] \in Seq(Shown)
      /\ send'[r] = Append(send[r], x) /\ replay'[r] = Tail(replay[r])
      /\ UNCHANGED <<feed, clients, settled, pc, since, makers, casts>>
      /\ \A p \in Page \ {r} : send'[p] = send[p] /\ replay'[p] = replay[p]
  BY <1>1 DEF ReplayNext, IInv, Typed
<1>3. UNCHANGED <<recorded, writing, announced, pending, casting, todo>>
  BY <1>2 DEF makers, casts
<1>4. \A i : i \in Seen(r) => i \in Seen(r)'
  <2>1. \A i : Among(i, send'[r]) <=> Among(i, send[r]) \/ i = x
    BY <1>2, AmongAppend
  <2>2. \A i : Among(i, replay[r]) <=> i = x \/ Among(i, replay'[r])
    BY <1>1, <1>2, AmongTail
  <2>. QED
    BY <1>2, <2>1, <2>2, SeenIff
<1>5. Reached(r) /\ Told(r) /\ Owed(r)' = Owed(r)
  BY <1>2, <1>3 DEF GapInv, Owed
<1>6. casting' /\ pc'[r] \in Open /\ r \notin todo' => Head(pending)' \in Seen(r)'
  BY <1>2, <1>3, <1>4, <1>5 DEF Reached
<1>7. Owed(r)' \ Seen(r)' \subseteq Owed(r) \ Seen(r)
  BY <1>4, <1>5
<1>8. Reached(r)' /\ Told(r)'
  BY <1>2, <1>5, <1>6, <1>7, PageStep
<1>. QED
  BY <1>2, <1>8, OthersGap

LEMMA ReplayEndGap ==
  ASSUME IInv, GapInv, NEW r \in Page, ReplayEnd(r)
  PROVE  GapInv'
<1>1. /\ pc[r] = "replaying" /\ pc'[r] = "serving"
      /\ UNCHANGED <<feed, clients, send, settled, replay, since, makers, casts>>
      /\ \A p \in Page \ {r} : pc'[p] = pc[p]
  BY DEF ReplayEnd, Goes, IInv, Typed
<1>2. UNCHANGED <<recorded, writing, announced, pending, casting, todo>>
  BY <1>1 DEF makers, casts
<1>3. /\ Reached(r) /\ Told(r)
      /\ Seen(r)' = Seen(r) /\ Owed(r)' = Owed(r)
  BY <1>1, <1>2 DEF GapInv, Seen, Owed
<1>4. casting' /\ pc'[r] \in Open /\ r \notin todo' => Head(pending)' \in Seen(r)'
  BY <1>1, <1>2, <1>3 DEF Reached, Open
<1>5. Reached(r)' /\ Told(r)'
  BY <1>1, <1>3, <1>4, PageStep
<1>. QED
  BY <1>1, <1>5, OthersGap

LEMMA LeaveGap ==
  ASSUME IInv, GapInv, NEW r \in Page, Leave(r)
  PROVE  GapInv'
<1>1. /\ pc'[r] = "leaving"
      /\ UNCHANGED <<feed, clients, send, settled, replay, since, makers, casts>>
      /\ \A p \in Page \ {r} : pc'[p] = pc[p]
  BY DEF Leave, Goes, IInv, Typed
<1>2. Reached(r)' /\ Told(r)'
  BY <1>1 DEF Reached, Told, Open
<1>. QED
  BY <1>1, <1>2, OthersGap

\* What leaves the channel is on the page, or the handler leaves.
LEMMA ShowGap ==
  ASSUME IInv, GapInv, NEW r \in Page, Show(r)
  PROVE  GapInv'
<1>1. PICK x : x = Head(send[r])
  OBVIOUS
<1>2. /\ pc[r] = "serving" /\ send[r] # << >> /\ send[r] \in Seq(Shown)
      /\ send'[r] = Tail(send[r])
      /\ UNCHANGED <<feed, clients, replay, since, makers, casts>>
      /\ \A p \in Page \ {r} : send'[p] = send[p]
  BY DEF Show, IInv, Typed
<1>3. UNCHANGED <<recorded, writing, announced, pending, casting, todo>>
  BY <1>2 DEF makers, casts
<1>4. \/ settled' = [settled EXCEPT ![r] = @ \cup {x}] /\ UNCHANGED pc
      \/ pc' = [pc EXCEPT ![r] = "leaving"] /\ UNCHANGED settled
  BY <1>1 DEF Show
<1>5. /\ settled \in [Page -> SUBSET Shown] /\ pc \in [Page -> Phase]
      /\ Reached(r) /\ Told(r) /\ Owed(r)' = Owed(r)
  BY <1>2, <1>3 DEF IInv, Typed, GapInv, Owed
<1>6. \A p \in Page \ {r} : settled'[p] = settled[p] /\ pc'[p] = pc[p]
  BY <1>4, <1>5
<1>7. Reached(r)' /\ Told(r)'
  <2>1. CASE settled' = [settled EXCEPT ![r] = @ \cup {x}] /\ UNCHANGED pc
    <3>1. \A i : Among(i, send[r]) <=> i = x \/ Among(i, send'[r])
      BY <1>1, <1>2, AmongTail
    <3>2. settled'[r] = settled[r] \cup {x}
      BY <1>5, <2>1
    <3>3. \A i : i \in Seen(r) => i \in Seen(r)'
      BY <1>2, <3>1, <3>2, SeenIff
    <3>4. casting' /\ pc'[r] \in Open /\ r \notin todo' => Head(pending)' \in Seen(r)'
      BY <1>3, <1>5, <2>1, <3>3 DEF Reached
    <3>5. Owed(r)' \ Seen(r)' \subseteq Owed(r) \ Seen(r)
      BY <1>5, <3>3
    <3>. QED
      BY <1>2, <1>5, <2>1, <3>4, <3>5, PageStep
  <2>2. CASE pc' = [pc EXCEPT ![r] = "leaving"]
    <3>1. pc'[r] = "leaving"
      BY <1>5, <2>2
    <3>. QED
      BY <3>1 DEF Reached, Told, Open
  <2>. QED
    BY <1>4, <2>1, <2>2
<1>. QED
  BY <1>2, <1>6, <1>7, OthersGap

LEMMA DeregisterGap ==
  ASSUME IInv, GapInv, NEW r \in Page, Deregister(r)
  PROVE  GapInv'
<1>1. /\ pc'[r] = "removed" /\ UNCHANGED <<feed, makers, casts>>
      /\ \A p \in Page \ {r} : /\ p \in clients => p \in clients'
                               /\ pc'[p] = pc[p] /\ since'[p] = since[p]
                               /\ send'[p] = send[p] /\ settled'[p] = settled[p]
                               /\ replay'[p] = replay[p]
  BY DEF Deregister, Goes, IInv, Typed
<1>2. Reached(r)' /\ Told(r)'
  BY <1>1 DEF Reached, Told, Open
<1>. QED
  BY <1>1, <1>2, OthersGap

LEMMA CloseSendGap ==
  ASSUME IInv, GapInv, NEW r \in Page, CloseSend(r)
  PROVE  GapInv'
<1>1. /\ pc'[r] = "closed"
      /\ UNCHANGED <<feed, clients, send, settled, replay, since, makers, casts>>
      /\ \A p \in Page \ {r} : pc'[p] = pc[p]
  BY DEF CloseSend, Goes, IInv, Typed
<1>2. Reached(r)' /\ Told(r)'
  BY <1>1 DEF Reached, Told, Open
<1>. QED
  BY <1>1, <1>2, OthersGap

LEMMA SameGap ==
  ASSUME GapInv, UNCHANGED <<feed, clients, pc, send, replay, settled, since, makers, casts>>
  PROVE  GapInv'
<1>1. UNCHANGED <<recent, writing, made, recorded, pending, casting, todo, announced>>
  BY DEF makers, casts
<1>. QED
  BY <1>1 DEF GapInv, Numbered, Recents, Among, Reached, Told, Owed, OneLost, Seen, Open

LEMMA InitGap == Init => GapInv
<1> SUFFICES ASSUME Init PROVE GapInv
  OBVIOUS
<1>1. Numbered /\ Recents
  BY DEF Init, Numbered, Recents, None
<1>2. ASSUME NEW p \in Page PROVE Reached(p) /\ Told(p)
  BY DEF Init, Reached, Told, Open
<1>. QED
  BY <1>1, <1>2 DEF GapInv

LEMMA NextGap == IInv /\ GapInv /\ [Next]_vars => GapInv'
<1> SUFFICES ASSUME IInv, GapInv, [Next]_vars PROVE GapInv'
  OBVIOUS
<1>1. CASE \E kind \in {"both", "record", "broadcast"} : Make(kind)
  BY <1>1, MakeGap
<1>2. CASE Record
  BY <1>2, RecordGap
<1>3. CASE BroadcastBegin
  BY <1>3, BroadcastBeginGap
<1>4. CASE \E p \in Page : Offer(p)
  BY <1>4, OfferGap
<1>5. CASE BroadcastEnd
  BY <1>5, BroadcastEndGap
<1>6. ASSUME NEW p \in Page, Register(p) PROVE GapInv'
  BY <1>6, RegisterGap
<1>7. ASSUME NEW p \in Page, Close(p) PROVE GapInv'
  BY <1>7, SameGap DEF Close
<1>8. ASSUME NEW p \in Page, Handler(p) PROVE GapInv'
  BY <1>8, SliceRecentGap, SlicePanicsGap, ReplayNextGap, ReplayEndGap, LeaveGap, ShowGap,
     DeregisterGap, CloseSendGap DEF Handler
<1>9. CASE UNCHANGED vars
  BY <1>9, SameGap DEF vars, handlers
<1>. QED
  BY <1>1, <1>2, <1>3, <1>4, <1>5, <1>6, <1>7, <1>8, <1>9 DEF Next

\* A page misses nothing that it is owed and has not seen.
LEMMA GapNone == GapInv => NoGap
<1> SUFFICES ASSUME GapInv, NEW p \in Page, pc[p] \in {"replaying", "serving"}
             PROVE  Cardinality(Missing(p)) <= IF feed = "chat" /\ p \notin LiveOnly THEN 1 ELSE 0
  BY DEF NoGap
<1>1. Missing(p) \subseteq Owed(p) \ Seen(p)
  BY DEF Missing, Owed
<1>2. Told(p)
  BY DEF GapInv
<1>3. CASE feed = "chat" /\ p \notin LiveOnly
  <2>1. PICK x : Owed(p) \ Seen(p) \subseteq {x}
    BY <1>2, <1>3 DEF Told, OneLost
  <2>2. Missing(p) = {} \/ Missing(p) = {x}
    BY <1>1, <2>1
  <2>3. Cardinality({}) = 0 /\ Cardinality({x}) = 1
    BY FS_EmptySet, FS_Singleton
  <2>. QED
    BY <1>3, <2>2, <2>3
<1>4. CASE ~(feed = "chat" /\ p \notin LiveOnly)
  <2>1. Missing(p) = {}
    BY <1>1, <1>2, <1>4 DEF Told
  <2>2. Cardinality({}) = 0
    BY FS_EmptySet
  <2>. QED
    BY <1>4, <2>1, <2>2
<1>. QED
  BY <1>3, <1>4

(* No item falls between the replay of the recent ones and the live feed,  *)
(* but for the one chat message that was being routed when the page asked. *)
THEOREM NothingFallsBetween == Spec => []NoGap
<1>1. IInv /\ GapInv /\ [Next]_vars => GapInv'
  BY NextGap
<1>2. GapInv => NoGap
  BY GapNone
<1>. QED
  BY <1>1, <1>2, Invariant, InitGap, PTL DEF Spec
=============================================================================
