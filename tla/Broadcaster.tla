---------------------------- MODULE Broadcaster -----------------------------
(***************************************************************************)
(* One feed of the web server (network/web.go): items are recorded in a    *)
(* queue of recent items and broadcast to the pages that are open.  The    *)
(* handler of a page registers its client, replays the recent items into   *)
(* the client's own channel, and only then starts to write what is in the  *)
(* channel to the page; when the page is closed it takes the client out of *)
(* the broadcaster and closes the channel.                                 *)
(*                                                                         *)
(* An item is its number.  The Feed says who makes items and which of the  *)
(* two, record or broadcast, happens to them (Kinds).                      *)
(***************************************************************************)
EXTENDS Integers, Sequences, FiniteSets

CONSTANTS
  Page,       \* the requests for the feed, each with a handler of its own
  LiveOnly,   \* the pages served by HandleClient, which replays nothing
  SendCap,    \* the capacity of WebClient.send
  RecentCap,  \* the capacity of the feed's queue of recent items
  Feeds,      \* the feeds looked at, out of those of Kinds
  MaxItem     \* bound: how many items are ever made

ASSUME FeedAssumption ==
  /\ IsFiniteSet(Page) /\ LiveOnly \subseteq Page
  /\ SendCap \in Nat \ {0} /\ RecentCap \in Nat \ {0} /\ MaxItem \in Nat
  /\ Feeds \subseteq {"chat", "words", "generations", "specifications", "logograms", "time"}

VARIABLES
  feed,       \* which feed this is
  clients,    \* Broadcaster.webClients
  pc,         \* pc[p]: how far p's handler is
  gone,       \* gone[p]: p's request context is done
  send,       \* send[p]: WebClient.send
  replay,     \* replay[p]: what p's handler has yet to replay
  settled,    \* settled[p]: the items written to p or, its channel full, dropped
  since,      \* since[p]: the first item p may expect
  recent,     \* the queue of recent items
  writing,    \* the item being put in recent right now, or None
  made,       \* how many items have been made
  pending,    \* the items that wait to be broadcast; the first may be under way
  casting,    \* a Broadcast is under way and holds Broadcaster.mu
  todo,       \* the clients the Broadcast has yet to look at
  recorded,   \* the items that were put in recent
  announced   \* the items whose Broadcast has ended

handlers == <<pc, gone, replay, since>>
makers   == <<recent, writing, made, recorded>>
casts    == <<pending, casting, todo, announced>>
vars == <<feed, clients, send, settled, handlers, makers, casts>>

Item == 1 .. MaxItem
None == 0

(* What is done with an item of each feed.  The jobs goroutine does it all,*)
(* but the clock has its own goroutine, and the Router records the chat's  *)
(* messages, commands included.                                            *)
Kinds ==
  [chat           |-> {"both", "record"},
   words          |-> {"both"},
   generations    |-> {"both", "broadcast"},
   specifications |-> {"broadcast"},
   logograms      |-> {"both"},
   time           |-> {"broadcast"}]

Phase == {"away", "registered", "replaying", "serving",
          "leaving", "removed", "closed"}

Init ==
  /\ feed \in Feeds
  /\ clients = {}
  /\ pc = [p \in Page |-> "away"]
  /\ gone = [p \in Page |-> FALSE]
  /\ send = [p \in Page |-> << >>]
  /\ replay = [p \in Page |-> << >>]
  /\ settled = [p \in Page |-> {}]
  /\ since = [p \in Page |-> 1]
  /\ recent = << >> /\ writing = None /\ made = 0
  /\ pending = << >> /\ casting = FALSE /\ todo = {}
  /\ recorded = {} /\ announced = {}

Goes(p, from, to) ==
  /\ pc[p] = from
  /\ pc' = [pc EXCEPT ![p] = to]

-----------------------------------------------------------------------------
(* The makers of items.                                                    *)

(* A faulty variant: every item is announced before it is recorded.        *)
AnnouncedAtOnce(kind) == IF kind = "record" THEN "never" ELSE "made"

(* When an item joins the Broadcasts to come.  The jobs goroutine records  *)
(* an item first; the chat's Router hands a message to the jobs goroutine  *)
(* (procedureRoute) before it records it (eventsRoute).                    *)
AnnouncedAt(kind) ==
  CASE kind = "record" -> "never"
    [] kind = "broadcast" \/ (kind = "both" /\ feed = "chat") -> "made"
    [] kind = "both" /\ feed # "chat" -> "recorded"

Make(kind) ==
  /\ writing = None /\ made < MaxItem
  /\ kind \in Kinds[feed]
  /\ feed # "chat" => pending = << >>
  /\ made' = made + 1
  /\ writing' = IF kind = "broadcast" THEN None ELSE made + 1
  /\ pending' = IF AnnouncedAt(kind) = "made" THEN Append(pending, made + 1) ELSE pending
  /\ UNCHANGED <<feed, clients, send, settled, handlers, recent, recorded,
                 casting, todo, announced>>

(* A faulty variant: the oldest item does not make room.                   *)
RolledGrown == Append(recent, writing)

(* The queue with the item being written, after its oldest made room.      *)
Rolled == Append(IF Len(recent) = RecentCap THEN Tail(recent) ELSE recent, writing)

Record ==
  /\ writing # None
  /\ recent' = Rolled
  /\ recorded' = recorded \cup {writing}
  /\ writing' = None
  /\ pending' = IF AnnouncedAt("both") = "recorded" THEN Append(pending, writing) ELSE pending
  /\ UNCHANGED <<feed, clients, send, settled, handlers, made, casting, todo, announced>>

-----------------------------------------------------------------------------
(* Broadcast: every client is offered the item under the mutex, and none   *)
(* is waited for.                                                          *)

BroadcastBegin ==
  /\ ~casting /\ pending # << >>
  /\ casting' = TRUE
  /\ todo' = clients
  /\ UNCHANGED <<feed, clients, send, settled, handlers, makers, pending, announced>>

(* A faulty variant: the send waits for room in the client's channel.      *)
OfferAndWait(p) ==
  /\ casting /\ p \in todo
  /\ Len(send[p]) < SendCap
  /\ send' = [send EXCEPT ![p] = Append(@, Head(pending))]
  /\ todo' = todo \ {p}
  /\ UNCHANGED <<feed, clients, settled, handlers, makers, pending, casting, announced>>

Offer(p) ==
  /\ casting /\ p \in todo
  /\ IF Len(send[p]) < SendCap
       THEN /\ send' = [send EXCEPT ![p] = Append(@, Head(pending))]
            /\ UNCHANGED settled
       ELSE /\ settled' = [settled EXCEPT ![p] = @ \cup {Head(pending)}]
            /\ UNCHANGED send
  /\ todo' = todo \ {p}
  /\ UNCHANGED <<feed, clients, handlers, makers, pending, casting, announced>>

BroadcastEnd ==
  /\ casting /\ todo = {}
  /\ casting' = FALSE
  /\ announced' = announced \cup {Head(pending)}
  /\ pending' = Tail(pending)
  /\ UNCHANGED <<feed, clients, send, settled, handlers, makers, todo>>

Broadcast == BroadcastBegin \/ (\E p \in Page : Offer(p)) \/ BroadcastEnd

-----------------------------------------------------------------------------
(* The handler of a page.                                                  *)

(* The browser closes the page, at any time.                               *)
Close(p) ==
  /\ pc[p] # "away" /\ ~gone[p]
  /\ gone' = [gone EXCEPT ![p] = TRUE]
  /\ UNCHANGED <<feed, clients, send, settled, pc, replay, since, makers, casts>>

(* A request arrives, at any time.  Holding the mutex for one map write is *)
(* one step while nobody else holds it.                                    *)
Register(p) ==
  /\ ~casting
  /\ Goes(p, "away", IF p \in LiveOnly THEN "serving" ELSE "registered")
  /\ clients' = clients \cup {p}
  /\ since' = [since EXCEPT ![p] = made + 1]
  /\ UNCHANGED <<feed, send, settled, gone, replay, makers, casts>>

(* ToSlice takes no lock.  Beside an Enqueue it may find the queue as it   *)
(* was, as it will be, without its oldest item, or as long as it was with  *)
(* nothing at the end.                                                     *)
Slices ==
  IF writing = None THEN {recent}
  ELSE {recent, Rolled} \cup
       (IF Len(recent) = RecentCap
        THEN {Tail(recent), Append(Tail(recent), None)} ELSE {})

\* The oldest item that a queue still holds when no Enqueue is under way.
Oldest == IF writing # None THEN Head(Rolled)
          ELSE IF recent # << >> THEN Head(recent) ELSE made + 1

SliceRecent(p) ==
  /\ Goes(p, "registered", "replaying")
  /\ replay' \in {[replay EXCEPT ![p] = s] : s \in Slices}
  /\ since' = [since EXCEPT ![p] = Oldest]
  /\ UNCHANGED <<feed, clients, send, settled, gone, makers, casts>>

(* Its sizes may also disagree while an Enqueue is under way: an index out *)
(* of range, a panic that net/http recovers after the deferred calls.      *)
SlicePanics(p) ==
  /\ writing # None
  /\ Goes(p, "registered", "leaving")
  /\ UNCHANGED <<feed, clients, send, settled, gone, replay, since, makers, casts>>

(* Nothing reads the channel yet: the handler waits here when it is full.  *)
ReplayNext(p) ==
  /\ pc[p] = "replaying" /\ replay[p] # << >>
  /\ Len(send[p]) < SendCap
  /\ send' = [send EXCEPT ![p] = Append(@, Head(replay[p]))]
  /\ replay' = [replay EXCEPT ![p] = Tail(@)]
  /\ UNCHANGED <<feed, clients, settled, pc, gone, since, makers, casts>>

ReplayEnd(p) ==
  /\ replay[p] = << >>
  /\ Goes(p, "replaying", "serving")
  /\ UNCHANGED <<feed, clients, send, settled, gone, replay, since, makers, casts>>

(* A faulty variant: the replay does not look at the context.              *)
LeaveServing(p) ==
  /\ gone[p]
  /\ Goes(p, "serving", "leaving")
  /\ UNCHANGED <<feed, clients, send, settled, gone, replay, since, makers, casts>>

(* The context is done, during the replay or while serving.                *)
Leave(p) ==
  /\ gone[p]
  /\ \/ replay[p] # << >> /\ Goes(p, "replaying", "leaving")
     \/ Goes(p, "serving", "leaving")
  /\ UNCHANGED <<feed, clients, send, settled, gone, replay, since, makers, casts>>

(* serve takes the next item and writes it, which may fail.                *)
Show(p) ==
  /\ pc[p] = "serving" /\ send[p] # << >>
  /\ send' = [send EXCEPT ![p] = Tail(@)]
  /\ \/ /\ settled' = [settled EXCEPT ![p] = @ \cup {Head(send[p])}]
        /\ UNCHANGED pc
     \/ /\ pc' = [pc EXCEPT ![p] = "leaving"]
        /\ UNCHANGED settled
  /\ UNCHANGED <<feed, clients, gone, replay, since, makers, casts>>

(* A faulty variant: delete takes no lock.                                 *)
DeregisterUnlocked(p) ==
  /\ Goes(p, "leaving", "removed")
  /\ clients' = clients \ {p}
  /\ UNCHANGED <<feed, send, settled, gone, replay, since, makers, casts>>

\* What the handler held is garbage now: nobody reads the channel any more.
Deregister(p) ==
  /\ ~casting
  /\ Goes(p, "leaving", "removed")
  /\ clients' = clients \ {p}
  /\ send' = [send EXCEPT ![p] = << >>]
  /\ replay' = [replay EXCEPT ![p] = << >>]
  /\ settled' = [settled EXCEPT ![p] = {}]
  /\ since' = [since EXCEPT ![p] = 1]
  /\ UNCHANGED <<feed, gone, makers, casts>>

CloseSend(p) ==
  /\ Goes(p, "removed", "closed")
  /\ gone' = [gone EXCEPT ![p] = TRUE]
  /\ UNCHANGED <<feed, clients, send, settled, replay, since, makers, casts>>

Handler(p) ==
  \/ SliceRecent(p) \/ SlicePanics(p) \/ ReplayNext(p) \/ ReplayEnd(p)
  \/ Leave(p) \/ Show(p) \/ Deregister(p) \/ CloseSend(p)

-----------------------------------------------------------------------------

Next ==
  \/ \E kind \in {"both", "record", "broadcast"} : Make(kind)
  \/ Record
  \/ BroadcastBegin
  \/ \E p \in Page : Offer(p)
  \/ BroadcastEnd
  \/ \E p \in Page : Register(p) \/ Close(p) \/ Handler(p)

(* Goroutines that can run do.  With MaxItem items a handler that waits    *)
(* for the mutex, or for select to pick the context, waits for finitely    *)
(* many Broadcasts and items; the mutex and select are fair without it.    *)
Spec ==
  /\ Init /\ [][Next]_vars
  /\ WF_vars(Record) /\ WF_vars(Broadcast)
  /\ \A p \in Page : WF_vars(Handler(p))

-----------------------------------------------------------------------------
(* Properties.                                                             *)

(* Channels stay within their capacities and hold items, or the zero value *)
(* of a torn slice.                                                        *)
TypeOK ==
  /\ feed \in Feeds
  /\ clients \subseteq Page /\ todo \subseteq Page
  /\ pc \in [Page -> Phase] /\ gone \in [Page -> BOOLEAN]
  /\ \A p \in Page :
       /\ send[p] \in Seq(Item \cup {None}) /\ Len(send[p]) <= SendCap
       /\ replay[p] \in Seq(Item \cup {None})
       /\ settled[p] \subseteq Item \cup {None}
       /\ since[p] \in 1 .. MaxItem + 1
  /\ recent \in Seq(Item) /\ Len(recent) <= RecentCap
  /\ writing \in Item \cup {None} /\ made \in 0 .. MaxItem
  /\ pending \in Seq(Item) /\ casting \in BOOLEAN
  /\ recorded \subseteq Item /\ announced \subseteq Item

(* A Broadcast never meets a closed channel: the handler takes its client  *)
(* out under the mutex first, and a Broadcast looks only at the clients it *)
(* found under the mutex.  A send on a closed channel would panic in the   *)
(* jobs goroutine and end the server.                                      *)
NeverSendsOnClosed == \A p \in clients \cup todo : pc[p] # "closed"

\* What a page has got, or has been told it will not get.
Seen(p) == settled[p] \cup {send[p][k] : k \in DOMAIN send[p]}
           \cup {replay[p][k] : k \in DOMAIN replay[p]}

\* The items a page should have got by now.
Missing(p) == {i \in (IF p \in LiveOnly THEN announced ELSE announced \cap recorded) :
                 i >= since[p]} \ Seen(p)

(* No item falls between the replay and the live feed: registering before  *)
(* slicing, and recording before announcing, let a page see every item     *)
(* from the oldest one the queue held.  The chat is announced by another   *)
(* goroutine than the one that records it, and a page may miss the one     *)
(* message that was being routed when it asked.                            *)
NoGap ==
  \A p \in Page :
    pc[p] \in {"replaying", "serving"} =>
      Cardinality(Missing(p)) <= IF feed = "chat" /\ p \notin LiveOnly THEN 1 ELSE 0

(* The jobs goroutine is never held up by a page, whatever the page does:  *)
(* every Broadcast ends.                                                   *)
BroadcastEnds == casting ~> ~casting

(* A page that was closed leaves nothing behind in the broadcaster, even   *)
(* when its handler is held in the replay.                                 *)
ClosedIsForgotten == \A p \in Page : gone[p] ~> (pc[p] = "closed" /\ p \notin clients)

(* A page that stays gets to see the feed ("Send initial data so there's   *)
(* something to see on the frontend").                                     *)
OpenIsServed == \A p \in Page : pc[p] = "replaying" ~> pc[p] # "replaying"
=============================================================================
