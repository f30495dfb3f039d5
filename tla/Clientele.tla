----------------------------- MODULE Clientele ------------------------------
(***************************************************************************)
(* The chat server's registry of connected clients (network/grpc.go): the  *)
(* Chat handler of each connection adds its client under the mutex, map    *)
(* after map, listens, and removes it the same way.  Meanwhile the Router  *)
(* and the jobs goroutine look clients up: by layer under the mutex, by    *)
(* name and in total without it.                                           *)
(*                                                                         *)
(* A connection whose first message carries no name is refused and leaves  *)
(* no trace, so only named ones are modelled.                              *)
(***************************************************************************)
EXTENDS Integers, FiniteSets

CONSTANTS
  Conn,      \* the connections
  NameOf,    \* NameOf[c]: the sender of c's first message
  LayerOf,   \* LayerOf[c]: the layer of c's first message
  Reader,    \* the goroutines that look clients up
  Nobody     \* no connection

ASSUME ConnAssumption == IsFiniteSet(Conn) /\ Nobody \notin Conn

\* Every agent runs under a name of its own (Taskfile.yml).
UniqueNames == \A c, d \in Conn : NameOf[c] = NameOf[d] => c = d

VARIABLES
  phase,     \* phase[c]: how far c's Chat handler is
  mutex,     \* the connection whose handler holds ChatServer.mu, or Nobody
  byName,    \* clientele.byNameMap, Nobody for a name without entry
  byLayer,   \* clientele.byLayerMap
  total,     \* clientele.total
  reading,   \* reading[r]: the names r is looking up right now (one or none)
  answer,    \* what the last lookup returned
  fatal      \* the runtime stopped the server over a map race

vars == <<phase, mutex, byName, byLayer, total, reading, answer, fatal>>
registry == <<byName, byLayer, total>>

Name  == {NameOf[c] : c \in Conn}
Layer == {LayerOf[c] : c \in Conn}

(* The phases of a handler, in order: the maps and the counter are written *)
(* by the steps that leave "greeted", "named", "layered", and "ended",     *)
(* "unnamed", "unlayered".                                                 *)
Phase == {"away", "greeted", "named", "layered", "listening",
          "ended", "unnamed", "unlayered"}

Found(by, key, clients) == [by |-> by, key |-> key, clients |-> clients]

Init ==
  /\ phase = [c \in Conn |-> "away"]
  /\ mutex = Nobody
  /\ byName = [n \in Name |-> Nobody]
  /\ byLayer = [l \in Layer |-> {}]
  /\ total = 0
  /\ reading = [r \in Reader |-> {}]
  /\ answer = Found("none", "none", {})
  /\ fatal = FALSE

Goes(c, from, to) ==
  /\ phase[c] = from
  /\ phase' = [phase EXCEPT ![c] = to]

(* The runtime may notice a map that is written while it is read, and then *)
(* stops the process.                                                      *)
MayRace == fatal' \in {FALSE, \E r \in Reader : reading[r] # {}}

-----------------------------------------------------------------------------
(* The handler: Chat, initClient, addClient, listen, removeClient.         *)

Greet(c) ==
  /\ Goes(c, "away", "greeted")
  /\ UNCHANGED <<mutex, registry, reading, answer, fatal>>

(* A faulty variant: a handler that is halfway does not exclude another.   *)
AddByNameUnlocked(c) ==
  /\ Goes(c, "greeted", "named")
  /\ mutex' = c
  /\ byName' = [byName EXCEPT ![NameOf[c]] = c]
  /\ MayRace
  /\ UNCHANGED <<byLayer, total, reading, answer>>

AddByName(c) ==
  /\ Goes(c, "greeted", "named")
  /\ mutex = Nobody /\ mutex' = c
  /\ byName' = [byName EXCEPT ![NameOf[c]] = c]
  /\ MayRace
  /\ UNCHANGED <<byLayer, total, reading, answer>>

AddByLayer(c) ==
  /\ Goes(c, "named", "layered")
  /\ byLayer' = [byLayer EXCEPT ![LayerOf[c]] = @ \cup {NameOf[c]}]
  /\ UNCHANGED <<mutex, byName, total, reading, answer, fatal>>

AddTotal(c) ==
  /\ Goes(c, "layered", "listening")
  /\ total' = total + 1
  /\ mutex' = Nobody
  /\ UNCHANGED <<byName, byLayer, reading, answer, fatal>>

(* listen returns: the client disconnected or its stream failed.           *)
EndStream(c) ==
  /\ Goes(c, "listening", "ended")
  /\ UNCHANGED <<mutex, registry, reading, answer, fatal>>

RemoveByName(c) ==
  /\ Goes(c, "ended", "unnamed")
  /\ mutex = Nobody /\ mutex' = c
  /\ byName' = [byName EXCEPT ![NameOf[c]] = Nobody]
  /\ MayRace
  /\ UNCHANGED <<byLayer, total, reading, answer>>

(* A faulty variant: the name stays in its layer.                          *)
KeepInLayer(c) ==
  /\ Goes(c, "unnamed", "unlayered")
  /\ UNCHANGED <<mutex, registry, reading, answer, fatal>>

RemoveByLayer(c) ==
  /\ Goes(c, "unnamed", "unlayered")
  /\ byLayer' = [byLayer EXCEPT ![LayerOf[c]] = @ \ {NameOf[c]}]
  /\ UNCHANGED <<mutex, byName, total, reading, answer, fatal>>

(* Faulty variants: the client is counted off twice, or not at all, or the *)
(* mutex is kept.                                                          *)
CountOffTwice(c) ==
  /\ Goes(c, "unlayered", "away")
  /\ total' = total - 2
  /\ mutex' = Nobody
  /\ UNCHANGED <<byName, byLayer, reading, answer, fatal>>

CountNobodyOff(c) ==
  /\ Goes(c, "unlayered", "away")
  /\ mutex' = Nobody
  /\ UNCHANGED <<registry, reading, answer, fatal>>

KeepMutex(c) ==
  /\ Goes(c, "unlayered", "away")
  /\ total' = total - 1
  /\ UNCHANGED <<mutex, byName, byLayer, reading, answer, fatal>>

RemoveTotal(c) ==
  /\ Goes(c, "unlayered", "away")
  /\ total' = total - 1
  /\ mutex' = Nobody
  /\ UNCHANGED <<byName, byLayer, reading, answer, fatal>>

Handler(c) ==
  \/ Greet(c)
  \/ AddByName(c)
  \/ AddByLayer(c)
  \/ AddTotal(c)
  \/ EndStream(c)
  \/ RemoveByName(c)
  \/ RemoveByLayer(c)
  \/ RemoveTotal(c)

-----------------------------------------------------------------------------
(* The lookups.                                                            *)

Entry(n) == {byName[n]} \ {Nobody}

(* getClientByName takes no lock: a write may fall between its two steps.  *)
StartByName(r, n) ==
  /\ reading[r] = {}
  /\ reading' = [reading EXCEPT ![r] = {n}]
  /\ UNCHANGED <<phase, mutex, registry, answer, fatal>>

GetByName(r) ==
  /\ reading[r] # {}
  /\ \E n \in reading[r] : answer' = Found("name", n, Entry(n))
  /\ reading' = [reading EXCEPT ![r] = {}]
  /\ UNCHANGED <<phase, mutex, registry, fatal>>

(* A faulty variant: without the mutex.                                    *)
GetByLayerUnlocked(r, l) ==
  /\ reading[r] = {}
  /\ answer' = Found("layer", l, UNION {Entry(n) : n \in byLayer[l]})
  /\ UNCHANGED <<phase, mutex, registry, reading, fatal>>

(* getClientsByLayer holds the mutex; byLayer looks the names of the layer *)
(* up in byNameMap.                                                        *)
GetByLayer(r, l) ==
  /\ reading[r] = {} /\ mutex = Nobody
  /\ answer' = Found("layer", l, UNION {Entry(n) : n \in byLayer[l]})
  /\ UNCHANGED <<phase, mutex, registry, reading, fatal>>

Next ==
  /\ ~fatal
  /\ \/ \E c \in Conn : Handler(c)
     \/ \E r \in Reader, n \in Name : StartByName(r, n)
     \/ \E r \in Reader : GetByName(r)
     \/ \E r \in Reader, l \in Layer : GetByLayer(r, l)

Spec == Init /\ [][Next]_vars

(* Each handler goes on while it can, and a Go mutex does not starve a     *)
(* goroutine that waits for it: strong fairness for the steps that lock.   *)
(* Nothing forces a client to connect or to leave.                         *)
FairSpec ==
  /\ Spec
  /\ \A c \in Conn :
       /\ SF_vars(~fatal /\ (AddByName(c) \/ RemoveByName(c)))
       /\ WF_vars(~fatal /\ (AddByLayer(c) \/ AddTotal(c)
                             \/ RemoveByLayer(c) \/ RemoveTotal(c)))

-----------------------------------------------------------------------------
(***************************************************************************)
(* Properties                                                              *)
(***************************************************************************)

\* Shape of the handlers, the registry and the lookups in progress.
TypeOK ==
  /\ phase \in [Conn -> Phase]
  /\ mutex \in Conn \cup {Nobody}
  /\ byName \in [Name -> Conn \cup {Nobody}]
  /\ byLayer \in [Layer -> SUBSET Name]
  /\ total \in Nat
  /\ reading \in [Reader -> SUBSET Name]
  /\ fatal \in BOOLEAN

\* Between any two writes of any handler: the handler in its critical section
\* holds the mutex, and each map and the counter hold exactly the clients
\* that have been written to them and not yet deleted (grpc.go:280-298).
Locked  == {"named", "layered", "unnamed", "unlayered"}
InName  == {c \in Conn : phase[c] \in {"named", "layered", "listening", "ended"}}
InLayer == {c \in Conn : phase[c] \in {"layered", "listening", "ended", "unnamed"}}
Counted == {c \in Conn : phase[c] \in {"listening", "ended", "unnamed", "unlayered"}}

RegistryInv ==
  /\ \A c \in Conn : phase[c] \in Locked <=> mutex = c
  /\ \A c \in Conn : byName[NameOf[c]] = IF c \in InName THEN c ELSE Nobody
  /\ \A l \in Layer : byLayer[l] = {NameOf[c] : c \in {d \in InLayer : LayerOf[d] = l}}
  /\ total = Cardinality(Counted)

Present(c) == phase[c] \in {"listening", "ended"}

\* Whenever the mutex is free, both maps and the counter agree on who is
\* connected (grpc.go:275-298): each client that was added and is not yet
\* removed is found under its name and in its layer, nobody else is, and
\* total is their number.
RegistryExact ==
  mutex = Nobody =>
    /\ \A c \in Conn : Present(c) <=> byName[NameOf[c]] = c
    /\ \A l \in Layer :
         byLayer[l] = {NameOf[c] : c \in {d \in Conn : Present(d) /\ LayerOf[d] = l}}
    /\ total = Cardinality({c \in Conn : Present(c)})

\* WaitForClients polls total without the mutex.  What it sees is never more
\* than one client off, whatever handlers are doing: one too low while a
\* client joins, one too high while it leaves.
TotalNearlyRight ==
  LET named == {c \in Conn : byName[NameOf[c]] = c}
  IN  total \in Cardinality(named) - 1 .. Cardinality(named) + 1

Registered == {c \in Conn : byName[NameOf[c]] = c}

Abstract == INSTANCE Registry WITH members <- Registered

\* To those who look clients up, the two maps behind the mutex are one set
\* of clients that changes in one step, although getClientByName takes no
\* lock and finds the maps half written.
ImplementsRegistry == Abstract!AbsSpec

\* A client whose stream has ended is forgotten: the Router stops finding it.
GoneIsForgotten ==
  \A c \in Conn :
    phase[c] = "ended" ~> (fatal \/ byName[NameOf[c]] # c)

\* "removeClient removes a ChatClient from the list of clients that maintain
\* an active connection" (grpc.go:290-291), that client and no other: an agent
\* that is connected is found under its name.
LiveAgentsFound ==
  mutex = Nobody =>
    \A c \in Conn : phase[c] = "listening" => byName[NameOf[c]] # Nobody

\* "Multiple connections may happen all at once, so we need to lock and
\* unlock the mutex to avoid race conditions" (grpc.go:281-283).
NoMapRace == ~fatal
=============================================================================
