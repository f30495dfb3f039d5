------------------------------ MODULE Registry ------------------------------
(***************************************************************************)
(* What the chat server's registry of clients promises those who ask it    *)
(* (network/grpc.go): a set of connected clients that grows and shrinks    *)
(* one client at a time, looked up by name or by layer in one step.        *)
(***************************************************************************)
CONSTANTS
  Conn,      \* the connections
  NameOf,    \* NameOf[c]: the name c introduced itself with
  LayerOf    \* LayerOf[c]: its layer

VARIABLES
  members,   \* the connections that are registered
  answer     \* what the last lookup returned

absVars == <<members, answer>>

Found(by, key, clients) == [by |-> by, key |-> key, clients |-> clients]
NothingAsked == Found("none", "none", {})

AbsInit == members = {} /\ answer = NothingAsked

AbsAdd(c) ==
  /\ c \notin members
  /\ members' = members \cup {c}
  /\ UNCHANGED answer

AbsRemove(c) ==
  /\ c \in members
  /\ members' = members \ {c}
  /\ UNCHANGED answer

AbsByName(n) ==
  /\ answer' = Found("name", n, {c \in members : NameOf[c] = n})
  /\ UNCHANGED members

AbsByLayer(l) ==
  /\ answer' = Found("layer", l, {c \in members : LayerOf[c] = l})
  /\ UNCHANGED members

AbsNext ==
  \/ \E c \in Conn : AbsAdd(c) \/ AbsRemove(c)
  \/ \E n \in {NameOf[c] : c \in Conn} : AbsByName(n)
  \/ \E l \in {LayerOf[c] : c \in Conn} : AbsByLayer(l)

AbsSpec == AbsInit /\ [][AbsNext]_absVars
=============================================================================
