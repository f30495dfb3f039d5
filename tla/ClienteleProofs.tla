-------------------------- MODULE ClienteleProofs ---------------------------
(***************************************************************************)
(* Proofs about Clientele, for any finite set of connections under names   *)
(* of their own: its types, the agreement of the two maps and the counter, *)
(* and that it implements Registry.                                        *)
(***************************************************************************)
EXTENDS Clientele, FiniteSetTheorems, TLAPS

\* Every step keeps the shapes but for the counter, whatever the names are.
\* (total is a natural number because RegistryInv says what it counts.)
ShapeOK ==
  /\ phase \in [Conn -> Phase]
  /\ mutex \in Conn \cup {Nobody}
  /\ byName \in [Name -> Conn \cup {Nobody}]
  /\ byLayer \in [Layer -> SUBSET Name]
  /\ reading \in [Reader -> SUBSET Name]
  /\ fatal \in BOOLEAN

LEMMA ShapeInit == Init => ShapeOK
  BY DEF Init, ShapeOK, Phase

LEMMA ShapeStep == ShapeOK /\ [Next]_vars => ShapeOK'
<1> SUFFICES ASSUME ShapeOK, [Next]_vars PROVE ShapeOK'
  OBVIOUS
<1> USE DEF ShapeOK, Phase, Goes, MayRace, registry
<1>1. ASSUME NEW c \in Conn, Handler(c) PROVE ShapeOK'
  <2>0. NameOf[c] \in Name /\ LayerOf[c] \in Layer
    BY DEF Name, Layer
  <2>1. CASE Greet(c)         BY <2>1 DEF Greet
  <2>2. CASE AddByName(c)     BY <2>2, <2>0 DEF AddByName
  <2>3. CASE AddByLayer(c)    BY <2>3, <2>0 DEF AddByLayer
  <2>4. CASE AddTotal(c)      BY <2>4 DEF AddTotal
  <2>5. CASE EndStream(c)     BY <2>5 DEF EndStream
  <2>6. CASE RemoveByName(c)  BY <2>6, <2>0 DEF RemoveByName
  <2>7. CASE RemoveByLayer(c) BY <2>7, <2>0 DEF RemoveByLayer
  <2>8. CASE RemoveTotal(c)   BY <2>8 DEF RemoveTotal
  <2> QED BY <1>1, <2>1, <2>2, <2>3, <2>4, <2>5, <2>6, <2>7, <2>8 DEF Handler
<1>2. ASSUME NEW r \in Reader, NEW n \in Name, StartByName(r, n) PROVE ShapeOK'
  BY <1>2 DEF StartByName
<1>3. ASSUME NEW r \in Reader, GetByName(r) PROVE ShapeOK'
  BY <1>3 DEF GetByName
<1>4. ASSUME NEW r \in Reader, NEW l \in Layer, GetByLayer(r, l) PROVE ShapeOK'
  BY <1>4 DEF GetByLayer
<1>5. CASE UNCHANGED vars
  BY <1>5 DEF vars
<1> QED BY <1>1, <1>2, <1>3, <1>4, <1>5 DEF Next

-----------------------------------------------------------------------------
(***************************************************************************)
(* The registry.                                                           *)
(***************************************************************************)

RInv == ShapeOK /\ RegistryInv

\* The three sets of RegistryInv are finite sets of connections.
LEMMA CountedFinite == IsFiniteSet(Counted) /\ Cardinality(Counted) \in Nat
<1>1. Counted \subseteq Conn
  BY DEF Counted
<1> QED
  BY <1>1, ConnAssumption, FS_Subset, FS_CardinalityType

\* A step that moves no handler across a write leaves the registry as it is.
LEMMA QuietStep ==
  ASSUME RegistryInv, UNCHANGED <<mutex, registry>>,
         InName' = InName, InLayer' = InLayer, Counted' = Counted,
         \A c \in Conn : phase'[c] \in Locked <=> phase[c] \in Locked
  PROVE  RegistryInv'
  BY DEF RegistryInv, registry

LEMMA RegistryInit == Init => RegistryInv
<1> SUFFICES ASSUME Init PROVE RegistryInv
  OBVIOUS
<1>1. InName = {} /\ InLayer = {} /\ Counted = {}
  BY DEF Init, InName, InLayer, Counted
<1>2. Cardinality({}) = 0
  BY FS_EmptySet
<1>3. \A c \in Conn : phase[c] \in Locked <=> mutex = c
  BY ConnAssumption DEF Init, Locked
<1>4. \A c \in Conn : byName[NameOf[c]] = IF c \in InName THEN c ELSE Nobody
  BY <1>1 DEF Init, Name
<1>5. \A l \in Layer :
        byLayer[l] = {NameOf[c] : c \in {d \in InLayer : LayerOf[d] = l}}
  BY <1>1 DEF Init
<1>6. total = Cardinality(Counted)
  BY <1>1, <1>2 DEF Init
<1> QED
  BY <1>3, <1>4, <1>5, <1>6 DEF RegistryInv

LEMMA RegistryHandler ==
  ASSUME UniqueNames, RInv, NEW c \in Conn, Handler(c)
  PROVE  RegistryInv'
<1> USE DEF RInv, ShapeOK, Goes
<1>0. NameOf[c] \in Name /\ LayerOf[c] \in Layer
  BY DEF Name, Layer
<1>1. CASE Greet(c)
  <2>1. phase' = [phase EXCEPT ![c] = "greeted"] /\ phase[c] = "away"
    BY <1>1 DEF Greet
  <2>2. InName' = InName /\ InLayer' = InLayer /\ Counted' = Counted
    BY <2>1 DEF InName, InLayer, Counted
  <2>3. \A d \in Conn : phase'[d] \in Locked <=> phase[d] \in Locked
    BY <2>1 DEF Locked
  <2> QED
    BY <1>1, <2>2, <2>3, QuietStep DEF Greet
<1>2. CASE AddByName(c)
  <2>1. /\ phase' = [phase EXCEPT ![c] = "named"] /\ phase[c] = "greeted"
        /\ mutex = Nobody /\ mutex' = c
        /\ byName' = [byName EXCEPT ![NameOf[c]] = c]
        /\ UNCHANGED <<byLayer, total>>
    BY <1>2 DEF AddByName
  <2>2. InName' = InName \cup {c} /\ InLayer' = InLayer /\ Counted' = Counted
    BY <2>1 DEF InName, InLayer, Counted
  <2>3. \A d \in Conn : phase'[d] \in Locked <=> mutex' = d
    BY <2>1, ConnAssumption DEF RegistryInv, Locked
  <2>4. \A d \in Conn : byName'[NameOf[d]] = IF d \in InName' THEN d ELSE Nobody
    BY <1>0, <2>1, <2>2 DEF RegistryInv, UniqueNames, Name
  <2> QED
    BY <2>1, <2>2, <2>3, <2>4 DEF RegistryInv
<1>3. CASE AddByLayer(c)
  <2>1. /\ phase' = [phase EXCEPT ![c] = "layered"] /\ phase[c] = "named"
        /\ byLayer' = [byLayer EXCEPT ![LayerOf[c]] = @ \cup {NameOf[c]}]
        /\ UNCHANGED <<mutex, byName, total>>
    BY <1>3 DEF AddByLayer
  <2>2. InName' = InName /\ InLayer' = InLayer \cup {c} /\ Counted' = Counted
    BY <2>1 DEF InName, InLayer, Counted
  <2>3. \A d \in Conn : phase'[d] \in Locked <=> mutex' = d
    BY <2>1 DEF RegistryInv, Locked
  <2>4. ASSUME NEW l \in Layer
        PROVE  byLayer'[l] = {NameOf[d] : d \in {e \in InLayer' : LayerOf[e] = l}}
    BY <1>0, <2>1, <2>2 DEF RegistryInv
  <2> QED
    BY <2>1, <2>2, <2>3, <2>4 DEF RegistryInv
<1>4. CASE AddTotal(c)
  <2>1. /\ phase' = [phase EXCEPT ![c] = "listening"] /\ phase[c] = "layered"
        /\ total' = total + 1 /\ mutex' = Nobody
        /\ UNCHANGED <<byName, byLayer>>
    BY <1>4 DEF AddTotal
  <2>2. InName' = InName /\ InLayer' = InLayer /\ Counted' = Counted \cup {c}
    BY <2>1 DEF InName, InLayer, Counted
  <2>3. \A d \in Conn : phase'[d] \in Locked <=> mutex' = d
    BY <2>1, ConnAssumption DEF RegistryInv, Locked
  <2>4. c \notin Counted
    BY <2>1 DEF Counted
  <2>5. total' = Cardinality(Counted')
    BY <2>1, <2>2, <2>4, CountedFinite, FS_AddElement DEF RegistryInv
  <2> QED
    BY <2>1, <2>2, <2>3, <2>5 DEF RegistryInv
<1>5. CASE EndStream(c)
  <2>1. phase' = [phase EXCEPT ![c] = "ended"] /\ phase[c] = "listening"
    BY <1>5 DEF EndStream
  <2>2. InName' = InName /\ InLayer' = InLayer /\ Counted' = Counted
    BY <2>1 DEF InName, InLayer, Counted
  <2>3. \A d \in Conn : phase'[d] \in Locked <=> phase[d] \in Locked
    BY <2>1 DEF Locked
  <2> QED
    BY <1>5, <2>2, <2>3, QuietStep DEF EndStream
<1>6. CASE RemoveByName(c)
  <2>1. /\ phase' = [phase EXCEPT ![c] = "unnamed"] /\ phase[c] = "ended"
        /\ mutex = Nobody /\ mutex' = c
        /\ byName' = [byName EXCEPT ![NameOf[c]] = Nobody]
        /\ UNCHANGED <<byLayer, total>>
    BY <1>6 DEF RemoveByName
  <2>2. InName' = InName \ {c} /\ InLayer' = InLayer /\ Counted' = Counted
    BY <2>1 DEF InName, InLayer, Counted
  <2>3. \A d \in Conn : phase'[d] \in Locked <=> mutex' = d
    BY <2>1, ConnAssumption DEF RegistryInv, Locked
  <2>4. \A d \in Conn : byName'[NameOf[d]] = IF d \in InName' THEN d ELSE Nobody
    BY <1>0, <2>1, <2>2 DEF RegistryInv, UniqueNames, Name
  <2> QED
    BY <2>1, <2>2, <2>3, <2>4 DEF RegistryInv
<1>7. CASE RemoveByLayer(c)
  <2>1. /\ phase' = [phase EXCEPT ![c] = "unlayered"] /\ phase[c] = "unnamed"
        /\ byLayer' = [byLayer EXCEPT ![LayerOf[c]] = @ \ {NameOf[c]}]
        /\ UNCHANGED <<mutex, byName, total>>
    BY <1>7 DEF RemoveByLayer
  <2>2. InName' = InName /\ InLayer' = InLayer \ {c} /\ Counted' = Counted
    BY <2>1 DEF InName, InLayer, Counted
  <2>3. \A d \in Conn : phase'[d] \in Locked <=> mutex' = d
    BY <2>1 DEF RegistryInv, Locked
  <2>4. ASSUME NEW l \in Layer
        PROVE  byLayer'[l] = {NameOf[d] : d \in {e \in InLayer' : LayerOf[e] = l}}
    BY <1>0, <2>1, <2>2 DEF RegistryInv, UniqueNames, InLayer
  <2> QED
    BY <2>1, <2>2, <2>3, <2>4 DEF RegistryInv
<1>8. CASE RemoveTotal(c)
  <2>1. /\ phase' = [phase EXCEPT ![c] = "away"] /\ phase[c] = "unlayered"
        /\ total' = total - 1 /\ mutex' = Nobody
        /\ UNCHANGED <<byName, byLayer>>
    BY <1>8 DEF RemoveTotal
  <2>2. InName' = InName /\ InLayer' = InLayer /\ Counted' = Counted \ {c}
    BY <2>1 DEF InName, InLayer, Counted
  <2>3. \A d \in Conn : phase'[d] \in Locked <=> mutex' = d
    BY <2>1, ConnAssumption DEF RegistryInv, Locked
  <2>4. c \in Counted
    BY <2>1 DEF Counted
  <2>5. total' = Cardinality(Counted')
    BY <2>1, <2>2, <2>4, CountedFinite, FS_RemoveElement DEF RegistryInv
  <2> QED
    BY <2>1, <2>2, <2>3, <2>5 DEF RegistryInv
<1> QED
  BY <1>1, <1>2, <1>3, <1>4, <1>5, <1>6, <1>7, <1>8 DEF Handler

LEMMA RegistryStep ==
  ASSUME UniqueNames, RInv, [Next]_vars
  PROVE  RInv'
<1>1. ShapeOK'
  BY ShapeStep DEF RInv
<1>2. ASSUME UNCHANGED <<phase, mutex, registry>> PROVE RegistryInv'
  <2>1. InName' = InName /\ InLayer' = InLayer /\ Counted' = Counted
    BY <1>2 DEF InName, InLayer, Counted
  <2> QED
    BY <1>2, <2>1, QuietStep DEF RInv
<1>3. RegistryInv'
  <2>1. ASSUME NEW c \in Conn, Handler(c) PROVE RegistryInv'
    BY <2>1, RegistryHandler
  <2>2. ASSUME NEW r \in Reader, NEW n \in Name, StartByName(r, n) PROVE RegistryInv'
    BY <2>2, <1>2 DEF StartByName
  <2>3. ASSUME NEW r \in Reader, GetByName(r) PROVE RegistryInv'
    BY <2>3, <1>2 DEF GetByName
  <2>4. ASSUME NEW r \in Reader, NEW l \in Layer, GetByLayer(r, l) PROVE RegistryInv'
    BY <2>4, <1>2 DEF GetByLayer
  <2>5. CASE UNCHANGED vars
    BY <2>5, <1>2 DEF vars, registry
  <2> QED
    BY <2>1, <2>2, <2>3, <2>4, <2>5 DEF Next
<1> QED
  BY <1>1, <1>3 DEF RInv

\* The invariant behind the theorems: shapes and registry together.
LEMMA RegistryAlways == UniqueNames => (Spec => []RInv)
<1> SUFFICES ASSUME UniqueNames PROVE Spec => []RInv
  OBVIOUS
<1>1. Init => RInv
  BY ShapeInit, RegistryInit DEF RInv
<1>2. RInv /\ [Next]_vars => RInv'
  BY RegistryStep
<1> QED
  BY <1>1, <1>2, PTL DEF Spec

\* The variables keep their types; in particular the client counter never
\* goes below zero, because it always is the number of counted clients.
THEOREM ClienteleTyped == UniqueNames => (Spec => []TypeOK)
<1> SUFFICES ASSUME UniqueNames PROVE Spec => []TypeOK
  OBVIOUS
<1>1. RInv => TypeOK
  BY CountedFinite DEF RInv, RegistryInv, ShapeOK, TypeOK
<1> QED
  BY <1>1, RegistryAlways, PTL

\* Between any two writes of any handler the maps and the counter hold what
\* has been written to them, and one handler at most is halfway.
THEOREM RegistryConsistent == UniqueNames => (Spec => []RegistryInv)
<1> SUFFICES ASSUME UniqueNames PROVE Spec => []RegistryInv
  OBVIOUS
<1>1. RInv => RegistryInv
  BY DEF RInv
<1> QED
  BY <1>1, RegistryAlways, PTL

\* When nobody holds the mutex no handler is halfway.
LEMMA NobodyHalfway ==
  ASSUME RInv, mutex = Nobody
  PROVE  /\ InName = {c \in Conn : Present(c)}
         /\ InLayer = InName /\ Counted = InName
<1>1. \A c \in Conn : phase[c] \notin Locked
  BY ConnAssumption DEF RInv, RegistryInv
<1> QED
  BY <1>1 DEF RInv, ShapeOK, Phase, InName, InLayer, Counted, Present, Locked

\* Whoever takes the mutex finds exactly the clients that were added and are
\* not yet removed, under their names, in their layers, and in the counter.
THEOREM RegistryIsExact == UniqueNames => (Spec => []RegistryExact)
<1> SUFFICES ASSUME UniqueNames PROVE Spec => []RegistryExact
  OBVIOUS
<1>1. RInv => RegistryExact
  <2> SUFFICES ASSUME RInv, mutex = Nobody
               PROVE  /\ \A c \in Conn : Present(c) <=> byName[NameOf[c]] = c
                      /\ \A l \in Layer : byLayer[l] =
                           {NameOf[c] : c \in {d \in Conn : Present(d) /\ LayerOf[d] = l}}
                      /\ total = Cardinality({c \in Conn : Present(c)})
    BY DEF RegistryExact
  <2>1. \A c \in Conn : Present(c) <=> byName[NameOf[c]] = c
    BY NobodyHalfway, ConnAssumption DEF RInv, RegistryInv
  <2>2. \A l \in Layer : {d \in InLayer : LayerOf[d] = l}
                          = {d \in Conn : Present(d) /\ LayerOf[d] = l}
    BY NobodyHalfway
  <2>3. \A l \in Layer : byLayer[l] =
          {NameOf[c] : c \in {d \in Conn : Present(d) /\ LayerOf[d] = l}}
    BY <2>2 DEF RInv, RegistryInv
  <2>4. total = Cardinality({c \in Conn : Present(c)})
    BY NobodyHalfway DEF RInv, RegistryInv
  <2> QED
    BY <2>1, <2>3, <2>4
<1> QED
  BY <1>1, RegistryAlways, PTL

LEMMA RegisteredIsInName == RInv => Registered = InName
  BY ConnAssumption DEF RInv, RegistryInv, Registered, InName

\* Whatever moment WaitForClients polls at, total is at most one off.
THEOREM TotalIsNearlyRight == UniqueNames => (Spec => []TotalNearlyRight)
<1> SUFFICES ASSUME UniqueNames PROVE Spec => []TotalNearlyRight
  OBVIOUS
<1>1. RInv => TotalNearlyRight
  <2> SUFFICES ASSUME RInv
               PROVE  total \in Cardinality(InName) - 1 .. Cardinality(InName) + 1
    BY RegisteredIsInName DEF TotalNearlyRight, Registered
  <2>1. total = Cardinality(Counted) /\ total \in Nat
    BY CountedFinite DEF RInv, RegistryInv
  <2>2. CASE mutex = Nobody
    BY <2>1, <2>2, NobodyHalfway
  <2>3. CASE mutex # Nobody
    <3>1. PICK c \in Conn : mutex = c
      BY <2>3 DEF RInv, ShapeOK
    <3>2. phase[c] \in Locked /\ \A d \in Conn \ {c} : phase[d] \notin Locked
      BY <3>1 DEF RInv, RegistryInv
    <3>3. InName = Counted \cup {c} \/ InName = Counted \ {c}
      BY <3>2 DEF RInv, ShapeOK, Phase, InName, Counted, Locked
    <3>4. Cardinality(InName) \in Cardinality(Counted) - 1 .. Cardinality(Counted) + 1
      <4>1. Cardinality(Counted \cup {c}) =
              IF c \in Counted THEN Cardinality(Counted) ELSE Cardinality(Counted) + 1
        BY CountedFinite, FS_AddElement
      <4>2. Cardinality(Counted \ {c}) =
              IF c \in Counted THEN Cardinality(Counted) - 1 ELSE Cardinality(Counted)
        BY CountedFinite, FS_RemoveElement
      <4>3. /\ Cardinality(Counted) \in Nat
            /\ \/ Cardinality(InName) = Cardinality(Counted \cup {c})
               \/ Cardinality(InName) = Cardinality(Counted \ {c})
        BY <3>3, CountedFinite, Zenon
      <4> QED
        BY <4>1, <4>2, <4>3
    <3> QED
      BY <2>1, <3>4
  <2> QED
    BY <2>2, <2>3
<1> QED
  BY <1>1, RegistryAlways, PTL

-----------------------------------------------------------------------------
(***************************************************************************)
(* Refinement: Registry, with the clients found by name as its members.    *)
(***************************************************************************)

\* An unlocked lookup by name finds the client of that name, if any.
LEMMA EntryIsMember ==
  ASSUME UniqueNames, RInv, NEW n \in Name
  PROVE  Entry(n) = {c \in Registered : NameOf[c] = n}
<1>1. PICK c \in Conn : n = NameOf[c]
  BY DEF Name
<1>2. byName[n] = IF c \in InName THEN c ELSE Nobody
  BY <1>1 DEF RInv, RegistryInv
<1>3. \A d \in Conn : NameOf[d] = n <=> d = c
  BY <1>1 DEF UniqueNames
<1>4. CASE c \in InName
  BY <1>2, <1>3, <1>4, ConnAssumption, RegisteredIsInName DEF Entry, InName
<1>5. CASE c \notin InName
  BY <1>2, <1>3, <1>5, RegisteredIsInName DEF Entry, InName
<1> QED
  BY <1>4, <1>5

LEMMA LayerIsMembers ==
  ASSUME UniqueNames, RInv, mutex = Nobody, NEW l \in Layer
  PROVE  UNION {Entry(n) : n \in byLayer[l]} = {c \in Registered : LayerOf[c] = l}
<1>1. byLayer[l] = {NameOf[c] : c \in {d \in Registered : LayerOf[d] = l}}
  BY NobodyHalfway, RegisteredIsInName DEF RInv, RegistryInv
<1>2. \A c \in Registered : Entry(NameOf[c]) = {c}
  BY EntryIsMember DEF Registered, UniqueNames, Name
<1>3. {Entry(n) : n \in byLayer[l]} = {{c} : c \in {d \in Registered : LayerOf[d] = l}}
  BY <1>1, <1>2
<1> QED
  BY <1>3

LEMMA RefinesInit == Init => Abstract!AbsInit
<1> SUFFICES ASSUME Init PROVE Registered = {} /\ answer = Found("none", "none", {})
  BY DEF Abstract!AbsInit, Abstract!NothingAsked, Abstract!Found, Found
<1> QED
  BY ConnAssumption DEF Init, Registered, Name

LEMMA RefinesHandler ==
  ASSUME UniqueNames, RInv, RInv', NEW c \in Conn, Handler(c)
  PROVE  [Abstract!AbsNext]_(Abstract!absVars)
<1>0. Registered = InName /\ Registered' = InName' /\ UNCHANGED answer
  <2>1. Registered = InName
    BY RegisteredIsInName
  <2>2. Registered' = InName'
    BY ConnAssumption DEF RInv, RegistryInv, Registered, InName
  <2>3. UNCHANGED answer
    BY DEF Handler, Greet, AddByName, AddByLayer, AddTotal,
       EndStream, RemoveByName, RemoveByLayer, RemoveTotal
  <2> QED
    BY <2>1, <2>2, <2>3
<1> USE DEF RInv, ShapeOK, Goes
<1>1. CASE AddByName(c)
  <2>1. c \notin InName /\ InName' = InName \cup {c}
    BY <1>1 DEF AddByName, InName
  <2>2. Abstract!AbsAdd(c)
    BY <1>0, <2>1 DEF Abstract!AbsAdd
  <2> QED
    BY <2>2 DEF Abstract!AbsNext
<1>2. CASE RemoveByName(c)
  <2>1. c \in InName /\ InName' = InName \ {c}
    BY <1>2 DEF RemoveByName, InName
  <2>2. Abstract!AbsRemove(c)
    BY <1>0, <2>1 DEF Abstract!AbsRemove
  <2> QED
    BY <2>2 DEF Abstract!AbsNext
<1>3. CASE Greet(c) \/ AddByLayer(c) \/ AddTotal(c) \/ EndStream(c)
           \/ RemoveByLayer(c) \/ RemoveTotal(c)
  <2>1. InName' = InName
    BY <1>3 DEF Greet, AddByLayer, AddTotal, EndStream, RemoveByLayer, RemoveTotal, InName
  <2> QED
    BY <1>0, <2>1 DEF Abstract!absVars
<1> QED
  BY <1>1, <1>2, <1>3 DEF Handler

LEMMA RefinesStep ==
  ASSUME UniqueNames, RInv, RInv', [Next]_vars
  PROVE  [Abstract!AbsNext]_(Abstract!absVars)
<1>1. ASSUME NEW c \in Conn, Handler(c)
      PROVE  [Abstract!AbsNext]_(Abstract!absVars)
  BY <1>1, RefinesHandler
<1>2. ASSUME NEW r \in Reader, NEW n \in Name, StartByName(r, n)
      PROVE  UNCHANGED Abstract!absVars
  BY <1>2 DEF StartByName, registry, Registered, Abstract!absVars
<1>3. ASSUME NEW r \in Reader, GetByName(r)
      PROVE  Abstract!AbsNext
  <2>1. PICK n \in Name : answer' = Found("name", n, Entry(n))
    BY <1>3 DEF GetByName, RInv, ShapeOK
  <2>2. UNCHANGED Registered
    BY <1>3 DEF GetByName, registry, Registered
  <2>3. Abstract!AbsByName(n)
    BY <2>1, <2>2, EntryIsMember DEF Abstract!AbsByName, Abstract!Found, Found
  <2> QED
    BY <2>3 DEF Abstract!AbsNext, Name
<1>4. ASSUME NEW r \in Reader, NEW l \in Layer, GetByLayer(r, l)
      PROVE  Abstract!AbsNext
  <2>1. mutex = Nobody
        /\ answer' = Found("layer", l, UNION {Entry(n) : n \in byLayer[l]})
    BY <1>4 DEF GetByLayer
  <2>2. UNCHANGED Registered
    BY <1>4 DEF GetByLayer, registry, Registered
  <2>3. Abstract!AbsByLayer(l)
    BY <2>1, <2>2, LayerIsMembers DEF Abstract!AbsByLayer, Abstract!Found, Found
  <2> QED
    BY <2>3 DEF Abstract!AbsNext, Layer
<1>5. CASE UNCHANGED vars
  BY <1>5 DEF vars, Registered, Abstract!absVars
<1> QED
  BY <1>1, <1>2, <1>3, <1>4, <1>5 DEF Next

\* Lookups cannot tell the half-written maps from a set of clients that
\* changes in one step.
THEOREM ClienteleImplementsRegistry == UniqueNames => (Spec => ImplementsRegistry)
<1> SUFFICES ASSUME UniqueNames PROVE Spec => Abstract!AbsSpec
  BY DEF ImplementsRegistry
<1>1. Spec => []RInv
  BY RegistryAlways
<1>2. RInv /\ RInv' /\ [Next]_vars => [Abstract!AbsNext]_(Abstract!absVars)
  BY RefinesStep
<1> QED
  BY <1>1, <1>2, RefinesInit, PTL DEF Spec, Abstract!AbsSpec
=============================================================================
