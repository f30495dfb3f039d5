----------------------------- MODULE MCIterate -----------------------------
(***************************************************************************)
(* Instances of Iterate for TLC: two layers of two agents and the three    *)
(* system agents; the dictionary is the last layer.                        *)
(***************************************************************************)
EXTENDS Iterate, TLC

CONSTANTS toki, pona, nickel, dime

MCAgent ==
  {toki, pona, SysA, SysB, SysC} \cup IF NLayers = 1 THEN {} ELSE {nickel, dime}

MCLayerOf ==
  [a \in MCAgent |->
     CASE a \in {toki, pona}   -> 1
       [] a \in {nickel, dime} -> 2
       [] OTHER                -> 0]

MCPeerOf ==
  [a \in MCAgent |->
     CASE a = toki -> pona
       [] a = pona -> toki
       [] a = nickel -> dime
       [] a = dime -> nickel
       [] OTHER -> Server]

(* The two agents of a layer are interchangeable.                          *)
MCSymmetry ==
  {f \in Permutations({toki, pona, nickel, dime}) :
     f[toki] \in {toki, pona} /\ f[nickel] \in {nickel, dime}}
=============================================================================
