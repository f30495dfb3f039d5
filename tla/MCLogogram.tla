----------------------------- MODULE MCLogogram -----------------------------
(***************************************************************************)
(* Instances of Logogram for TLC: generator, adversary and extractor.      *)
(***************************************************************************)
EXTENDS Logogram

MCAgent   == {Generator, Adversary, Extractor}
MCLayerOf == [a \in MCAgent |-> 0]
MCPeerOf  == [a \in MCAgent |-> Server]
=============================================================================
