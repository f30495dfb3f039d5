---------------------------- MODULE MCClientele -----------------------------
(***************************************************************************)
(* Instances of Clientele for TLC: three connections, two of them of one   *)
(* layer.  With MCReconnect the third is a second process of the first     *)
(* agent, started again before the server noticed that the first one died. *)
(***************************************************************************)
EXTENDS Clientele, TLC

CONSTANTS toki, pona, penny, tails, again

MCLayerOf == [c \in Conn |-> IF c \in {toki, pona, again} THEN 1 ELSE 2]
MCNameOf  == [c \in Conn |-> c]
MCReconnect == [c \in Conn |-> IF c = again THEN toki ELSE c]
=============================================================================
