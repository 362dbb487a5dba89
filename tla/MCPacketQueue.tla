--------------------------- MODULE MCPacketQueue ---------------------------
(* Small values for PacketQueue: more addresses than slots, so that a full *)
(* ring refuses and a wrapped ring merges.                                 *)
EXTENDS PacketQueue
MCAddr == 1 .. 4
=============================================================================
