--------------------------- MODULE MCPacketReader ---------------------------
EXTENDS PacketReader

(* 128 is the first length whose low byte is a negative char. *)
SomeLengths == {0, 1, 127, 128, 256}
=============================================================================
