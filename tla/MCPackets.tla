------------------------------- MODULE MCPackets -------------------------------
(* Packets for a few arrivals, which come in one order and need no symmetry. *)
EXTENDS Packets
=============================================================================
