------------------------------- MODULE MCDaq -------------------------------
(***************************************************************************)
(* A small instance of Daq with its three consumers.  One packet is valid: *)
(* the all-zero one, which an unwritten record looks like; the other one   *)
(* was cut short by the network.                                           *)
(***************************************************************************)
EXTENDS Daq

MCHole == [tag |-> 0, bytes |-> DataPacketBytes, bufferLength |-> 0, headerLength |-> 0]

MCPackets ==
    {MCHole, [tag |-> 1, bytes |-> 46, bufferLength |-> 24, headerLength |-> 21]}
=============================================================================
