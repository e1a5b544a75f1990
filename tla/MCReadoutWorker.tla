-------------------------- MODULE MCReadoutWorker --------------------------
(***************************************************************************)
(* A small instance of ReadoutWorker.                                      *)
(***************************************************************************)
EXTENDS ReadoutWorker

\* A packet of one event; the same packet cut short by the network, invalid
\* as a datagram and valid as a record; and a header longer than its buffer.
MCPackets ==
    {[tag |-> 1, bytes |-> 48, bufferLength |-> 24, headerLength |-> 21],
     [tag |-> 2, bytes |-> 46, bufferLength |-> 24, headerLength |-> 21],
     [tag |-> 3, bytes |-> 48, bufferLength |-> 24, headerLength |-> 25]}
=============================================================================
