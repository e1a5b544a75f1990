---------------------------- MODULE PacketFanout ----------------------------
(***************************************************************************)
(* What a readout promises its consumers, whatever threads, sockets and    *)
(* files it is built from: packets are handed out one at a time, a valid   *)
(* packet goes to every consumer in the order of the list and exactly      *)
(* once, and a run that closes without an error has handed out everything  *)
(* it accepted.  A run may fail at any moment; nothing follows the end.    *)
(***************************************************************************)
EXTENDS Naturals, Sequences

CONSTANTS Packets,        \* what a source may deliver
          NumConsumers,   \* length of the consumer list
          Valid           \* the packets that consumers are to see

VARIABLES log,        \* every packet accepted, in order
          consumed,   \* consumed[c]: the positions of log handed to c
          phase       \* "open", "closed" or "failed"

vars == <<log, consumed, phase>>

Consumers == 1 .. NumConsumers

ValidPositions == {k \in DOMAIN log : log[k] \in Valid}

CaughtUp == \A c \in Consumers : consumed[c] = ValidPositions

Init ==
    /\ log = << >>
    /\ consumed = [c \in Consumers |-> {}]
    /\ phase = "open"

Accept(p) ==
    /\ phase = "open"
    /\ CaughtUp
    /\ log' = Append(log, p)
    /\ UNCHANGED <<consumed, phase>>

Deliver(c) ==
    /\ phase = "open"
    /\ Len(log) \in ValidPositions \ consumed[c]
    /\ \A d \in Consumers : d < c => Len(log) \in consumed[d]
    /\ consumed' = [consumed EXCEPT ![c] = @ \cup {Len(log)}]
    /\ UNCHANGED <<log, phase>>

Close ==
    /\ phase = "open"
    /\ CaughtUp
    /\ phase' = "closed"
    /\ UNCHANGED <<log, consumed>>

Fail ==
    /\ phase = "open"
    /\ phase' = "failed"
    /\ UNCHANGED <<log, consumed>>

Next ==
    \/ \E p \in Packets : Accept(p)
    \/ \E c \in Consumers : Deliver(c)
    \/ Close
    \/ Fail

Spec == Init /\ [][Next]_vars
=============================================================================
