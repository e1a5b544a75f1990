--------------------------- MODULE MCRunControl ---------------------------
(***************************************************************************)
(* Small instances of RunControl: one device and three clicks, or a master *)
(* with a slave and two clicks.  A device that is off stays off, and where *)
(* it is does not matter.                                                  *)
(***************************************************************************)
EXTENDS RunControl, TLC

CONSTANTS m, s, t1, t2

MCInit ==
    /\ Init
    /\ target = [d \in Devices |-> t1]
    /\ \/ role = (m :> "Master" @@ s :> "off") /\ clicks = 0
       \/ role = (m :> "Master" @@ s :> "Slave") /\ clicks = 1

MCNext ==
    /\ Next
    /\ role[s] = "off" => role'[s] = "off" /\ target'[s] = target[s]

MCSpec == MCInit /\ [][MCNext]_vars /\ Fairness
=============================================================================
