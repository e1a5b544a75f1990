----------------------------- MODULE JobService -----------------------------
(***************************************************************************)
(* What DeviceWorkers promises the GUI, whatever threads and connections   *)
(* it is built from: the requests for one device are answered one by one   *)
(* in the order they were made, each once.  Only requests for a device     *)
(* that the client is leaving may be dropped instead, and a client that    *)
(* closes the service with drain gets all its requests carried out.        *)
(***************************************************************************)
EXTENDS Naturals, Sequences

CONSTANTS Devices, Requests

VARIABLES pending,  \* pending[d]: the requests for d without an answer
          answers,  \* answers that the client has not taken yet
          leaving,  \* the devices whose requests may be dropped
          open      \* the client may still make requests

vars == <<pending, answers, leaving, open>>

Init ==
    /\ pending = [d \in Devices |-> << >>]
    /\ answers = << >>
    /\ leaving = {}
    /\ open = TRUE

\* The client makes further requests, behind those it has made before.
MoreAsked ==
    /\ pending' \in [Devices -> Seq(Requests)]
    /\ \A d \in Devices :
          /\ Len(pending[d]) <= Len(pending'[d])
          /\ \A i \in DOMAIN pending[d] : pending'[d][i] = pending[d][i]

\* The client makes requests, and may announce that it leaves some devices.
Request(ds) ==
    /\ open
    /\ leaving = {}
    /\ MoreAsked
    /\ leaving' = ds
    /\ UNCHANGED <<answers, open>>

Close(drain) ==
    /\ open
    /\ leaving = {}
    /\ MoreAsked
    /\ leaving' = IF drain THEN {} ELSE Devices
    /\ open' = FALSE
    /\ UNCHANGED answers

Answer(d, ok) ==
    /\ pending[d] # << >>
    /\ pending' = [pending EXCEPT ![d] = Tail(@)]
    /\ answers' = Append(answers, [device |-> d, item |-> Head(pending[d]), ok |-> ok])
    /\ UNCHANGED <<leaving, open>>

Drop(d) ==
    /\ d \in leaving
    /\ pending' = [pending EXCEPT ![d] = << >>]
    /\ UNCHANGED <<answers, leaving, open>>

\* The client has left: nothing of these devices is pending any more.
Left ==
    /\ open
    /\ \A d \in leaving : pending[d] = << >>
    /\ leaving' = {}
    /\ UNCHANGED <<pending, answers, open>>

Take ==
    /\ open
    /\ answers # << >>
    /\ answers' = Tail(answers)
    /\ UNCHANGED <<pending, leaving, open>>

Next ==
    \/ \E ds \in SUBSET Devices : Request(ds)
    \/ \E drain \in BOOLEAN : Close(drain)
    \/ \E d \in Devices, ok \in BOOLEAN : Answer(d, ok)
    \/ \E d \in Devices : Drop(d)
    \/ Left
    \/ Take

Spec == Init /\ [][Next]_vars
=============================================================================
