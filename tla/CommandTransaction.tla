------------------------ MODULE CommandTransaction ------------------------
(***************************************************************************)
(* Commands to a device over UDP: command_transaction_() of                *)
(* src/mesytec-mcpd/mcpd_functions.cc with the command functions built on  *)
(* it, and its two users in mcpd_py_commands.cc: McpdConnection, which     *)
(* keeps the id of its device, and find_mcpd_id(), which probes for it.    *)
(* One behaviour is the life of one command socket.  The commands are the  *)
(* kinds there are: without effect, the id, a register written and read    *)
(* (for every other setting and its query), the one whose error flag is    *)
(* ignored, and the network setup, after which the device may be gone.     *)
(*                                                                         *)
(* A transaction sends its request up to MaxAttempts times and takes the   *)
(* first datagram whose command number matches; requests carry no serial   *)
(* number.  The network loses datagrams.  It is either "prompt" (what      *)
(* arrives at all arrives before the receive timeout) or "slow" (datagrams *)
(* are also delayed for any time and overtake each other).  Neither makes   *)
(* copies: the copies that matter are those the retries make.  call and    *)
(* attempt of a message are history: no code reads them.                   *)
(***************************************************************************)
EXTENDS Naturals

CONSTANTS MaxId,        \* ids are 0 .. MaxId; 255 in the code
          Addresses,    \* register addresses
          Values,       \* register values
          MaxAttempts,  \* sends per transaction; 5 in the code
          MaxCalls,     \* bound: calls on one connection, for each kind of network
          Unknown       \* no value

ASSUME CommandAssumption ==
    /\ MaxId \in Nat
    /\ Addresses \subseteq Nat
    /\ MaxCalls \in [{"prompt", "slow"} -> Nat]
    /\ MaxAttempts \in Nat \ {0}
    /\ 0 \in Values
    /\ Unknown \notin Values

VARIABLES
    setup,      \* which program owns the socket, and its network
    device,     \* the device: its id, its registers, and whether it is still
                \* at the address that the socket is connected to
    mcpdId,     \* McpdConnection::mcpdId_, or the id find_mcpd_id() is at
    call,       \* history: number of calls begun
    op,         \* the current or last call
    pc,         \* where that call is
    attempt,    \* its loop variable
    requests,   \* datagrams on the way to the device
    responses,  \* datagrams on the way to or in the socket
    result,     \* what the last call returned
    executed,   \* history: the requests that the device carried out
    idKnown,    \* history: no set_id() has failed yet
    believed,   \* history: what the calls told the caller of the registers
    seen        \* history: the device answered after the last try to move it

clientVars == <<mcpdId, call, op, pc, attempt, result, idKnown, believed, seen>>
netVars == <<requests, responses>>
deviceVars == <<device, executed>>
vars == <<setup, clientVars, netVars, deviceVars>>

Ids == 0 .. MaxId

Setups == [prog : {"connection", "find"}, net : {"prompt", "slow"}]

Commands ==
    {"GetVersion", "SetId", "WriteRegister", "ReadRegister", "SetGain", "SetProtoParams"}

GetVersion == [cmd |-> "GetVersion", key |-> 0, value |-> 0]

SetIds == [cmd : {"SetId"}, key : Ids, value : {0}]

WriteRegisters == [cmd : {"WriteRegister"}, key : Addresses, value : Values]

ReadRegisters == [cmd : {"ReadRegister"}, key : Addresses, value : {0}]

SetGain == [cmd |-> "SetGain", key |-> 0, value |-> 0]

\* value tells whether the address changes, key who asks: set_ip_address() and
\* set_data_dest_port(), or set_ip_address_and_data_dest().
NetworkSetups == [cmd : {"SetProtoParams"}, key : {0, 1}, value : {0, 1}]

Moves(o) == o.cmd = "SetProtoParams" /\ o.value = 1

Operations ==
    {GetVersion, SetGain} \cup SetIds \cup WriteRegisters \cup ReadRegisters \cup NetworkSetups

Quiet == requests = {} /\ responses = {}

Init ==
    /\ setup \in Setups
    /\ device \in [id : Ids, registers : [Addresses -> {0}], here : {TRUE}]
    /\ mcpdId = IF setup.prog = "connection" THEN device.id ELSE 0
    /\ call = 0
    /\ op = GetVersion
    /\ pc = "idle"
    /\ attempt = 0
    /\ requests = {}
    /\ responses = {}
    /\ result = [status |-> "none", value |-> 0]
    /\ executed = {}
    /\ idKnown = TRUE
    /\ believed = [a \in Addresses |-> Unknown]
    /\ seen = FALSE
-----------------------------------------------------------------------------
(* The device, as src/test/fake_mcpd_device.py has it, but one that moves  *)
(* when it is told to, and is not heard again on this socket.              *)

\* The state after operation o in state s.
Effect(o, s) ==
    [s EXCEPT
        !.id = IF o.cmd = "SetId" THEN o.key ELSE @,
        !.registers = IF o.cmd = "WriteRegister" THEN [@ EXCEPT ![o.key] = o.value] ELSE @,
        !.here = @ /\ ~Moves(o)]

\* The state after request r.
After(r) == Effect(r.op, device)

\* The answer to r.  SetGain always sets the error flag.
Answer(r) ==
    [cmd |-> r.op.cmd,
     error |-> IF r.id # device.id THEN "IdMismatch"
               ELSE IF r.op.cmd = "SetGain" THEN "other" ELSE "none",
     value |-> IF r.op.cmd = "ReadRegister" /\ r.id = device.id
               THEN device.registers[r.op.key] ELSE 0,
     call |-> r.call,
     attempt |-> r.attempt]

DeviceHandles ==
    \E r \in requests :
        /\ device.here
        /\ requests' = requests \ {r}
        /\ IF r.id = device.id
           THEN device' = After(r) /\ executed' = executed \cup {r}
           ELSE UNCHANGED deviceVars
        /\ responses' = IF device'.here THEN responses \cup {Answer(r)} ELSE responses
        /\ UNCHANGED <<setup, clientVars>>

\* On a slow network a datagram that is never delivered counts as lost.
LoseRequest ==
    /\ setup.net = "prompt"
    /\ \E r \in requests : requests' = requests \ {r}
    /\ UNCHANGED <<setup, clientVars, responses, deviceVars>>

LoseResponse ==
    /\ setup.net = "prompt"
    /\ \E r \in responses : responses' = responses \ {r}
    /\ UNCHANGED <<setup, clientVars, requests, deviceVars>>

Network == DeviceHandles \/ LoseRequest \/ LoseResponse
-----------------------------------------------------------------------------
(* What a call does when its transaction is over.                          *)

\* What the caller may conclude about the registers.
Belief(status, value) ==
    IF op.cmd = "WriteRegister"
    THEN [believed EXCEPT ![op.key] = IF status = "ok" THEN op.value ELSE Unknown]
    ELSE IF op.cmd = "ReadRegister" /\ status = "ok"
         THEN [believed EXCEPT ![op.key] = value]
         ELSE believed

\* A timeout or a socket error is no answer.
IsAnswer(status) == status \in {"ok", "IdMismatch", "other"}

\* What the caller may conclude about where the device is: an answer is not to a
\* request that has moved it.
Seen(status) == IsAnswer(status) \/ (seen /\ ~Moves(op))

\* set_ip_address_and_data_dest() takes a timeout for success, and the others
\* throw: nothing answers at the old address.
Outcome(status) ==
    IF status = "timed_out" /\ op.cmd = "SetProtoParams" /\ op.key = 1 THEN "ok" ELSE status

\* Mutation: set_id() does not remember the new id.
ReturnForgetsId(status, value) ==
    /\ pc' = "idle"
    /\ result' = [status |-> Outcome(status), value |-> value]
    /\ idKnown' = (idKnown /\ (op.cmd = "SetId" => status = "ok"))
    /\ believed' = Belief(status, value)
    /\ seen' = Seen(status)
    /\ UNCHANGED <<mcpdId, call, op, attempt>>

\* The functions throw unless the status is "ok"; set_id() then keeps the id.
Return(status, value) ==
    /\ pc' = "idle"
    /\ result' = [status |-> Outcome(status), value |-> value]
    /\ mcpdId' = IF op.cmd = "SetId" /\ status = "ok" THEN op.key ELSE mcpdId
    /\ idKnown' = (idKnown /\ (op.cmd = "SetId" => status = "ok"))
    /\ believed' = Belief(status, value)
    /\ seen' = Seen(status)
    /\ UNCHANGED <<call, op, attempt>>

\* Mutation: one attempt too many.
NextAttemptOffByOne ==
    IF attempt < MaxAttempts
    THEN /\ attempt' = attempt + 1
         /\ pc' = "send"
         /\ UNCHANGED <<mcpdId, call, op, result, idKnown, believed, seen>>
    ELSE Return("timed_out", 0)

\* Mutation: what is not the answer does not use up an attempt.
NextAttemptForever ==
    /\ pc' = "send"
    /\ UNCHANGED <<mcpdId, call, op, attempt, result, idKnown, believed, seen>>

\* continue in the loop over the attempts.
NextAttempt ==
    IF attempt + 1 < MaxAttempts
    THEN /\ attempt' = attempt + 1
         /\ pc' = "send"
         /\ UNCHANGED <<mcpdId, call, op, result, idKnown, believed, seen>>
    ELSE Return("timed_out", 0)
-----------------------------------------------------------------------------
(* The transaction loop.                                                   *)

Send ==
    /\ pc = "send"
    /\ requests' = requests \cup
         {[op |-> op, id |-> mcpdId, call |-> call, attempt |-> attempt]}
    /\ pc' = "receive"
    /\ UNCHANGED <<setup, mcpdId, call, op, attempt, result, idKnown, believed, seen,
                   responses, deviceVars>>

SendTimeout ==
    /\ pc = "send"
    /\ NextAttempt
    /\ UNCHANGED <<setup, netVars, deviceVars>>

\* Mutation: any response is taken for the answer.
MatchesAnyCommand(r) == TRUE

\* The only test that ties a response to the request.
Matches(r) == r.cmd = op.cmd

\* mpsd_set_gain() ignores the error flag.
Accepts(r) == r.error = "none" \/ op.cmd = "SetGain"

\* One datagram is read; what does not match uses up the attempt.
Receive ==
    /\ pc = "receive"
    /\ \E r \in responses :
          /\ responses' = responses \ {r}
          /\ IF ~Matches(r) THEN NextAttempt
             ELSE IF Accepts(r) THEN Return("ok", r.value)
             ELSE Return(r.error, 0)
    /\ UNCHANGED <<setup, requests, deviceVars>>

\* Mutation: the socket has no receive timeout of its own.
ReceiveTimeoutEarly ==
    /\ pc = "receive"
    /\ responses = {}
    /\ NextAttempt
    /\ UNCHANGED <<setup, netVars, deviceVars>>

\* Nothing arrived within DefaultReadTimeout_ms.
ReceiveTimeout ==
    /\ pc = "receive"
    /\ setup.net = "prompt" => Quiet
    /\ NextAttempt
    /\ UNCHANGED <<setup, netVars, deviceVars>>

\* Any other socket error ends the transaction: the socket was closed, or the
\* network says that the request was not delivered.
SocketError ==
    /\ \/ pc = "send"
       \/ pc = "receive" /\ (setup.net = "prompt" => Quiet)
    /\ Return("socket", 0)
    /\ UNCHANGED <<setup, netVars, deviceVars>>

Transaction ==
    Send \/ SendTimeout \/ Receive \/ ReceiveTimeout \/ SocketError
-----------------------------------------------------------------------------
(* The programs.                                                           *)

\* A method of McpdConnection is called.
Call ==
    /\ setup.prog = "connection"
    /\ pc = "idle"
    /\ call < MaxCalls[setup.net]
    /\ op' \in Operations
    /\ call' = call + 1
    /\ pc' = "send"
    /\ attempt' = 0
    /\ UNCHANGED <<setup, mcpdId, result, idKnown, believed, seen, netVars, deviceVars>>

\* Mutation: any failure moves on to the next id.
ProbeAfterAnyError ==
    /\ setup.prog = "find"
    /\ pc = "idle"
    /\ call \in Ids
    /\ result.status # "ok"
    /\ mcpdId' = call
    /\ call' = call + 1
    /\ pc' = "send"
    /\ attempt' = 0
    /\ UNCHANGED <<setup, op, result, idKnown, believed, seen, netVars, deviceVars>>

\* find_mcpd_id(): get_version with the next id, as long as the device says
\* that the id is not its own.
Probe ==
    /\ setup.prog = "find"
    /\ pc = "idle"
    /\ call \in Ids
    /\ result.status \in {"none", "IdMismatch"}
    /\ mcpdId' = call
    /\ call' = call + 1
    /\ pc' = "send"
    /\ attempt' = 0
    /\ UNCHANGED <<setup, op, result, idKnown, believed, seen, netVars, deviceVars>>

Next == Call \/ Probe \/ Transaction \/ Network

Spec == Init /\ [][Next]_vars

\* A call runs on, receive() returns, and a prompt network settles.
Fairness == WF_vars(Transaction) /\ WF_vars(setup.net = "prompt" /\ Network)

FairSpec == Spec /\ Fairness
-----------------------------------------------------------------------------
(* Properties.                                                             *)

Statuses == {"none", "ok", "IdMismatch", "other", "timed_out", "socket"}

Request == [op : Operations, id : Ids, call : Nat, attempt : 0 .. MaxAttempts - 1]

Response ==
    [cmd : Commands, error : {"none", "IdMismatch", "other"}, value : Values,
     call : Nat, attempt : 0 .. MaxAttempts - 1]

\* Every variable keeps its type.
TypeOK ==
    /\ setup \in Setups
    /\ device \in [id : Ids, registers : [Addresses -> Values], here : BOOLEAN]
    /\ mcpdId \in Ids
    /\ call \in Nat
    /\ op \in Operations
    /\ pc \in {"idle", "send", "receive"}
    /\ attempt \in 0 .. MaxAttempts - 1
    /\ requests \subseteq Request
    /\ responses \subseteq Response
    /\ result \in [status : Statuses, value : Values]
    /\ executed \subseteq Request
    /\ idKnown \in BOOLEAN
    /\ believed \in [Addresses -> Values \cup {Unknown}]
    /\ seen \in BOOLEAN

\* Two functions take an error for success: mpsd_set_gain() any error of the
\* device, set_ip_address_and_data_dest() a timeout.
TakesErrors(o) == o = SetGain \/ (o.cmd = "SetProtoParams" /\ o.key = 1)

\* Even on a slow network, a call that returns normally was carried out by the
\* device at least once, or an earlier call of the same command was, unless its
\* function takes errors for success (command_transaction_() compares command
\* numbers and nothing else).
OkMeansExecuted ==
    pc = "idle" /\ result.status = "ok" /\ ~TakesErrors(op) =>
        \E e \in executed : e.op.cmd = op.cmd

\* If answers arrive in time, connection and device agree on the id unless a
\* set_id() has failed: its retries are idempotent only in this sense.
IdsAgree ==
    setup.prog = "connection" /\ setup.net = "prompt" /\ pc = "idle" /\ idKnown =>
        mcpdId = device.id

\* If answers arrive in time, a register holds what the caller last wrote or
\* read, whatever failed in between (test_write_then_read_register_roundtrip); and
\* a device that has answered since the last try to move it is still where it was,
\* so that a setup that was refused may be repeated on the same connection.
BeliefsHold ==
    setup.net = "prompt" /\ pc = "idle" =>
        /\ \A a \in Addresses : believed[a] \in {Unknown, device.registers[a]}
        /\ seen => device.here

\* If answers arrive in time, find_mcpd_id() never passes over the device.
ProbeFindsDevice ==
    setup.prog = "find" /\ setup.net = "prompt" /\ pc = "idle" =>
        /\ result.status = "ok" => mcpdId = device.id
        /\ result.status = "IdMismatch" => mcpdId < device.id

\* v is what o asks for in state s.
Tells(o, s, v) == o.cmd = "ReadRegister" => v = s.registers[o.key]

\* What CommandTransaction makes of a call, as the caller sees it.
Remote ==
    INSTANCE RemoteCall
        WITH States <- [id : Ids, registers : [Addresses -> Values], here : BOOLEAN],
             Forgiving <- {o \in Operations : TakesErrors(o)},
             state <- device,
             busy <- pc # "idle",
             done <- \E e \in executed : e.call = call,
             outcome <- result

\* If answers arrive in time, every step is one of an abstract remote call, or none:
\* no attempt takes effect after its call has returned, none returns the answer to an
\* earlier call, and a call that succeeds was carried out, in spite of lost datagrams
\* and of the attempts that repeat it.
ImplementsRemoteCall ==
    /\ setup.net = "prompt" => Remote!Init
    /\ [][setup.net = "prompt" => Remote!Next]_(Remote!vars)

\* Every call returns: it has a bounded number of attempts, each of which ends.
CallsReturn == pc # "idle" ~> pc = "idle"

\* What mcpd_py_commands.h says of find_mcpd_id(): it probes the ids until one
\* responds, so the id it returns is that of the device.
FoundIdResponds ==
    setup.prog = "find" /\ pc = "idle" /\ result.status = "ok" => mcpdId = device.id
=============================================================================
