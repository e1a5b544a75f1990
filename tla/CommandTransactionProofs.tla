---------------------- MODULE CommandTransactionProofs ----------------------
(***************************************************************************)
(* Proofs about CommandTransaction, for any ids, registers and values, any *)
(* number of attempts and calls.  The invariant says what is in flight     *)
(* while a call waits: on a prompt network nothing but the request of the  *)
(* current attempt, or its answer.  The last part is about any network:    *)
(* every step of a call leaves less to do.                                 *)
(***************************************************************************)
EXTENDS CommandTransaction, FiniteSetTheorems, TLAPS

IsPrompt == setup.net = "prompt"

\* The request of the current attempt.
Current == [op |-> op, id |-> mcpdId, call |-> call, attempt |-> attempt]

FlightInv ==
    IsPrompt =>
        /\ pc # "receive" => Quiet
        /\ requests \subseteq {Current}
        /\ requests # {} => responses = {}
        /\ \A r \in responses : r.cmd = op.cmd /\ responses = {r}

\* What an answer in flight says of the device.
AnswerInv ==
    IsPrompt => \A r \in responses :
        /\ device.here
        /\ r.error = "none" =>
              /\ Current \in executed
              /\ op.cmd = "SetId" => device.id = op.key
              /\ op.cmd = "WriteRegister" => device.registers[op.key] = op.value
              /\ op.cmd = "ReadRegister" => r.value = device.registers[op.key]

\* While set_id() runs, the device has the old id or the new one.
IdInv ==
    setup.prog = "connection" /\ IsPrompt /\ idKnown =>
        \/ mcpdId = device.id
        \/ pc # "idle" /\ op.cmd = "SetId" /\ device.id = op.key

\* While a register is written, or a move tried, nothing is said of it.
BeliefInv ==
    IsPrompt =>
        /\ \A a \in Addresses :
              \/ believed[a] \in {Unknown, device.registers[a]}
              \/ pc # "idle" /\ op.cmd = "WriteRegister" /\ op.key = a
        /\ seen /\ ~(pc # "idle" /\ Moves(op)) => device.here

\* A probe goes through the ids in order and stops at that of the device.
ProbeInv ==
    setup.prog = "find" /\ IsPrompt =>
        /\ op = GetVersion
        /\ call = 0 => pc = "idle" /\ result.status = "none"
        /\ call > 0 => mcpdId = call - 1
        /\ pc = "idle" /\ result.status = "none" => call = 0
        /\ pc # "idle" => mcpdId <= device.id
        /\ pc = "idle" /\ result.status = "ok" => mcpdId = device.id
        /\ pc = "idle" /\ result.status = "IdMismatch" => mcpdId < device.id
        /\ \A r \in responses : /\ r.error = "none" => mcpdId = device.id
                                /\ r.error = "IdMismatch" => mcpdId # device.id

\* On any network.
ExecutedInv == \A r \in responses : r.error = "none" => \E e \in executed : e.op.cmd = r.cmd
-----------------------------------------------------------------------------
(* Types.                                                                  *)

LEMMA OperationTypes ==
    ASSUME NEW o \in Operations
    PROVE  /\ o.cmd \in Commands
           /\ o.cmd = "SetId" => o.key \in Ids
           /\ o.cmd = "WriteRegister" => o.key \in Addresses /\ o.value \in Values
           /\ o.cmd = "ReadRegister" => o.key \in Addresses
           /\ o.cmd = "SetGain" => o = SetGain
BY DEF Operations, Commands, GetVersion, SetGain, SetIds, WriteRegisters, ReadRegisters,
       NetworkSetups

LEMMA ReturnTypes ==
    ASSUME TypeOK, NEW status \in Statuses, NEW value \in Values, Return(status, value)
    PROVE  /\ pc' \in {"idle", "send", "receive"} /\ result' \in [status : Statuses, value : Values]
           /\ mcpdId' \in Ids /\ idKnown' \in BOOLEAN /\ seen' \in BOOLEAN
           /\ believed' \in [Addresses -> Values \cup {Unknown}]
           /\ call' \in Nat /\ op' \in Operations /\ attempt' \in 0 .. MaxAttempts - 1
<1>1. result' \in [status : Statuses, value : Values]
  BY DEF Return, Outcome, Statuses
<1>2. mcpdId' \in Ids
  BY OperationTypes DEF Return, TypeOK
<1>3. seen' \in BOOLEAN /\ idKnown' \in BOOLEAN
  BY Zenon DEF Return, TypeOK, Seen, IsAnswer
<1>4. believed' \in [Addresses -> Values \cup {Unknown}]
  BY OperationTypes DEF Return, Belief, TypeOK
<1> QED BY <1>1, <1>2, <1>3, <1>4 DEF Return, TypeOK

LEMMA NextAttemptTypes ==
    ASSUME TypeOK, NextAttempt
    PROVE  /\ pc' \in {"idle", "send", "receive"} /\ result' \in [status : Statuses, value : Values]
           /\ mcpdId' \in Ids /\ idKnown' \in BOOLEAN /\ seen' \in BOOLEAN
           /\ believed' \in [Addresses -> Values \cup {Unknown}]
           /\ call' \in Nat /\ op' \in Operations /\ attempt' \in 0 .. MaxAttempts - 1
<1>1. CASE attempt + 1 < MaxAttempts
  BY <1>1, CommandAssumption DEF NextAttempt, TypeOK
<1>2. CASE ~(attempt + 1 < MaxAttempts)
  <2>1. Return("timed_out", 0) /\ "timed_out" \in Statuses /\ 0 \in Values
    BY <1>2, CommandAssumption DEF NextAttempt, Statuses
  <2> QED BY <2>1, ReturnTypes
<1> QED BY <1>1, <1>2

\* What the device does to its own types.
LEMMA DeviceTypes ==
    ASSUME TypeOK, NEW r \in requests
    PROVE  /\ After(r) \in [id : Ids, registers : [Addresses -> Values], here : BOOLEAN]
           /\ Answer(r) \in Response
<1>1. r.op \in Operations /\ r.id \in Ids /\ r.call \in Nat /\ r.attempt \in 0 .. MaxAttempts - 1
  BY DEF TypeOK, Request
<1>2. device \in [id : Ids, registers : [Addresses -> Values], here : BOOLEAN]
  BY DEF TypeOK
<1>3. After(r) \in [id : Ids, registers : [Addresses -> Values], here : BOOLEAN]
  <2>1. (device.here /\ ~Moves(r.op)) \in BOOLEAN
    BY <1>2
  <2> QED BY <1>1, <1>2, <2>1, OperationTypes DEF After, Effect
<1>4. Answer(r) \in Response
  BY <1>1, <1>2, OperationTypes, CommandAssumption DEF Answer, Response
<1> QED BY <1>3, <1>4

LEMMA TypeStep == TypeOK /\ [Next]_vars => TypeOK'
<1> SUFFICES ASSUME TypeOK, [Next]_vars PROVE TypeOK'
  OBVIOUS
<1>1. CASE Call \/ Probe
  BY <1>1, CommandAssumption DEF TypeOK, Call, Probe, netVars, deviceVars, Ids
<1>2. CASE Send
  <2>1. [op |-> op, id |-> mcpdId, call |-> call, attempt |-> attempt] \in Request
    BY DEF TypeOK, Request
  <2> QED BY <1>2, <2>1 DEF TypeOK, Send, deviceVars
<1>3. CASE SendTimeout \/ ReceiveTimeout
  BY <1>3, NextAttemptTypes DEF TypeOK, SendTimeout, ReceiveTimeout, netVars, deviceVars
<1>4. CASE Receive
  <2>1. PICK r \in responses :
          /\ responses' = responses \ {r}
          /\ IF ~Matches(r) THEN NextAttempt
             ELSE IF Accepts(r) THEN Return("ok", r.value) ELSE Return(r.error, 0)
    BY <1>4 DEF Receive
  <2>2. r.value \in Values /\ r.error \in Statuses \cup {"none"}
    BY DEF TypeOK, Response, Statuses
  <2>3. 0 \in Values /\ "ok" \in Statuses
    BY CommandAssumption DEF Statuses
  <2>4. UNCHANGED <<setup, requests, device, executed>>
    BY <1>4 DEF Receive, deviceVars
  <2>5. CASE NextAttempt
    BY <2>1, <2>4, <2>5, NextAttemptTypes DEF TypeOK
  <2>6. ASSUME NEW status \in Statuses, NEW value \in Values, Return(status, value)
        PROVE  TypeOK'
    BY <2>1, <2>4, <2>6, ReturnTypes DEF TypeOK
  <2> QED BY <2>1, <2>2, <2>3, <2>5, <2>6 DEF Statuses
<1>5. CASE SocketError
  <2>1. Return("socket", 0) /\ "socket" \in Statuses /\ 0 \in Values
    BY <1>5, CommandAssumption DEF SocketError, Statuses
  <2> QED BY <1>5, <2>1, ReturnTypes DEF TypeOK, SocketError, netVars, deviceVars
<1>6. CASE DeviceHandles
  BY <1>6, DeviceTypes DEF TypeOK, DeviceHandles, clientVars, deviceVars
<1>7. CASE LoseRequest \/ LoseResponse
  BY <1>7 DEF TypeOK, LoseRequest, LoseResponse, clientVars, deviceVars
<1>8. CASE UNCHANGED vars
  BY <1>8 DEF TypeOK, vars, clientVars, netVars, deviceVars
<1> QED BY <1>1, <1>2, <1>3, <1>4, <1>5, <1>6, <1>7, <1>8 DEF Next, Transaction, Network

LEMMA TypeInit == Init => TypeOK
<1> SUFFICES ASSUME Init PROVE TypeOK
  OBVIOUS
<1>1. device \in [id : Ids, registers : [Addresses -> Values], here : BOOLEAN]
  BY CommandAssumption DEF Init
<1>2. mcpdId \in Ids
  BY <1>1, CommandAssumption DEF Init, Ids
<1>3. believed \in [Addresses -> Values \cup {Unknown}] /\ attempt \in 0 .. MaxAttempts - 1
  BY CommandAssumption DEF Init
<1>4. result \in [status : Statuses, value : Values]
  BY CommandAssumption DEF Init, Statuses
<1>5. setup \in Setups /\ op \in Operations
  BY DEF Init, Operations
<1> QED BY <1>1, <1>2, <1>3, <1>4, <1>5 DEF Init, TypeOK

\* Types of the client, the device and all datagrams: the state of one command
\* socket (mcpd_functions.cc, mcpd_py_commands.cc).
THEOREM CommandTypeCorrect == Spec => []TypeOK
BY TypeInit, TypeStep, PTL DEF Spec
-----------------------------------------------------------------------------
(* Any network.                                                            *)

LEMMA ExecutedStep ==
    TypeOK /\ ExecutedInv /\ OkMeansExecuted /\ [Next]_vars => ExecutedInv' /\ OkMeansExecuted'
<1> SUFFICES ASSUME TypeOK, ExecutedInv, OkMeansExecuted, [Next]_vars
             PROVE  ExecutedInv' /\ OkMeansExecuted'
  OBVIOUS
<1>1. CASE DeviceHandles
  <2>1. PICK r \in requests :
          /\ IF r.id = device.id
             THEN device' = After(r) /\ executed' = executed \cup {r}
             ELSE UNCHANGED deviceVars
          /\ responses' \subseteq responses \cup {Answer(r)}
    BY <1>1 DEF DeviceHandles
  <2>2. executed \subseteq executed' /\ UNCHANGED <<op, pc, result>>
    BY <1>1, <2>1 DEF DeviceHandles, clientVars, deviceVars
  <2>3. Answer(r).error = "none" => r \in executed' /\ Answer(r).cmd = r.op.cmd
    BY <2>1 DEF Answer
  <2>4. ExecutedInv'
    BY <2>1, <2>2, <2>3 DEF ExecutedInv
  <2> QED BY <2>2, <2>4 DEF OkMeansExecuted, TakesErrors
<1>2. CASE ~DeviceHandles
  <2>1. responses' \subseteq responses /\ executed' = executed
    BY <1>2 DEF Next, vars, Call, Probe, Transaction, Send, SendTimeout, Receive, ReceiveTimeout,
                SocketError, Network, LoseRequest, LoseResponse, netVars, deviceVars
  <2>2. ExecutedInv'
    BY <2>1 DEF ExecutedInv
  <2>3. OkMeansExecuted'
    <3>1. CASE Call \/ Probe \/ Send
      BY <3>1 DEF OkMeansExecuted, Call, Probe, Send
    <3>2. ASSUME NEW status, NEW value, Return(status, value),
                 status = "ok" => op = SetGain \/ \E e \in executed : e.op.cmd = op.cmd
          PROVE  OkMeansExecuted'
      BY <2>1, <3>2 DEF Return, Outcome, OkMeansExecuted, TakesErrors
    <3>3. CASE SendTimeout \/ ReceiveTimeout \/ SocketError
      BY <3>2, <3>3 DEF SendTimeout, ReceiveTimeout, SocketError, NextAttempt, OkMeansExecuted
    <3>4. CASE Receive
      <4>1. PICK r \in responses :
              IF ~Matches(r) THEN NextAttempt
              ELSE IF Accepts(r) THEN Return("ok", r.value) ELSE Return(r.error, 0)
        BY <3>4 DEF Receive
      <4>2. r.error \in {"none", "IdMismatch", "other"}
        BY DEF TypeOK, Response
      <4>3. CASE ~Matches(r)
        BY <3>2, <4>1, <4>3 DEF NextAttempt, OkMeansExecuted
      <4>4. CASE Matches(r) /\ Accepts(r)
        BY <3>2, <4>1, <4>4, OperationTypes DEF Matches, Accepts, ExecutedInv, TypeOK
      <4>5. CASE Matches(r) /\ ~Accepts(r)
        BY <3>2, <4>1, <4>2, <4>5
      <4> QED BY <4>3, <4>4, <4>5
    <3>5. CASE LoseRequest \/ LoseResponse \/ UNCHANGED vars
      BY <2>1, <3>5 DEF OkMeansExecuted, TakesErrors, LoseRequest, LoseResponse, vars, clientVars
    <3> QED BY <1>2, <3>1, <3>3, <3>4, <3>5 DEF Next, Transaction, Network
  <2> QED BY <2>2, <2>3
<1> QED BY <1>1, <1>2

\* A normal return means that the device carried out this command at least once,
\* even if datagrams are delayed and overtake each other: all that the comparison
\* of command numbers in command_transaction_() can give.
THEOREM CommandOkIsExecuted == Spec => []OkMeansExecuted
<1>1. Init => ExecutedInv /\ OkMeansExecuted
  BY DEF Init, ExecutedInv, OkMeansExecuted
<1> QED BY <1>1, TypeInit, TypeStep, ExecutedStep, PTL DEF Spec
-----------------------------------------------------------------------------
(* A prompt network.                                                       *)

\* The attempts are not used up.
Retry ==
    /\ pc' = "send"
    /\ attempt' = attempt + 1
    /\ UNCHANGED <<mcpdId, call, op, result, idKnown, believed, seen>>

\* An attempt ends with its answer, an error, or without an answer; it leaves
\* nothing on the network.
LEMMA AttemptEnds ==
    ASSUME TypeOK, FlightInv, IsPrompt, SendTimeout \/ Receive \/ ReceiveTimeout \/ SocketError
    PROVE  /\ Quiet' /\ UNCHANGED <<setup, device, executed>>
           /\ \/ Retry
              \/ Return("timed_out", 0)
              \/ Return("socket", 0)
              \/ \E r \in responses : \/ (r.error = "none" \/ op = SetGain) /\ Return("ok", r.value)
                                      \/ r.error \in {"IdMismatch", "other"} /\ Return(r.error, 0)
<1>1. CASE SendTimeout \/ ReceiveTimeout
  <2>1. Quiet' /\ UNCHANGED <<setup, device, executed>> /\ NextAttempt
    BY <1>1 DEF FlightInv, IsPrompt, SendTimeout, ReceiveTimeout, Quiet, netVars, deviceVars
  <2> QED BY <2>1 DEF NextAttempt, Retry
<1>2. CASE SocketError
  BY <1>2 DEF FlightInv, IsPrompt, SocketError, Quiet, netVars, deviceVars
<1>3. CASE Receive
  <2>1. PICK r \in responses :
          /\ responses' = responses \ {r}
          /\ IF ~Matches(r) THEN NextAttempt
             ELSE IF Accepts(r) THEN Return("ok", r.value) ELSE Return(r.error, 0)
    BY <1>3 DEF Receive
  <2>2. Matches(r) /\ responses = {r} /\ requests = {}
    BY DEF FlightInv, IsPrompt, Matches
  <2>3. Quiet' /\ UNCHANGED <<setup, device, executed>>
    BY <1>3, <2>1, <2>2 DEF Receive, Quiet, deviceVars
  <2>4. Accepts(r) => r.error = "none" \/ op = SetGain
    BY OperationTypes DEF Accepts, TypeOK
  <2>5. ~Accepts(r) => r.error \in {"IdMismatch", "other"}
    BY DEF Accepts, TypeOK, Response
  <2> QED BY <2>1, <2>2, <2>3, <2>4, <2>5
<1> QED BY <1>1, <1>2, <1>3

\* The device gets the request of the current attempt, or nothing.
LEMMA DeviceGetsCurrent ==
    ASSUME TypeOK, FlightInv, IsPrompt, DeviceHandles
    PROVE  /\ requests = {Current} /\ responses = {} /\ device.here /\ pc = "receive"
           /\ requests' = {} /\ UNCHANGED <<setup, clientVars>>
           /\ \/ mcpdId = device.id /\ device' = After(Current) /\ executed' = executed \cup {Current}
              \/ mcpdId # device.id /\ UNCHANGED <<device, executed>>
           /\ \A r \in responses' : r = Answer(Current) /\ device'.here
           /\ responses' \subseteq {Answer(Current)}
<1>1. PICK r \in requests :
        /\ device.here
        /\ requests' = requests \ {r}
        /\ IF r.id = device.id
           THEN device' = After(r) /\ executed' = executed \cup {r}
           ELSE UNCHANGED deviceVars
        /\ responses' = IF device'.here THEN responses \cup {Answer(r)} ELSE responses
  BY DEF DeviceHandles
<1>2. r = Current /\ requests = {Current} /\ responses = {} /\ pc = "receive"
  BY <1>1 DEF FlightInv, Quiet
<1>3. r.id = mcpdId
  BY <1>2 DEF Current
<1>4. UNCHANGED <<setup, clientVars>>
  BY DEF DeviceHandles
<1>5. requests' = {} /\ responses' = IF device'.here THEN {Answer(Current)} ELSE {}
  BY <1>1, <1>2
<1> HIDE DEF Current
<1> QED BY <1>1, <1>2, <1>3, <1>4, <1>5 DEF deviceVars

LEMMA FlightStep == TypeOK /\ FlightInv /\ [Next]_vars => FlightInv'
<1> SUFFICES ASSUME TypeOK, FlightInv, [Next]_vars, IsPrompt'
             PROVE  FlightInv'
  BY DEF FlightInv
<1>0. IsPrompt /\ setup' = setup
  BY DEF IsPrompt, Next, vars, Call, Probe, Transaction, Send, SendTimeout, Receive,
         ReceiveTimeout, SocketError, Network, DeviceHandles, LoseRequest, LoseResponse
<1>1. CASE Call \/ Probe
  BY <1>0, <1>1 DEF FlightInv, IsPrompt, Call, Probe, Quiet, netVars
<1>2. CASE Send
  BY <1>0, <1>2 DEF FlightInv, IsPrompt, Send, Quiet, Current
<1>3. CASE SendTimeout \/ Receive \/ ReceiveTimeout \/ SocketError
  BY <1>0, <1>3, AttemptEnds DEF FlightInv, Quiet
<1>4. CASE DeviceHandles
  <2>1. /\ requests' = {} /\ pc' = "receive" /\ op' = op
        /\ \A r \in responses' : r = Answer(Current) /\ responses' = {r}
    BY <1>0, <1>4, DeviceGetsCurrent DEF clientVars
  <2>2. Answer(Current).cmd = op.cmd
    BY DEF Answer, Current
  <2> QED BY <2>1, <2>2 DEF FlightInv
<1>5. CASE LoseRequest \/ LoseResponse
  <2>1. /\ requests' \subseteq requests /\ responses' \subseteq responses
        /\ UNCHANGED <<pc, op, mcpdId, call, attempt>>
    BY <1>5 DEF LoseRequest, LoseResponse, clientVars
  <2>2. Current' = Current
    BY <2>1 DEF Current
  <2> QED BY <1>0, <2>1, <2>2 DEF FlightInv, Quiet
<1>6. CASE UNCHANGED vars
  BY <1>6 DEF FlightInv, IsPrompt, Quiet, Current, vars, clientVars, netVars
<1> QED BY <1>1, <1>2, <1>3, <1>4, <1>5, <1>6 DEF Next, Transaction, Network

\* The answer tells the truth, and until it is read nothing changes.
LEMMA AnswerStep == TypeOK /\ FlightInv /\ AnswerInv /\ [Next]_vars => AnswerInv'
<1> SUFFICES ASSUME TypeOK, FlightInv, AnswerInv, [Next]_vars, IsPrompt'
             PROVE  AnswerInv'
  BY DEF AnswerInv
<1>0. IsPrompt /\ setup' = setup
  BY DEF IsPrompt, Next, vars, Call, Probe, Transaction, Send, SendTimeout, Receive,
         ReceiveTimeout, SocketError, Network, DeviceHandles, LoseRequest, LoseResponse
<1>1. CASE Call \/ Probe
  BY <1>0, <1>1 DEF FlightInv, AnswerInv, Call, Probe, Quiet, netVars
<1>2. CASE Send
  BY <1>0, <1>2 DEF FlightInv, AnswerInv, Send, Quiet
<1>3. CASE SendTimeout \/ Receive \/ ReceiveTimeout \/ SocketError
  BY <1>0, <1>3, AttemptEnds DEF AnswerInv, Quiet
<1>4. CASE DeviceHandles
  <2>1. ASSUME NEW r \in responses'
        PROVE  /\ device'.here
               /\ r.error = "none" =>
                     /\ Current \in executed'
                     /\ op.cmd = "SetId" => device'.id = op.key
                     /\ op.cmd = "WriteRegister" => device'.registers[op.key] = op.value
                     /\ op.cmd = "ReadRegister" => r.value = device'.registers[op.key]
    <3>1. r = Answer(Current) /\ device'.here
      BY <1>0, <1>4, DeviceGetsCurrent
    <3>2. CASE mcpdId = device.id
      <4>1. device' = After(Current) /\ Current \in executed'
        BY <1>0, <1>4, <3>2, DeviceGetsCurrent
      <4>2. device \in [id : Ids, registers : [Addresses -> Values], here : BOOLEAN]
        BY DEF TypeOK
      <4>3. op \in Operations
        BY DEF TypeOK
      <4>4. op.cmd = "SetId" => device'.id = op.key
        BY <4>1, <4>2 DEF After, Effect, Current
      <4>5. op.cmd = "WriteRegister" => device'.registers[op.key] = op.value
        BY <4>1, <4>2, <4>3, OperationTypes DEF After, Effect, Current
      <4>6. op.cmd = "ReadRegister" => r.value = device'.registers[op.key]
        BY <3>1, <3>2, <4>1, <4>2 DEF After, Effect, Answer, Current
      <4> QED BY <3>1, <4>1, <4>4, <4>5, <4>6
    <3>3. CASE mcpdId # device.id
      BY <3>1, <3>3 DEF Answer, Current
    <3> QED BY <3>2, <3>3
  <2>2. Current' = Current /\ op' = op
    BY <1>4 DEF DeviceHandles, clientVars, Current
  <2> QED BY <2>1, <2>2 DEF AnswerInv
<1>5. CASE LoseRequest \/ LoseResponse \/ UNCHANGED vars
  <2>1. /\ responses' \subseteq responses /\ UNCHANGED <<op, device, executed>>
        /\ Current' = Current
    BY <1>5 DEF LoseRequest, LoseResponse, clientVars, netVars, deviceVars, vars, Current
  <2> QED BY <1>0, <2>1 DEF AnswerInv
<1> QED BY <1>1, <1>2, <1>3, <1>4, <1>5 DEF Next, Transaction, Network

LEMMA IdStep == TypeOK /\ FlightInv /\ AnswerInv /\ IdInv /\ [Next]_vars => IdInv'
<1> SUFFICES ASSUME TypeOK, FlightInv, AnswerInv, IdInv, [Next]_vars,
                    setup'.prog = "connection", IsPrompt', idKnown'
             PROVE  \/ mcpdId' = device'.id
                    \/ pc' # "idle" /\ op'.cmd = "SetId" /\ device'.id = op'.key
  BY DEF IdInv
<1>0. IsPrompt /\ setup' = setup /\ idKnown
  BY DEF IsPrompt, Next, vars, clientVars, Call, Probe, Transaction, Send, SendTimeout, Receive,
         ReceiveTimeout, SocketError, NextAttempt, Return, Network, DeviceHandles, LoseRequest,
         LoseResponse
<1>1. CASE Call \/ Probe \/ Send
  BY <1>0, <1>1 DEF IdInv, Call, Probe, Send, deviceVars
<1>2. CASE SendTimeout \/ Receive \/ ReceiveTimeout \/ SocketError
  <2>1. device' = device
    BY <1>0, <1>2, AttemptEnds
  <2>2. CASE Retry
    BY <1>0, <2>1, <2>2 DEF IdInv, Retry
  <2>3. CASE Return("timed_out", 0) \/ Return("socket", 0)
    BY <1>0, <2>1, <2>3 DEF IdInv, Return
  <2>4. ASSUME NEW r \in responses, r.error = "none" \/ op = SetGain, Return("ok", r.value)
        PROVE  mcpdId' = device'.id
    BY <1>0, <2>1, <2>4 DEF IdInv, AnswerInv, Return, SetGain
  <2>5. ASSUME NEW r \in responses, r.error \in {"IdMismatch", "other"}, Return(r.error, 0)
        PROVE  mcpdId' = device'.id
    BY <1>0, <2>1, <2>5 DEF IdInv, Return
  <2> QED BY <1>0, <1>2, <2>2, <2>3, <2>4, <2>5, AttemptEnds
<1>3. CASE DeviceHandles
  <2>1. UNCHANGED <<pc, op, mcpdId>> /\ pc = "receive"
    BY <1>0, <1>3, DeviceGetsCurrent DEF clientVars
  <2>2. device' = device \/ (device' = After(Current) /\ mcpdId = device.id)
    BY <1>0, <1>3, DeviceGetsCurrent
  <2>3. device \in [id : Ids, registers : [Addresses -> Values], here : BOOLEAN]
    BY DEF TypeOK
  <2>4. After(Current).id = IF op.cmd = "SetId" THEN op.key ELSE device.id
    BY <2>3 DEF After, Effect, Current
  <2> QED BY <1>0, <2>1, <2>2, <2>4 DEF IdInv
<1>4. CASE LoseRequest \/ LoseResponse \/ UNCHANGED vars
  BY <1>0, <1>4 DEF IdInv, LoseRequest, LoseResponse, clientVars, deviceVars, vars
<1> QED BY <1>1, <1>2, <1>3, <1>4 DEF Next, Transaction, Network

\* A call that has ended well was the only one to touch what it says.
LEMMA BeliefStep == TypeOK /\ FlightInv /\ AnswerInv /\ BeliefInv /\ [Next]_vars => BeliefInv'
<1> SUFFICES ASSUME TypeOK, FlightInv, AnswerInv, BeliefInv, [Next]_vars, IsPrompt'
             PROVE  BeliefInv'
  BY DEF BeliefInv
<1>0. IsPrompt /\ setup' = setup
  BY DEF IsPrompt, Next, vars, Call, Probe, Transaction, Send, SendTimeout, Receive,
         ReceiveTimeout, SocketError, Network, DeviceHandles, LoseRequest, LoseResponse
<1>1. CASE Call \/ Probe \/ Send
  BY <1>0, <1>1 DEF BeliefInv, Call, Probe, Send, deviceVars
<1>2. CASE SendTimeout \/ Receive \/ ReceiveTimeout \/ SocketError
  <2>1. device' = device
    BY <1>0, <1>2, AttemptEnds
  <2>2. CASE Retry
    BY <1>0, <2>1, <2>2 DEF BeliefInv, Retry, Moves
  <2>3. believed \in [Addresses -> Values \cup {Unknown}] /\ op \in Operations
    BY DEF TypeOK
  <2>4. ASSUME NEW status, NEW value, Return(status, value), status # "ok"
        PROVE  \A a \in Addresses : believed'[a] \in {Unknown, device'.registers[a]}
    BY <1>0, <2>1, <2>3, <2>4 DEF BeliefInv, Return, Belief
  <2>5. ASSUME NEW status, NEW value, Return(status, value), IsAnswer(status) => device.here
        PROVE  seen' => device'.here
    BY <1>0, <2>1, <2>5, Zenon DEF BeliefInv, Return, Seen
  <2>6. CASE Return("timed_out", 0) \/ Return("socket", 0)
    <3>1. ~IsAnswer("timed_out") /\ ~IsAnswer("socket")
      BY DEF IsAnswer
    <3> QED BY <2>4, <2>5, <2>6, <3>1 DEF BeliefInv
  <2>7. ASSUME NEW r \in responses, r.error \in {"IdMismatch", "other"}, Return(r.error, 0)
        PROVE  BeliefInv'
    BY <1>0, <2>4, <2>5, <2>7 DEF BeliefInv, AnswerInv
  <2>8. ASSUME NEW r \in responses, r.error = "none" \/ op = SetGain, Return("ok", r.value)
        PROVE  BeliefInv'
    <3>1. seen' => device'.here
      BY <1>0, <2>5, <2>8 DEF AnswerInv
    <3>2. ASSUME NEW a \in Addresses
          PROVE  believed'[a] \in {Unknown, device'.registers[a]}
      <4>1. believed' = Belief("ok", r.value)
        BY <2>8 DEF Return
      <4>2. CASE op.cmd = "WriteRegister"
        BY <1>0, <2>1, <2>3, <2>8, <4>1, <4>2, OperationTypes DEF BeliefInv, AnswerInv, Belief, SetGain
      <4>3. CASE op.cmd = "ReadRegister"
        BY <1>0, <2>1, <2>3, <2>8, <4>1, <4>3, OperationTypes DEF BeliefInv, AnswerInv, Belief, SetGain
      <4>4. CASE op.cmd \notin {"WriteRegister", "ReadRegister"}
        BY <1>0, <2>1, <4>1, <4>4 DEF BeliefInv, Belief
      <4> QED BY <4>2, <4>3, <4>4
    <3> QED BY <3>1, <3>2 DEF BeliefInv
  <2> QED BY <1>0, <1>2, <2>2, <2>6, <2>7, <2>8, AttemptEnds
<1>3. CASE DeviceHandles
  <2>1. UNCHANGED <<pc, op, believed, seen>> /\ pc = "receive"
    BY <1>0, <1>3, DeviceGetsCurrent DEF clientVars
  <2>2. device' = device \/ device' = After(Current)
    BY <1>0, <1>3, DeviceGetsCurrent
  <2>3. device \in [id : Ids, registers : [Addresses -> Values], here : BOOLEAN]
    BY DEF TypeOK
  <2>4. /\ After(Current).here = (device.here /\ ~Moves(op))
        /\ \A a \in Addresses : \/ op.cmd = "WriteRegister" /\ op.key = a
                                \/ After(Current).registers[a] = device.registers[a]
    BY <2>3 DEF After, Effect, Current
  <2> QED BY <1>0, <2>1, <2>2, <2>4 DEF BeliefInv, Moves
<1>4. CASE LoseRequest \/ LoseResponse \/ UNCHANGED vars
  BY <1>0, <1>4 DEF BeliefInv, LoseRequest, LoseResponse, clientVars, deviceVars, vars, Moves
<1> QED BY <1>1, <1>2, <1>3, <1>4 DEF Next, Transaction, Network

LEMMA ProbeStep == TypeOK /\ FlightInv /\ ProbeInv /\ [Next]_vars => ProbeInv'
<1> SUFFICES ASSUME TypeOK, FlightInv, ProbeInv, [Next]_vars, setup'.prog = "find", IsPrompt'
             PROVE  ProbeInv'
  BY DEF ProbeInv
<1>0. IsPrompt /\ setup' = setup /\ setup.prog = "find"
  BY DEF IsPrompt, Next, vars, Call, Probe, Transaction, Send, SendTimeout, Receive,
         ReceiveTimeout, SocketError, Network, DeviceHandles, LoseRequest, LoseResponse
<1>1. CASE Probe
  <2>1. mcpdId' = call /\ call' = call + 1 /\ pc' = "send" /\ responses = {}
        /\ UNCHANGED <<op, device, responses, result>> /\ call \in Nat
        /\ pc = "idle" /\ result.status \in {"none", "IdMismatch"}
    BY <1>0, <1>1 DEF Probe, FlightInv, Quiet, netVars, deviceVars, TypeOK
  <2>2. mcpdId \in Nat /\ device.id \in Nat
    BY CommandAssumption DEF TypeOK, Ids
  <2>3. call <= device.id
    BY <1>0, <2>1, <2>2 DEF ProbeInv
  <2> QED BY <1>0, <2>1, <2>3 DEF ProbeInv
<1>2. CASE Call
  BY <1>0, <1>2 DEF Call
<1>3. CASE Send
  BY <1>0, <1>3 DEF ProbeInv, Send, deviceVars
<1>4. CASE SendTimeout \/ Receive \/ ReceiveTimeout \/ SocketError
  <2>1. device' = device /\ responses' = {} /\ op = GetVersion
    BY <1>0, <1>4, AttemptEnds DEF Quiet, ProbeInv
  <2>2. pc # "idle"
    BY <1>4 DEF SendTimeout, Receive, ReceiveTimeout, SocketError
  <2>3. mcpdId \in Nat /\ device.id \in Nat /\ call \in Nat
    BY CommandAssumption DEF TypeOK, Ids
  <2>4. CASE Retry
    BY <1>0, <2>1, <2>2, <2>4 DEF ProbeInv, Retry
  <2>5. ASSUME NEW status, NEW value, Return(status, value), status # "none",
               status = "ok" => mcpdId = device.id,
               status = "IdMismatch" => mcpdId # device.id
        PROVE  ProbeInv'
    <3>1. /\ pc' = "idle" /\ result'.status = status
          /\ UNCHANGED <<op, mcpdId, call>>
      BY <2>1, <2>5 DEF Return, Outcome, GetVersion
    <3> QED BY <1>0, <2>1, <2>2, <2>3, <2>5, <3>1 DEF ProbeInv
  <2>6. op # SetGain
    BY <2>1 DEF GetVersion, SetGain
  <2>7. \A r \in responses : /\ r.error = "none" => mcpdId = device.id
                             /\ r.error = "IdMismatch" => mcpdId # device.id
    BY <1>0 DEF ProbeInv
  <2>8. Return("timed_out", 0) \/ Return("socket", 0) => ProbeInv'
    BY <2>5
  <2>9. ASSUME NEW r \in responses, r.error = "none", Return("ok", r.value)
        PROVE  ProbeInv'
    BY <2>5, <2>7, <2>9
  <2>10. ASSUME NEW r \in responses, r.error \in {"IdMismatch", "other"}, Return(r.error, 0)
         PROVE  ProbeInv'
    BY <2>5, <2>7, <2>10
  <2> QED BY <1>0, <1>4, <2>4, <2>6, <2>8, <2>9, <2>10, AttemptEnds
<1>5. CASE DeviceHandles
  <2>1. UNCHANGED <<pc, op, mcpdId, call, result>> /\ op = GetVersion
    BY <1>0, <1>5, DeviceGetsCurrent DEF clientVars, ProbeInv
  <2>2. device' = device \/ device' = After(Current)
    BY <1>0, <1>5, DeviceGetsCurrent
  <2>3. device \in [id : Ids, registers : [Addresses -> Values], here : BOOLEAN]
    BY DEF TypeOK
  <2>4. device'.id = device.id
    BY <2>1, <2>2, <2>3 DEF After, Effect, Current, GetVersion
  <2>5. \A r \in responses' : /\ r.error = "none" => mcpdId = device.id
                              /\ r.error = "IdMismatch" => mcpdId # device.id
    <3>1. \A r \in responses' : r = Answer(Current)
      BY <1>0, <1>5, DeviceGetsCurrent
    <3>2. Answer(Current).error = IF mcpdId # device.id THEN "IdMismatch" ELSE "none"
      BY <2>1 DEF Answer, Current, GetVersion
    <3> QED BY <3>1, <3>2
  <2> QED BY <1>0, <2>1, <2>4, <2>5 DEF ProbeInv
<1>6. CASE LoseRequest \/ LoseResponse \/ UNCHANGED vars
  <2>1. responses' \subseteq responses /\ UNCHANGED <<pc, op, mcpdId, call, result, device>>
    BY <1>6 DEF LoseRequest, LoseResponse, clientVars, netVars, deviceVars, vars
  <2> QED BY <1>0, <2>1 DEF ProbeInv
<1> QED BY <1>1, <1>2, <1>3, <1>4, <1>5, <1>6 DEF Next, Transaction, Network
-----------------------------------------------------------------------------
(* What follows.                                                           *)

CommandInv == FlightInv /\ AnswerInv /\ IdInv /\ BeliefInv /\ ProbeInv

LEMMA CommandInvHolds == Spec => [](TypeOK /\ CommandInv)
<1>1. Init => CommandInv
  BY DEF Init, CommandInv, FlightInv, AnswerInv, IdInv, BeliefInv, ProbeInv, Quiet, IsPrompt
<1>2. TypeOK /\ CommandInv /\ [Next]_vars => CommandInv'
  BY FlightStep, AnswerStep, IdStep, BeliefStep, ProbeStep DEF CommandInv
<1> QED BY <1>1, <1>2, TypeInit, TypeStep, PTL DEF Spec

\* If answers arrive in time, a call that returns normally was carried out
\* itself, by its last attempt, and nothing of it is left on the network to be
\* taken for the answer to a later call.
AnswerIsOwn ==
    setup.net = "prompt" /\ pc = "idle" =>
        /\ Quiet
        /\ result.status = "ok" /\ ~TakesErrors(op) =>
              [op |-> op, call |-> call, attempt |-> attempt] \in
                 {[op |-> e.op, call |-> e.call, attempt |-> e.attempt] : e \in executed}

LEMMA AnswerIsOwnStep == TypeOK /\ CommandInv /\ AnswerIsOwn /\ [Next]_vars => AnswerIsOwn'
<1> SUFFICES ASSUME TypeOK, CommandInv, AnswerIsOwn, [Next]_vars, IsPrompt', pc' = "idle",
                    FlightInv'
             PROVE  result'.status = "ok" /\ ~TakesErrors(op') =>
                        [op |-> op', call |-> call', attempt |-> attempt'] \in
                           {[op |-> e.op, call |-> e.call, attempt |-> e.attempt] : e \in executed'}
  BY FlightStep DEF CommandInv, AnswerIsOwn, FlightInv, IsPrompt, TakesErrors
<1>0. IsPrompt /\ setup' = setup
  BY DEF IsPrompt, Next, vars, Call, Probe, Transaction, Send, SendTimeout, Receive,
         ReceiveTimeout, SocketError, Network, DeviceHandles, LoseRequest, LoseResponse
<1>1. CASE SendTimeout \/ Receive \/ ReceiveTimeout \/ SocketError
  <2>1. executed' = executed /\ UNCHANGED <<op, call, attempt>>
    BY <1>0, <1>1, AttemptEnds DEF CommandInv, Retry, Return
  <2>2. ASSUME result'.status = "ok", ~TakesErrors(op)
        PROVE  Current \in executed
    <3>1. ~Return("timed_out", 0) /\ ~Return("socket", 0) /\ op # SetGain
      BY <2>2 DEF Return, Outcome, TakesErrors
    <3>2. \A r \in responses : ~(r.error \in {"IdMismatch", "other"} /\ Return(r.error, 0))
      BY <2>2 DEF Return, Outcome
    <3>3. \E r \in responses : r.error = "none"
      BY <1>0, <1>1, <3>1, <3>2, AttemptEnds DEF CommandInv, Retry
    <3> QED BY <1>0, <3>3 DEF CommandInv, AnswerInv
  <2> QED BY <2>1, <2>2 DEF Current
<1>2. CASE LoseRequest \/ LoseResponse \/ UNCHANGED vars
  BY <1>0, <1>2 DEF AnswerIsOwn, IsPrompt, LoseRequest, LoseResponse, clientVars, deviceVars, vars
<1>3. ~DeviceHandles
  BY <1>0, DeviceGetsCurrent DEF CommandInv, clientVars
<1>4. ~Call /\ ~Probe /\ ~Send
  BY DEF Call, Probe, Send
<1> QED BY <1>1, <1>2, <1>3, <1>4 DEF Next, Transaction, Network

\* If answers arrive in time, a call that returns normally was carried out by its
\* last attempt, and leaves nothing on the network for a later one.
THEOREM CommandAnswerIsOwn == Spec => []AnswerIsOwn
<1>1. Init => AnswerIsOwn
  BY DEF Init, AnswerIsOwn, Quiet
<1> QED BY <1>1, CommandInvHolds, AnswerIsOwnStep, PTL DEF Spec

\* If answers arrive in time, McpdConnection has the id of its device until a
\* set_id() fails.
THEOREM CommandIdsAgree == Spec => []IdsAgree
<1>1. CommandInv => IdsAgree
  BY DEF CommandInv, IdInv, IdsAgree, IsPrompt
<1> QED BY <1>1, CommandInvHolds, PTL

\* If answers arrive in time, registers hold what the calls made the caller
\* believe, and a device that has answered was not moved.
THEOREM CommandBeliefsHold == Spec => []BeliefsHold
<1>1. CommandInv => BeliefsHold
  BY DEF CommandInv, BeliefInv, BeliefsHold, IsPrompt
<1> QED BY <1>1, CommandInvHolds, PTL

\* If answers arrive in time, find_mcpd_id() does not pass over the device.
THEOREM ProbeFindsTheDevice == Spec => []ProbeFindsDevice
<1>1. CommandInv => ProbeFindsDevice
  BY DEF CommandInv, ProbeInv, ProbeFindsDevice, IsPrompt
<1> QED BY <1>1, CommandInvHolds, PTL
-----------------------------------------------------------------------------
(* The abstract remote call.                                               *)

\* No request is of a call that has not begun.
CallsBegun ==
    /\ \A e \in executed : e.call <= call
    /\ \A r \in requests : r.call <= call

CarriedOut == \E e \in executed : e.call = call

LEMMA CallsStep == TypeOK /\ CallsBegun /\ [Next]_vars => CallsBegun'
<1> SUFFICES ASSUME TypeOK, CallsBegun, [Next]_vars
             PROVE  CallsBegun'
  OBVIOUS
<1>0. /\ call \in Nat
      /\ \A e \in executed : e.call \in Nat
      /\ \A r \in requests : r.call \in Nat
  BY DEF TypeOK, Request
<1>1. CASE Call \/ Probe
  <2>1. call' = call + 1 /\ UNCHANGED <<requests, executed>>
    BY <1>1 DEF Call, Probe, netVars, deviceVars
  <2>2. ASSUME NEW n \in Nat, n <= call
        PROVE  n <= call'
    BY <1>0, <2>1, <2>2
  <2> QED BY <1>0, <2>1, <2>2 DEF CallsBegun
<1>2. CASE Send
  BY <1>0, <1>2 DEF CallsBegun, Send, deviceVars
<1>3. CASE SendTimeout \/ Receive \/ ReceiveTimeout \/ SocketError
  BY <1>3 DEF CallsBegun, SendTimeout, Receive, ReceiveTimeout, SocketError, NextAttempt, Return,
              netVars, deviceVars
<1>4. CASE DeviceHandles
  BY <1>4 DEF CallsBegun, DeviceHandles, clientVars, deviceVars
<1>5. CASE LoseRequest \/ LoseResponse \/ UNCHANGED vars
  BY <1>5 DEF CallsBegun, LoseRequest, LoseResponse, clientVars, netVars, deviceVars, vars
<1> QED BY <1>1, <1>2, <1>3, <1>4, <1>5 DEF Next, Transaction, Network

\* A step that ends a call.
LEMMA ReturnIsRemote ==
    ASSUME TypeOK, pc # "idle", UNCHANGED <<device, executed>>,
           NEW status, NEW value \in Values, Return(status, value),
           status = "ok" => op = SetGain \/ (CarriedOut /\ Tells(op, device, value))
    PROVE  Remote!Next
<1>1. /\ pc' = "idle" /\ UNCHANGED <<op, call>>
      /\ result' = [status |-> Outcome(status), value |-> value]
  BY DEF Return
<1>2. CarriedOut' <=> CarriedOut
  BY <1>1 DEF CarriedOut
<1>3. CASE Outcome(status) = "ok"
  <2>1. op \in Operations
    BY DEF TypeOK
  <2>2. TakesErrors(op) \/ (CarriedOut /\ Tells(op, device, value))
    BY <1>3 DEF Outcome, TakesErrors
  <2>3. op \in {o \in Operations : TakesErrors(o)} \/ (CarriedOut /\ Tells(op, device, value))
    BY <2>1, <2>2
  <2>4. Remote!Succeed(value)
    BY <1>1, <1>2, <1>3, <2>3 DEF Remote!Succeed, CarriedOut
  <2> QED BY <2>4 DEF Remote!Next
<1>4. CASE Outcome(status) # "ok"
  <2>1. Remote!Fail
    BY <1>1, <1>2, <1>4 DEF Remote!Fail, CarriedOut
  <2> QED BY <2>1 DEF Remote!Next
<1> QED BY <1>3, <1>4

LEMMA AttemptIsRemote ==
    ASSUME TypeOK, CommandInv, IsPrompt, SendTimeout \/ Receive \/ ReceiveTimeout \/ SocketError
    PROVE  Remote!Next \/ UNCHANGED Remote!vars
<1>1. pc # "idle" /\ UNCHANGED <<device, executed>>
  BY AttemptEnds DEF CommandInv, SendTimeout, Receive, ReceiveTimeout, SocketError
<1>2. 0 \in Values
  BY CommandAssumption
<1>3. CASE Retry
  BY <1>1, <1>3 DEF Retry, Remote!vars
<1>4. CASE Return("timed_out", 0) \/ Return("socket", 0)
  BY <1>1, <1>2, <1>4, ReturnIsRemote
<1>5. ASSUME NEW r \in responses, r.error = "none" \/ op = SetGain, Return("ok", r.value)
      PROVE  Remote!Next
  <2>1. r.value \in Values
    BY DEF TypeOK, Response
  <2>2. r.error = "none" => CarriedOut /\ Tells(op, device, r.value)
    BY DEF CommandInv, AnswerInv, CarriedOut, Current, Tells
  <2> QED BY <1>1, <1>5, <2>1, <2>2, ReturnIsRemote
<1>6. ASSUME NEW r \in responses, r.error \in {"IdMismatch", "other"}, Return(r.error, 0)
      PROVE  Remote!Next
  BY <1>1, <1>2, <1>6, ReturnIsRemote
<1> QED BY <1>3, <1>4, <1>5, <1>6, AttemptEnds DEF CommandInv

LEMMA StepIsRemoteStep ==
    TypeOK /\ CommandInv /\ CallsBegun /\ [Next]_vars => [IsPrompt => Remote!Next]_(Remote!vars)
<1> SUFFICES ASSUME TypeOK, CommandInv, CallsBegun, [Next]_vars, IsPrompt
             PROVE  Remote!Next \/ UNCHANGED Remote!vars
  OBVIOUS
<1>1. CASE Call \/ Probe
  <2>1. /\ pc = "idle" /\ pc' = "send" /\ call' = call + 1
        /\ UNCHANGED <<device, executed, result>>
    BY <1>1 DEF Call, Probe, deviceVars
  <2>2. op' \in Operations
    BY <1>1 DEF Call, Probe, TypeOK
  <2>3. \A e \in executed : e.call # call'
    BY <2>1 DEF CallsBegun, TypeOK, Request
  <2>4. Remote!Begin
    BY <2>1, <2>2, <2>3 DEF Remote!Begin
  <2> QED BY <2>4 DEF Remote!Next
<1>2. CASE SendTimeout \/ Receive \/ ReceiveTimeout \/ SocketError
  BY <1>2, AttemptIsRemote
<1>3. CASE DeviceHandles
  <2>1. pc = "receive" /\ UNCHANGED <<pc, op, call, result>>
    BY <1>3, DeviceGetsCurrent DEF CommandInv, clientVars
  <2>2. CASE device' = After(Current) /\ executed' = executed \cup {Current}
    <3>1. device' = Effect(op, device) /\ \E e \in executed' : e.call = call
      <4>1. Current.op = op /\ Current.call = call
        BY DEF Current
      <4>2. device' = Effect(op, device)
        BY <2>2, <4>1 DEF After
      <4>3. Current \in executed'
        BY <2>2
      <4> QED BY <4>1, <4>2, <4>3
    <3>2. Remote!TakeEffect
      BY <2>1, <3>1 DEF Remote!TakeEffect
    <3> QED BY <3>2 DEF Remote!Next
  <2>3. CASE UNCHANGED <<device, executed>>
    BY <2>1, <2>3 DEF Remote!vars
  <2> QED BY <1>3, <2>2, <2>3, DeviceGetsCurrent DEF CommandInv
<1>4. CASE Send \/ LoseRequest \/ LoseResponse \/ UNCHANGED vars
  <2>1. /\ UNCHANGED <<op, call, result, device, executed>>
        /\ pc # "idle" <=> pc' # "idle"
    BY <1>4 DEF Send, LoseRequest, LoseResponse, vars, clientVars, deviceVars
  <2> QED BY <2>1 DEF Remote!vars
<1> QED BY <1>1, <1>2, <1>3, <1>4 DEF Next, Transaction, Network

\* If answers arrive in time, a command takes effect only while its call is in
\* progress, and a call that succeeds has taken effect and tells what is so: the loop of
\* command_transaction_() and the device are one abstract remote call, for any ids,
\* registers, attempts and calls, and however many datagrams are lost.
THEOREM CommandImplementsRemoteCall == Spec => ImplementsRemoteCall
<1>1. Init => Remote!Init
  <2> SUFFICES ASSUME Init PROVE Remote!Init
    OBVIOUS
  <2>1. TypeOK
    BY TypeInit
  <2> QED BY <2>1 DEF Init, TypeOK, Remote!Init
<1>2. Init => CallsBegun
  BY DEF Init, CallsBegun
<1>3. TypeOK /\ CommandInv /\ CallsBegun /\ [Next]_vars
        => [setup.net = "prompt" => Remote!Next]_(Remote!vars)
  BY StepIsRemoteStep DEF IsPrompt
<1> QED BY <1>1, <1>2, <1>3, CallsStep, CommandInvHolds, PTL DEF Spec, ImplementsRemoteCall
-----------------------------------------------------------------------------
(* The part of CallsReturn that needs no fairness: what a call may still   *)
(* do grows less with every step, so that no call lasts for ever.          *)

\* Sends and receives that the loop of the call has left.
StepsLeft == IF pc = "receive" THEN 2 * (MaxAttempts - attempt) - 1
             ELSE 2 * (MaxAttempts - attempt)

\* One datagram less for the device, or as many and one less for the socket.
Drains ==
    \/ requests' \subseteq requests /\ requests' # requests
    \/ requests' = requests /\ responses' \subseteq responses /\ responses' # responses

\* Whatever the network does, only finitely much is on the way.
FlightIsFinite == IsFiniteSet(requests) /\ IsFiniteSet(responses)

\* Until a call returns, each step of the program or of the network uses up one of
\* its sends and receives, or leaves it where it is and takes a datagram off the
\* way: command_transaction_() cannot be kept in its loop by what arrives.
CallProgress ==
    [][pc # "idle" /\ pc' # "idle" =>
          /\ UNCHANGED <<call, op>>
          /\ \/ StepsLeft' \in 1 .. StepsLeft - 1
             \/ UNCHANGED <<pc, attempt>> /\ Drains]_vars

LEMMA FlightInit == Init => FlightIsFinite
  BY FS_EmptySet DEF Init, FlightIsFinite

LEMMA FiniteStep == FlightIsFinite /\ [Next]_vars => FlightIsFinite'
<1> SUFFICES ASSUME FlightIsFinite, [Next]_vars PROVE FlightIsFinite'
  OBVIOUS
<1> USE DEF FlightIsFinite
<1>1. CASE Call \/ Probe
  BY <1>1 DEF Call, Probe, netVars
<1>2. CASE Send
  <2>1. IsFiniteSet(requests \cup {[op |-> op, id |-> mcpdId, call |-> call, attempt |-> attempt]})
    BY FS_AddElement
  <2> QED BY <1>2, <2>1 DEF Send
<1>3. CASE SendTimeout \/ ReceiveTimeout \/ SocketError
  BY <1>3 DEF SendTimeout, ReceiveTimeout, SocketError, netVars
<1>4. CASE Receive
  <2>1. PICK r \in responses : responses' = responses \ {r}
    BY <1>4 DEF Receive
  <2> QED BY <1>4, <2>1, FS_RemoveElement DEF Receive
<1>5. CASE DeviceHandles
  <2>1. PICK r \in requests :
          /\ requests' = requests \ {r}
          /\ responses' = IF device'.here THEN responses \cup {Answer(r)} ELSE responses
    BY <1>5 DEF DeviceHandles
  <2>2. IsFiniteSet(requests') /\ IsFiniteSet(responses \cup {Answer(r)})
    BY <2>1, FS_RemoveElement, FS_AddElement
  <2> QED BY <2>1, <2>2
<1>6. CASE LoseRequest
  <2>1. PICK r \in requests : requests' = requests \ {r}
    BY <1>6 DEF LoseRequest
  <2> QED BY <1>6, <2>1, FS_RemoveElement DEF LoseRequest
<1>7. CASE LoseResponse
  <2>1. PICK r \in responses : responses' = responses \ {r}
    BY <1>7 DEF LoseResponse
  <2> QED BY <1>7, <2>1, FS_RemoveElement DEF LoseResponse
<1>8. CASE UNCHANGED vars
  BY <1>8 DEF vars, netVars
<1> QED BY <1>1, <1>2, <1>3, <1>4, <1>5, <1>6, <1>7, <1>8 DEF Next, Transaction, Network

LEMMA NextAttemptCounts ==
    ASSUME TypeOK, NextAttempt, pc # "idle", pc' # "idle"
    PROVE  UNCHANGED <<call, op>> /\ StepsLeft' \in 1 .. StepsLeft - 1
<1>1. MaxAttempts \in Nat \ {0} /\ attempt \in 0 .. MaxAttempts - 1
  BY CommandAssumption DEF TypeOK
<1>2. attempt' = attempt + 1 /\ attempt + 1 < MaxAttempts /\ pc' = "send" /\ UNCHANGED <<call, op>>
  BY DEF NextAttempt, Return
<1> QED BY <1>1, <1>2 DEF StepsLeft

LEMMA ProgressStep ==
    ASSUME TypeOK, [Next]_vars, pc # "idle", pc' # "idle", ~UNCHANGED vars
    PROVE  /\ UNCHANGED <<call, op>>
           /\ \/ StepsLeft' \in 1 .. StepsLeft - 1
              \/ UNCHANGED <<pc, attempt>> /\ Drains
<1>1. CASE Send
  <2>1. MaxAttempts \in Nat \ {0} /\ attempt \in 0 .. MaxAttempts - 1
    BY CommandAssumption DEF TypeOK
  <2>2. pc = "send" /\ pc' = "receive" /\ UNCHANGED <<attempt, call, op>>
    BY <1>1 DEF Send
  <2> QED BY <2>1, <2>2 DEF StepsLeft
<1>2. CASE SendTimeout \/ ReceiveTimeout
  BY <1>2, NextAttemptCounts DEF SendTimeout, ReceiveTimeout
<1>3. CASE Receive
  <2>1. NextAttempt
    BY <1>3 DEF Receive, Return
  <2> QED BY <2>1, NextAttemptCounts
<1>4. CASE DeviceHandles \/ LoseRequest
  <2>1. PICK r \in requests : requests' = requests \ {r}
    BY <1>4 DEF DeviceHandles, LoseRequest
  <2> QED BY <1>4, <2>1 DEF DeviceHandles, LoseRequest, clientVars, Drains
<1>5. CASE LoseResponse
  <2>1. PICK r \in responses : responses' = responses \ {r}
    BY <1>5 DEF LoseResponse
  <2> QED BY <1>5, <2>1 DEF LoseResponse, clientVars, Drains
<1> QED BY <1>1, <1>2, <1>3, <1>4, <1>5
         DEF Next, Transaction, Network, Call, Probe, SocketError, Return

\* On any network, a call ends within so many steps as its attempts and what is on
\* the way allow: retries, strays and answers to earlier calls cannot prolong it.
THEOREM CallsMakeProgress == Spec => []FlightIsFinite /\ CallProgress
<1>1. Spec => []FlightIsFinite
  BY FlightInit, FiniteStep, PTL DEF Spec
<1>2. TypeOK /\ [Next]_vars
        => [pc # "idle" /\ pc' # "idle" =>
              /\ UNCHANGED <<call, op>>
              /\ \/ StepsLeft' \in 1 .. StepsLeft - 1
                 \/ UNCHANGED <<pc, attempt>> /\ Drains]_vars
  BY ProgressStep
<1> QED BY <1>1, <1>2, CommandTypeCorrect, PTL DEF Spec, CallProgress
=============================================================================
