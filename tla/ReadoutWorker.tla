--------------------------- MODULE ReadoutWorker ---------------------------
(***************************************************************************)
(* src/mesytec-mcpd/readout_worker.{h,cc}: the thread that reads packets   *)
(* from a source, appends them to a listfile and hands the valid ones to   *)
(* the consumers, and the controlling thread that starts and stops it.     *)
(* One behaviour is the life of one ReadoutWorker object.                  *)
(*                                                                         *)
(* The worker thread is the program counter pc, with one step per access   *)
(* to state that the controller can see; ctl is where the controller is    *)
(* inside start() or stop().  The listfile is the sequence of records that *)
(* the stream accepted and the number of them that reached the disk.       *)
(***************************************************************************)
EXTENDS PacketIO, Sequences, FiniteSets

CONSTANTS Packets,        \* the datagrams that devices may send
          NumConsumers,   \* length of consumers_
          MaxPackets,     \* bound: packets per run
          MaxTimeouts     \* bound: counters.timeouts saturates here

PacketType ==
    [tag : Nat, bytes : Nat, bufferLength : Nat, headerLength : Nat]

ASSUME WorkerAssumption ==
    /\ Packets \subseteq PacketType
    /\ NumConsumers \in Nat
    /\ MaxPackets \in Nat
    /\ MaxTimeouts \in Nat

VARIABLES
    setup,      \* constructor arguments: kind of source, its size, listfile_
    ctl,        \* controlling thread
    pc,         \* worker thread
    quit,       \* quit_
    running,    \* running_
    hasSource,  \* source_ is held
    fileOpen,   \* the listfile is open
    log,        \* history: every packet source_->read() returned
    file,       \* records that ListfileWriter::write() accepted
    disk,       \* how many of them are on disk
    counters,   \* counters_
    next,       \* consumer that the current loop over consumers_ is at
    consumed,   \* history: positions of log that each consumer handled
    finished,   \* history: how often each consumer's finished() was called
    exception,  \* exception_: "none", "stored", "taken" by a rethrow
    cause       \* history: why the loop was left

ctlVars == <<setup, ctl, hasSource, fileOpen>>
fileVars == <<file, disk>>
consVars == <<next, consumed, finished>>
vars == <<ctlVars, pc, quit, running, log, fileVars, counters, consVars,
          exception, cause>>

Consumers == 1 .. NumConsumers

\* Daq replays without a listfile; the size of a listfile is fixed.
Setups ==
    [kind : {"udp"}, recording : BOOLEAN, size : {MaxPackets}]
        \cup [kind : {"listfile"}, recording : {FALSE}, size : 0 .. MaxPackets]

NoCounters == [packets |-> 0, timeouts |-> 0, invalid |-> 0, listfile |-> 0]

\* The packet that the loop is working on.
Current == log[Len(log)]

ValidPositions == {k \in DOMAIN log : IsValidDataPacket(log[k])}

Init ==
    /\ setup \in Setups
    /\ ctl = "idle"
    /\ pc = "none"
    /\ quit = FALSE
    /\ running = FALSE
    /\ hasSource = TRUE
    /\ fileOpen = setup.recording
    /\ log = << >>
    /\ file = << >>
    /\ disk = 0
    /\ counters = NoCounters
    /\ next = 1
    /\ consumed = [c \in Consumers |-> {}]
    /\ finished = [c \in Consumers |-> 0]
    /\ exception = "none"
    /\ cause = "none"
-----------------------------------------------------------------------------
(* Mutations: definitions of this module with a plausible bug, used only to *)
(* show that the properties notice it.                                      *)

threadVars == <<setup, log, fileVars, counters, consVars, cause>>

\* The loop ends with the data only.
CheckQuitIgnores ==
    /\ pc = "check"
    /\ pc' = "read"
    /\ UNCHANGED <<ctlVars, quit, running, log, fileVars, counters, consVars,
                   exception, cause>>

\* A read timeout is taken for the end of the data and the loop goes on.
ReadTimeoutFinishes ==
    /\ pc = "read"
    /\ setup.kind = "udp"
    /\ finished' = [c \in Consumers |-> 1]
    /\ pc' = "check"
    /\ UNCHANGED <<ctlVars, quit, running, log, fileVars, counters, next,
                   consumed, exception, cause>>

\* The end of the listfile is handled like a timeout.
ReadEndContinues ==
    /\ pc = "read"
    /\ setup.kind = "listfile"
    /\ Len(log) = setup.size
    /\ pc' = "check"
    /\ UNCHANGED <<ctlVars, quit, running, log, fileVars, counters, consVars,
                   exception, cause>>

\* Only valid packets are recorded.
WriteValidOnly ==
    /\ pc = "write"
    /\ file' = IF setup.recording /\ IsValidDataPacket(Current)
               THEN Append(file, Current) ELSE file
    /\ pc' = "count"
    /\ UNCHANGED <<ctlVars, quit, running, log, disk, counters, consVars,
                   exception, cause>>

\* A failing write leaves a record that was not accepted.
WriteThrowsLate ==
    /\ pc = "write"
    /\ setup.recording
    /\ disk' \in disk .. Len(file) + 1
    /\ pc' = "catch"
    /\ UNCHANGED <<ctlVars, quit, running, log, file, counters, consVars,
                   exception, cause>>

\* One failing consumer is skipped, the others still see the packet.
ConsumeSwallows ==
    /\ pc = "consume"
    /\ next \in Consumers
    /\ next' = next + 1
    /\ UNCHANGED <<ctlVars, pc, quit, running, log, fileVars, counters, consumed,
                   finished, exception, cause>>

\* The loop over the consumers is left as soon as a stop is requested.
ConsumedOrQuit ==
    /\ pc = "consume"
    /\ quit \/ next \notin Consumers
    /\ pc' = "check"
    /\ UNCHANGED <<ctlVars, quit, running, log, fileVars, counters, consVars,
                   exception, cause>>

\* The exception is logged but not kept.
DropException ==
    /\ pc = "catch"
    /\ cause' = "error"
    /\ pc' = "finish"
    /\ next' = 1
    /\ UNCHANGED <<ctlVars, quit, running, log, fileVars, counters, consumed,
                   finished, exception>>

\* One handler around the whole loop over finished(): the others are not told.
FinishThrowsOut ==
    /\ pc = "finish"
    /\ next \in Consumers
    /\ finished' = [finished EXCEPT ![next] = @ + 1]
    /\ next' = NumConsumers + 1
    /\ UNCHANGED <<ctlVars, pc, quit, running, log, fileVars, counters,
                   consumed, exception, cause>>

\* stop() releases source and listfile without joining the thread.
FinishStopWithoutJoin ==
    /\ ctl = "join"
    /\ hasSource' = FALSE
    /\ fileOpen' = FALSE
    /\ ctl' = "idle"
    /\ UNCHANGED <<threadVars, pc, quit, running, exception>>
-----------------------------------------------------------------------------
(* The worker thread: loop().                                              *)

\* The test of the while loop.
CheckQuit ==
    /\ pc = "check"
    /\ IF quit
       THEN pc' = "finish" /\ next' = 1 /\ cause' = "quit"
       ELSE pc' = "read" /\ UNCHANGED <<next, cause>>
    /\ UNCHANGED <<ctlVars, quit, running, log, fileVars, counters, consumed,
                   finished, exception>>

\* read() returned a packet: a datagram, or the next record of the listfile.
ReadPacket ==
    /\ pc = "read"
    /\ Len(log) < setup.size
    /\ \E p \in Packets :
          log' = Append(log, IF setup.kind = "udp" THEN p ELSE FromListfile(p))
    /\ pc' = "write"
    /\ UNCHANGED <<ctlVars, quit, running, fileVars, counters, consVars,
                   exception, cause>>

\* No datagram within the read timeout, or the call was interrupted.
ReadTimeout ==
    /\ pc = "read"
    /\ setup.kind = "udp"
    /\ counters' = [counters EXCEPT !.timeouts =
                      IF @ < MaxTimeouts THEN @ + 1 ELSE @]
    /\ pc' = "check"
    /\ UNCHANGED <<ctlVars, quit, running, log, fileVars, consVars, exception,
                   cause>>

\* All records of the listfile were read.
ReadEnd ==
    /\ pc = "read"
    /\ setup.kind = "listfile"
    /\ Len(log) = setup.size
    /\ pc' = "finish"
    /\ next' = 1
    /\ cause' = "end"
    /\ UNCHANGED <<ctlVars, quit, running, log, fileVars, counters, consumed,
                   finished, exception>>

\* A socket or file error.
ReadThrows ==
    /\ pc = "read"
    /\ pc' = "catch"
    /\ UNCHANGED <<ctlVars, quit, running, log, fileVars, counters, consVars,
                   exception, cause>>

\* The stream takes the record; its buffer may be flushed at any write.
WriteListfile ==
    /\ pc = "write"
    /\ IF setup.recording
       THEN /\ file' = Append(file, Current)
            /\ disk' \in disk .. Len(file')
       ELSE UNCHANGED fileVars
    /\ pc' = "count"
    /\ UNCHANGED <<ctlVars, quit, running, log, counters, consVars, exception,
                   cause>>

\* The disk is full: part of what was buffered may have been written.
WriteThrows ==
    /\ pc = "write"
    /\ setup.recording
    /\ disk' \in disk .. Len(file)
    /\ pc' = "catch"
    /\ UNCHANGED <<ctlVars, quit, running, log, file, counters, consVars,
                   exception, cause>>

\* The counters change under the mutex, before any consumer sees the packet.
Count ==
    /\ pc = "count"
    /\ LET valid == IsValidDataPacket(Current)
       IN  /\ counters' = [counters EXCEPT
                             !.packets = @ + 1,
                             !.invalid = IF valid THEN @ ELSE @ + 1,
                             !.listfile = IF setup.recording THEN Len(file) ELSE 0]
           /\ pc' = IF valid THEN "consume" ELSE "check"
    /\ next' = 1
    /\ UNCHANGED <<ctlVars, quit, running, log, fileVars, consumed, finished,
                   exception, cause>>

\* One call of consume(), in the order of consumers_.
Consume ==
    /\ pc = "consume"
    /\ next \in Consumers
    /\ consumed' = [consumed EXCEPT ![next] = @ \cup {Len(log)}]
    /\ next' = next + 1
    /\ UNCHANGED <<ctlVars, pc, quit, running, log, fileVars, counters,
                   finished, exception, cause>>

ConsumeThrows ==
    /\ pc = "consume"
    /\ next \in Consumers
    /\ pc' = "catch"
    /\ UNCHANGED <<ctlVars, quit, running, log, fileVars, counters, consVars,
                   exception, cause>>

Consumed ==
    /\ pc = "consume"
    /\ next \notin Consumers
    /\ pc' = "check"
    /\ UNCHANGED <<ctlVars, quit, running, log, fileVars, counters, consVars,
                   exception, cause>>

\* The handler around the loop keeps the exception for the controller.
StoreException ==
    /\ pc = "catch"
    /\ exception' = "stored"
    /\ cause' = "error"
    /\ pc' = "finish"
    /\ next' = 1
    /\ UNCHANGED <<ctlVars, quit, running, log, fileVars, counters, consumed,
                   finished>>

\* One call of finished().
Finish ==
    /\ pc = "finish"
    /\ next \in Consumers
    /\ finished' = [finished EXCEPT ![next] = @ + 1]
    /\ next' = next + 1
    /\ UNCHANGED <<ctlVars, pc, quit, running, log, fileVars, counters,
                   consumed, exception, cause>>

\* What it throws is caught inside of the loop, logged and dropped: the call was made,
\* and the next consumer has its turn as well.
FinishThrows ==
    /\ pc = "finish"
    /\ next \in Consumers
    /\ finished' = [finished EXCEPT ![next] = @ + 1]
    /\ next' = next + 1
    /\ UNCHANGED <<ctlVars, pc, quit, running, log, fileVars, counters,
                   consumed, exception, cause>>

\* running_ is cleared last; then the thread function returns.
ClearRunning ==
    /\ pc = "finish"
    /\ next \notin Consumers
    /\ running' = FALSE
    /\ pc' = "ended"
    /\ UNCHANGED <<ctlVars, quit, log, fileVars, counters, consVars, exception,
                   cause>>

Worker ==
    \/ CheckQuit
    \/ ReadPacket
    \/ ReadTimeout
    \/ ReadEnd
    \/ ReadThrows
    \/ WriteListfile
    \/ WriteThrows
    \/ Count
    \/ Consume
    \/ ConsumeThrows
    \/ Consumed
    \/ StoreException
    \/ Finish
    \/ FinishThrows
    \/ ClearRunning
-----------------------------------------------------------------------------
(* The controlling thread.                                                 *)

\* start(): the flag is set before the thread exists.
Start ==
    /\ ctl = "idle"
    /\ pc = "none"
    /\ hasSource
    /\ running' = TRUE
    /\ ctl' = "spawn"
    /\ UNCHANGED <<threadVars, pc, quit, hasSource, fileOpen, exception>>

Spawn ==
    /\ ctl = "spawn"
    /\ pc' = "check"
    /\ ctl' = "idle"
    /\ UNCHANGED <<threadVars, quit, running, hasSource, fileOpen, exception>>

\* The std::thread constructor throws std::system_error.
SpawnThrows ==
    /\ ctl = "spawn"
    /\ ctl' = "idle"
    /\ UNCHANGED <<threadVars, pc, quit, running, hasSource, fileOpen, exception>>

\* stop(), also called by the destructor, up to the join.
RequestStop ==
    /\ ctl = "idle"
    /\ quit' = TRUE
    /\ ctl' = "join"
    /\ UNCHANGED <<threadVars, pc, running, hasSource, fileOpen, exception>>

\* The rest of stop(): the thread has ended or was never started.  A close()
\* that fails may have flushed a part of the buffer; the error is only logged.
FinishStop ==
    /\ ctl = "join"
    /\ pc \in {"none", "ended", "joined"}
    /\ pc' = IF pc = "ended" THEN "joined" ELSE pc
    /\ hasSource' = FALSE
    /\ fileOpen' = FALSE
    /\ IF fileOpen THEN disk' \in disk .. Len(file) ELSE UNCHANGED disk
    /\ ctl' = "idle"
    /\ UNCHANGED <<setup, quit, running, log, file, counters, consVars,
                   exception, cause>>

\* rethrowException(): takes the exception out and throws it.
RethrowException ==
    /\ ctl = "idle"
    /\ exception = "stored"
    /\ exception' = "taken"
    /\ UNCHANGED <<threadVars, ctl, pc, quit, running, hasSource, fileOpen>>

Controller ==
    \/ Start
    \/ Spawn
    \/ SpawnThrows
    \/ RequestStop
    \/ FinishStop
    \/ RethrowException

Next == Worker \/ Controller

Spec == Init /\ [][Next]_vars

\* The operating system schedules the worker thread, each call it makes
\* returns (read() after its timeout at the latest), and a controller that is
\* inside start() or stop() goes on as soon as it can.
FairSpec == Spec /\ WF_vars(Worker) /\ WF_vars(Spawn \/ SpawnThrows)
                 /\ WF_vars(FinishStop)
-----------------------------------------------------------------------------
(* Properties.                                                             *)

PCs == {"none", "check", "read", "write", "count", "consume", "catch",
        "finish", "ended", "joined"}

LoopPCs == {"check", "read", "write", "count", "consume", "catch"}

Deliverable == Packets \cup {FromListfile(p) : p \in Packets}

CountersType == [packets : Nat, timeouts : Nat, invalid : Nat, listfile : Nat]

\* Every variable keeps its type.
TypeOK ==
    /\ setup \in Setups
    /\ ctl \in {"idle", "spawn", "join"}
    /\ pc \in PCs
    /\ quit \in BOOLEAN
    /\ running \in BOOLEAN
    /\ hasSource \in BOOLEAN
    /\ fileOpen \in BOOLEAN
    /\ log \in Seq(Deliverable)
    /\ file \in Seq(Deliverable)
    /\ disk \in 0 .. Len(file)
    /\ counters \in CountersType
    /\ next \in 1 .. NumConsumers + 1
    /\ consumed \in [Consumers -> SUBSET Nat]
    /\ finished \in [Consumers -> Nat]
    /\ exception \in {"none", "stored", "taken"}
    /\ cause \in {"none", "quit", "end", "error"}

\* Write-ahead: whatever a consumer has handled (and a client can see in the
\* statistics or histograms) is a valid packet that was counted before and,
\* while recording, stands in the listfile at the same position, so that a
\* replay can reproduce it (loop() writes, then counts, then dispatches).
WriteAhead ==
    \A c \in Consumers : \A k \in consumed[c] :
        /\ k \in ValidPositions
        /\ k <= counters.packets
        /\ setup.recording => k \in DOMAIN file /\ file[k] = log[k]

\* Nothing is dropped inside the worker: when stop() has joined a run that met
\* no error, every consumer handled exactly the valid packets, every packet
\* was counted and recorded, and a replay that reached its end read the whole
\* listfile.
RunIsComplete ==
    pc = "joined" /\ cause # "error" =>
        /\ \A c \in Consumers : consumed[c] = ValidPositions
        /\ counters.packets = Len(log)
        /\ counters.invalid + Cardinality(ValidPositions) = Len(log)
        /\ setup.recording => file = log /\ counters.listfile = Len(log)
        /\ cause = "end" => Len(log) = setup.size

\* finished() is called once per consumer and run, and before isRunning()
\* turns false: a client that sees the run ended may rely on every consumer
\* having been told.
FinishedBeforeNotRunning ==
    /\ \A c \in Consumers : finished[c] <= 1
    /\ pc # "none" /\ ~running => \A c \in Consumers : finished[c] = 1
    /\ pc = "joined" => ~running

\* A consumer that was told the run is finished is never handed a packet, and
\* the packets of a run reach it in the order in which they were read.
NoPacketAfterFinished ==
    [][\A c \in Consumers : consumed'[c] # consumed[c] =>
          /\ finished[c] = 0
          /\ \A k \in consumed'[c] \ consumed[c], j \in consumed[c] : j < k]_vars

\* stop() releases the socket and closes the listfile only when the thread
\* that uses them is gone, whatever step the thread was at.
ResourcesHeldByLoop ==
    pc \in LoopPCs => hasSource /\ (setup.recording => fileOpen)

\* A client that sees a run ended by itself can tell an error from the end of
\* the data: the exception is stored before isRunning() turns false.
ErrorIsReported ==
    /\ pc \in {"ended", "joined"} /\ cause = "error" => exception # "none"
    /\ exception # "none" => cause = "error"

\* The order and exactly-once promise to the consumers.
Fanout ==
    INSTANCE PacketFanout
        WITH Packets <- Deliverable,
             Valid <- {p \in Deliverable : IsValidDataPacket(p)},
             phase <- IF pc \in LoopPCs \cup {"none"} /\ pc # "catch"
                      THEN "open"
                      ELSE IF pc = "catch" \/ cause = "error"
                           THEN "failed" ELSE "closed"

\* The worker implements the promise.
ImplementsFanout == Fanout!Spec

\* stop() returns: the thread ends within one pass of the loop.
StopReturns == ctl = "join" ~> ctl = "idle"

\* A replay ends without stop(): the run is over once the listfile is read.
ReplayEnds == setup.kind = "listfile" /\ pc = "check" ~> ~running

\* What test/test_daq.py asserts of a recorded run: after stop() the listfile
\* has the size that the counters report, unless an error was reported.
CountedBytesAreOnDisk ==
    pc = "joined" /\ exception = "none" => disk = counters.listfile
=============================================================================
