-------------------------------- MODULE Daq --------------------------------
(***************************************************************************)
(* src/mesytec-mcpd/daq.{h,cc}: readouts and replays one after the other,  *)
(* each by a ReadoutWorker of its own, with one listfile and consumers     *)
(* that live as long as the Daq: the stats and the two histogrammers.      *)
(*                                                                         *)
(* The variables of ReadoutWorker are those of the worker worker_ points   *)
(* to.  start...() of the Daq is a single step: isRunning() is false, so   *)
(* no other thread of the Daq is left that could see its parts.  Starts    *)
(* that throw before the worker is replaced (busy port, existing or        *)
(* missing listfile) change nothing and are not steps.                     *)
(***************************************************************************)
EXTENDS ReadoutWorker

CONSTANTS FixedPort,    \* listenPort_ is not 0
          Hole,         \* a record that was never written: all zeros
          MaxRuns       \* bound: workers created by the Daq

\* A Daq has three consumers.  A datagram is received into a DataPacket and cut to
\* its size.
ASSUME DaqAssumption ==
    /\ NumConsumers = 3
    /\ \A p \in Packets : p.bytes <= DataPacketBytes
    /\ FixedPort \in BOOLEAN
    /\ MaxRuns \in Nat
    /\ Hole \in Packets

VARIABLES
    run,        \* number of workers created; worker_ is null when it is 0
    localPort,  \* localPort_ is not 0
    listfile,   \* the file on disk, without what the open stream wrote to it
    recorded,   \* history: the last run that wrote to the file
    toClear,    \* consumers that a reset or clear call has still to clear
    view,       \* what each consumer has accumulated: pairs of run, position
    archive,    \* history: the runs before the current one
    clearedIn   \* history: the run in which each consumer was last cleared

daqVars == <<run, localPort, listfile, recorded, toClear, view, archive, clearedIn>>
accountVars == <<toClear, view, clearedIn>>
allVars == <<vars, daqVars>>

NothingRecorded == [records |-> 0, seen |-> {}, whole |-> FALSE]

\* No worker looks like one that was stopped before it was started.
DaqInit ==
    /\ Init
    /\ setup = [kind |-> "listfile", recording |-> FALSE, size |-> 0]
    /\ run = 0
    /\ localPort = FALSE
    /\ listfile = << >>
    /\ recorded = NothingRecorded
    /\ toClear = << >>
    /\ view = [c \in Consumers |-> {}]
    /\ archive = << >>
    /\ clearedIn = [c \in Consumers |-> 0]
-----------------------------------------------------------------------------
(* The listfile.                                                           *)

\* The records that the open stream has put on disk, over what was there.
Overlaid(d) ==
    [k \in 1 .. (IF d > Len(listfile) THEN d ELSE Len(listfile)) |->
        IF k <= d THEN file[k] ELSE listfile[k]]

\* The file after the stream was closed with d records on disk.
Closed(d) == IF fileOpen THEN Overlaid(d) ELSE listfile

\* What a stream that is still open leaves in a file that was truncated under
\* it: its buffer goes to its old offset.
FlushedInto(d) ==
    IF fileOpen /\ d > disk
    THEN [k \in 1 .. d |-> IF k <= disk THEN Hole ELSE file[k]]
    ELSE << >>

\* The recording is whole if it reached the disk and nothing else is there.
Recorded(d) ==
    IF fileOpen
    THEN [records |-> d, seen |-> consumed[1],
          whole |-> d = Len(file) /\ listfile = << >>]
    ELSE recorded

Flushes == IF fileOpen THEN disk .. Len(file) ELSE {disk}
-----------------------------------------------------------------------------
(* Control.                                                                *)

IsRunning == run > 0 /\ running

CanControl == ctl = "idle" /\ toClear = << >>

\* startWorker(): the old worker is destroyed (its thread has ended, its
\* source and listfile are closed), the new one is constructed and started.
\* spawned is FALSE if the std::thread constructor throws.
StartWorker(s, spawned) ==
    /\ setup' = s
    /\ pc' = IF spawned THEN "check" ELSE "none"
    /\ ctl' = "idle"
    /\ quit' = FALSE
    /\ running' = TRUE
    /\ hasSource' = TRUE
    /\ fileOpen' = s.recording
    /\ log' = << >>
    /\ file' = << >>
    /\ disk' = 0
    /\ counters' = NoCounters
    /\ next' = 1
    /\ consumed' = [c \in Consumers |-> {}]
    /\ finished' = [c \in Consumers |-> 0]
    /\ exception' = "none"
    /\ cause' = "none"
    /\ run' = run + 1
    /\ archive' = IF run = 0 THEN archive
                  ELSE Append(archive, [valid |-> ValidPositions,
                                        clean |-> cause # "error"])

\* The port is free unless an earlier worker still has its socket.
PortIsFree == FixedPort => ~(hasSource /\ setup.kind = "udp")

\* Mutation: the consumers are created together with the worker.
StartReadoutClears ==
    /\ CanControl
    /\ ~IsRunning
    /\ run < MaxRuns
    /\ PortIsFree
    /\ \E rec \in BOOLEAN, spawned \in BOOLEAN, d \in Flushes :
          /\ StartWorker([kind |-> "udp", recording |-> rec, size |-> MaxPackets], spawned)
          /\ listfile' = IF rec THEN FlushedInto(d) ELSE Closed(d)
          /\ recorded' = Recorded(d)
          /\ localPort' = (localPort \/ spawned)
    /\ view' = [c \in Consumers |-> {}]
    /\ UNCHANGED <<toClear, clearedIn>>

\* startReadout(): the socket is bound and the listfile opened, truncating it,
\* before the old worker is destroyed; the port is noted last.
StartReadout ==
    /\ CanControl
    /\ ~IsRunning
    /\ run < MaxRuns
    /\ PortIsFree
    /\ \E rec \in BOOLEAN, spawned \in BOOLEAN, d \in Flushes :
          /\ StartWorker([kind |-> "udp", recording |-> rec, size |-> MaxPackets], spawned)
          /\ listfile' = IF rec THEN FlushedInto(d) ELSE Closed(d)
          /\ recorded' = Recorded(d)
          /\ localPort' = (localPort \/ spawned)
    /\ UNCHANGED accountVars

\* Mutation: an incomplete record at the end counts as one.
StartReplayPastEnd ==
    /\ CanControl
    /\ ~IsRunning
    /\ run < MaxRuns
    /\ \E spawned \in BOOLEAN, d \in Flushes :
          /\ StartWorker([kind |-> "listfile", recording |-> FALSE,
                          size |-> Len(Closed(d)) + 1], spawned)
          /\ listfile' = Closed(d)
          /\ recorded' = Recorded(d)
    /\ UNCHANGED <<localPort, accountVars>>

\* startReplay() of that listfile.
StartReplay ==
    /\ CanControl
    /\ ~IsRunning
    /\ run < MaxRuns
    /\ \E spawned \in BOOLEAN, d \in Flushes :
          /\ StartWorker([kind |-> "listfile", recording |-> FALSE,
                          size |-> Len(Closed(d))], spawned)
          /\ listfile' = Closed(d)
          /\ recorded' = Recorded(d)
    /\ UNCHANGED <<localPort, accountVars>>

\* stop() or the destructor: the worker's stop(), then the port is forgotten.
Stop ==
    /\ CanControl
    /\ run > 0
    /\ RequestStop
    /\ UNCHANGED daqVars

\* Mutation: stop() does not forget the port.
StopReturnsKeepingPort ==
    /\ FinishStop
    /\ listfile' = Closed(disk')
    /\ recorded' = Recorded(disk')
    /\ UNCHANGED <<run, localPort, archive, accountVars>>

StopFinishes ==
    /\ FinishStop
    /\ listfile' = Closed(disk')
    /\ recorded' = Recorded(disk')
    /\ localPort' = FALSE
    /\ UNCHANGED <<run, archive, accountVars>>

Rethrow ==
    /\ CanControl
    /\ RethrowException
    /\ UNCHANGED daqVars

\* resetStats(), clearHistograms() and clearSources() take one consumer after
\* the other, each under its own mutex.  Bound: a call does not begin with a
\* consumer that was already cleared in this run.
BeginClear ==
    /\ CanControl
    /\ toClear' \in {<<1>>, <<2, 3>>, <<1, 2, 3>>}
    /\ clearedIn[Head(toClear')] < run
    /\ UNCHANGED <<vars, run, localPort, listfile, recorded, view, archive,
                   clearedIn>>

Clear ==
    /\ toClear # << >>
    /\ view' = [view EXCEPT ![Head(toClear)] = {}]
    /\ clearedIn' = [clearedIn EXCEPT ![Head(toClear)] = run]
    /\ toClear' = Tail(toClear)
    /\ UNCHANGED <<vars, run, localPort, listfile, recorded, archive>>
-----------------------------------------------------------------------------
(* The worker thread of the current worker.                                *)

\* A replay reads the records of the listfile one after the other.
ReadsListfile ==
    setup.kind = "listfile" /\ log' # log =>
        log' = Append(log, FromListfile(listfile[Len(log) + 1]))

\* Each consumer adds to what it has.
Accumulates ==
    view' = [c \in Consumers |->
                view[c] \cup {<<run, k>> : k \in consumed'[c] \ consumed[c]}]

WorkerStep ==
    /\ Worker
    /\ ReadsListfile
    /\ Accumulates
    /\ UNCHANGED <<run, localPort, listfile, recorded, toClear, archive,
                   clearedIn>>

DaqNext ==
    \/ StartReadout
    \/ StartReplay
    \/ Stop
    \/ StopFinishes
    \/ Rethrow
    \/ BeginClear
    \/ Clear
    \/ WorkerStep

DaqSpec == DaqInit /\ [][DaqNext]_allVars
-----------------------------------------------------------------------------
(* Properties.                                                             *)

Run == [valid : SUBSET Nat, clean : BOOLEAN]

Recording == [records : Nat, seen : SUBSET Nat, whole : BOOLEAN]

\* Every variable keeps its type, and a replay has a record to read wherever
\* it reads one.
DaqTypeOK ==
    /\ TypeOK
    /\ setup.kind = "listfile" => setup.size <= Len(listfile)
    /\ run \in Nat
    /\ localPort \in BOOLEAN
    /\ listfile \in Seq(Packets)
    /\ recorded \in Recording
    /\ toClear \in Seq(Consumers)
    /\ view \in [Consumers -> SUBSET (Nat \X Nat)]
    /\ archive \in Seq(Run)
    /\ clearedIn \in [Consumers -> Nat]

\* Stats and histograms survive stop and start: every valid packet of every
\* earlier run that met no error is still in each consumer that was not reset
\* or cleared since that run was over, and nothing else ever gets there.
RunsAccumulate ==
    \A c \in Consumers :
        /\ \A r \in DOMAIN archive : archive[r].clean /\ clearedIn[c] < r =>
              \A k \in archive[r].valid : <<r, k>> \in view[c]
        /\ \A e \in view[c] :
              /\ clearedIn[c] <= e[1]
              /\ e[2] \in IF e[1] = run THEN ValidPositions ELSE archive[e[1]].valid

\* A replay of a recording that reached the disk has as many packets, and every
\* packet that the live consumers saw reaches them again at the same place;
\* whatever runs, crashes of a run and restarts came in between.
ReplayReproduces ==
    cause = "end" /\ pc \in {"ended", "joined"} /\ recorded.whole =>
        /\ Len(log) = recorded.records
        /\ \A c \in Consumers : recorded.seen \subseteq consumed[c]

\* The port is known as long as the loop of a readout runs, and stop() leaves
\* neither port, socket nor file behind.
PortFollowsReadout ==
    /\ setup.kind = "udp" /\ pc \in LoopPCs => localPort
    /\ pc = "joined" => ~localPort /\ ~hasSource /\ ~fileOpen

\* What test/test_daq.py asserts of stats and histograms: those of the replay
\* are those of the live run.
ReplayEqualsLive ==
    cause = "end" /\ pc = "joined" /\ recorded.whole =>
        \A c \in Consumers : recorded.seen = consumed[c]
=============================================================================
