------------------------------ MODULE PyWorker ------------------------------
(***************************************************************************)
(* src/mesytec-mcpd/mcpd_py_lib.cc: Readout and Replay for Python.  A      *)
(* reading thread puts packets into a queue.Queue; Python threads call     *)
(* start(), stop() and getters, and another one takes the packets.  There  *)
(* are two locks: mutex_, and the global interpreter lock (GIL) of Python. *)
(*                                                                         *)
(* The reading thread is a ReadoutWorker (see there), as far as the tap    *)
(* notices.  queue.Queue is not part of this repository: each operation is *)
(* one step that needs the GIL, and a blocked one has let go of it.        *)
(* Packets are numbered in the order in which a run reads them.  The       *)
(* destructor is stop(true).  A std::thread that cannot be created is left *)
(* to ReadoutWorker.                                                       *)
(***************************************************************************)
EXTENDS Naturals, Sequences

CONSTANTS Callers,     \* Python threads that call start(), stop() or a getter
          None,        \* no thread
          QueueSize,   \* queueSize_
          MaxPackets,  \* bound: packets of a run
          MaxRuns,     \* bound: runs that are started
          MaxCalls     \* bound: calls

ASSUME PyAssumption ==
    /\ None \notin Callers
    /\ QueueSize \in Nat \ {0}
    /\ MaxPackets \in Nat
    /\ MaxRuns \in Nat \ {0}
    /\ MaxCalls \in Nat

VARIABLES
    blocking,   \* blockingQueue(): a Replay, not a Readout
    gil,        \* who holds the GIL for more than one step
    mutex,      \* who holds mutex_
    pc,         \* where each caller is
    method,     \* what each caller has called
    calls,      \* number of calls so far
    current,    \* the number of the queue that queue_ refers to
    used,       \* queueUsed_
    items,      \* the packets in each queue
    shut        \* the queues that were shut down

VARIABLES
    rpc,        \* the reader: "idle", or inside "get"
    rq,         \* the queue that the reader has got
    got,        \* history: what was taken from each queue
    wpc,        \* where the reading thread is
    quit,       \* quit_
    running,    \* running_
    exception,  \* exception_ is set
    tap,        \* the number of the queue of tap_, 0 without a worker
    shutDown,   \* shutDown_ of the tap
    packets,    \* packets that the worker has counted
    dropped,    \* dropped_ of the tap
    stopped     \* history: stop() has shut down the queue of this run

callVars == <<method, calls>>
queueVars == <<items, shut>>
readerVars == <<rpc, rq, got>>
workerVars == <<wpc, quit, running, exception, shutDown, packets, dropped>>
runVars == <<tap, stopped>>
dataVars == <<blocking, current, used, queueVars, readerVars, workerVars, runVars>>
vars == <<gil, mutex, pc, callVars, dataVars>>

Queues == 1 .. MaxRuns

Init ==
    /\ blocking \in BOOLEAN
    /\ gil = None
    /\ mutex = None
    /\ pc = [t \in Callers |-> "python"]
    /\ method = [t \in Callers |-> "getter"]
    /\ calls = 0
    /\ current = 1
    /\ used = FALSE
    /\ items = [q \in Queues |-> << >>]
    /\ shut = {}
    /\ rpc = "idle"
    /\ rq = 1
    /\ got = [q \in Queues |-> << >>]
    /\ wpc = "none"
    /\ quit = FALSE
    /\ running = FALSE
    /\ exception = FALSE
    /\ tap = 0
    /\ shutDown = FALSE
    /\ packets = 0
    /\ dropped = 0
    /\ stopped = FALSE
-----------------------------------------------------------------------------
(* The methods of WorkerBase.                                              *)

Goto(t, from, to) ==
    /\ pc[t] = from
    /\ pc' = [pc EXCEPT ![t] = to]

HasWorker == tap # 0

ThreadIsOver == wpc \in {"none", "ended"}

\* A Python thread enters a method, with the GIL.
Call(t, m) ==
    /\ gil = None
    /\ calls < MaxCalls
    /\ Goto(t, "python", "entered")
    /\ gil' = t
    /\ method' = [method EXCEPT ![t] = m]
    /\ calls' = calls + 1
    /\ UNCHANGED <<mutex, dataVars>>

\* Mutation: waits for the mutex with the GIL in its hands.
ReleaseGilKeeps(t) ==
    /\ Goto(t, "entered", "lock")
    /\ UNCHANGED <<gil, mutex, callVars, dataVars>>

\* ReleaseGilIfHeld.
ReleaseGil(t) ==
    /\ Goto(t, "entered", "lock")
    /\ gil' = None
    /\ UNCHANGED <<mutex, callVars, dataVars>>

Lock(t) ==
    /\ mutex = None
    /\ Goto(t, "lock", method[t])
    /\ mutex' = t
    /\ UNCHANGED <<gil, callVars, dataVars>>

\* A getter reads.  start() returns because the worker runs, or throws because the
\* source cannot be opened.  stop() returns because there is no worker.
NothingToDo(t) ==
    /\ \/ Goto(t, "getter", "unlock")
       \/ Goto(t, "start", "unlock")
       \/ ~HasWorker /\ Goto(t, "stop", "unlock")
    /\ UNCHANGED <<gil, mutex, callVars, dataVars>>

\* Mutation: start() does not look whether the worker runs.
AcquireGilAnyway(t) ==
    /\ gil = None
    /\ \/ (used => current < MaxRuns) /\ Goto(t, "start", "replace")
       \/ HasWorker /\ Goto(t, "stop", "shutdown")
    /\ gil' = t
    /\ UNCHANGED <<mutex, callVars, dataVars>>

\* Both methods take the GIL for the queue, start() when it has its source.
AcquireGil(t) ==
    /\ gil = None
    /\ \/ ~running /\ (used => current < MaxRuns) /\ Goto(t, "start", "replace")
       \/ HasWorker /\ Goto(t, "stop", "shutdown")
    /\ gil' = t
    /\ UNCHANGED <<mutex, callVars, dataVars>>

\* start(): a queue that was used is replaced.
ReplaceQueue(t) ==
    /\ Goto(t, "replace", "join")
    /\ current' = IF used THEN current + 1 ELSE current
    /\ used' = TRUE
    /\ gil' = None
    /\ UNCHANGED <<mutex, callVars, blocking, queueVars, readerVars, workerVars, runVars>>

\* start(): joins the old worker, makes and starts a new one.
NewWorker(t) ==
    /\ ThreadIsOver
    /\ Goto(t, "join", "unlock")
    /\ wpc' = "check"
    /\ quit' = FALSE
    /\ running' = TRUE
    /\ exception' = FALSE
    /\ tap' = current
    /\ shutDown' = FALSE
    /\ packets' = 0
    /\ dropped' = 0
    /\ stopped' = FALSE
    /\ UNCHANGED <<gil, mutex, callVars, blocking, current, used, queueVars, readerVars>>

\* stop(): the queue is shut down first; with immediate it is emptied.
ShutdownQueue(t) ==
    /\ Goto(t, "shutdown", "quit")
    /\ shut' = shut \cup {current}
    /\ \/ UNCHANGED items
       \/ items' = [items EXCEPT ![current] = << >>]
    /\ stopped' = TRUE
    /\ gil' = None
    /\ UNCHANGED <<mutex, callVars, blocking, current, used, readerVars, workerVars, tap>>

\* ReadoutWorker::stop(), in two steps.
RequestQuit(t) ==
    /\ Goto(t, "quit", "wait")
    /\ quit' = TRUE
    /\ UNCHANGED <<gil, mutex, callVars, blocking, current, used, queueVars, readerVars,
                   wpc, running, exception, shutDown, packets, dropped, runVars>>

JoinWorker(t) ==
    /\ ThreadIsOver
    /\ Goto(t, "wait", "unlock")
    /\ wpc' = "none"
    /\ UNCHANGED <<gil, mutex, callVars, blocking, current, used, queueVars, readerVars,
                   quit, running, exception, shutDown, packets, dropped, runVars>>

Unlock(t) ==
    /\ Goto(t, "unlock", "return")
    /\ mutex' = None
    /\ UNCHANGED <<gil, callVars, dataVars>>

\* ReleaseGilIfHeld takes the GIL back; the call returns to Python.
Return(t) ==
    /\ gil = None
    /\ Goto(t, "return", "python")
    /\ UNCHANGED <<gil, mutex, callVars, dataVars>>
-----------------------------------------------------------------------------
(* The reading thread: ReadoutWorker::loop() with the tap as its consumer. *)

WorkerGoes(from, to) ==
    /\ wpc = from
    /\ wpc' = to
    /\ UNCHANGED <<gil, mutex, pc, callVars, blocking, current, used, readerVars, quit, runVars>>

\* The test of quit_, before each read().
CheckQuit ==
    /\ WorkerGoes("check", IF quit THEN "finish" ELSE "read")
    /\ UNCHANGED <<queueVars, running, exception, shutDown, packets, dropped>>

\* read() returns a packet, also after quit_ was set meanwhile: it is counted, then
\* consumed; a tap that was shut down does nothing.
ReadPacket ==
    /\ packets < MaxPackets
    /\ packets' = packets + 1
    /\ WorkerGoes("read", IF shutDown THEN "check" ELSE "put")
    /\ UNCHANGED <<queueVars, running, exception, shutDown, dropped>>

\* read() of a socket returns without a packet.
ReadTimeout ==
    /\ ~blocking
    /\ WorkerGoes("read", "check")
    /\ UNCHANGED <<queueVars, running, exception, shutDown, packets, dropped>>

\* A listfile ends, or read() throws.
SourceEnds ==
    /\ WorkerGoes("read", "finish")
    /\ \/ blocking /\ UNCHANGED exception
       \/ exception' = TRUE
    /\ UNCHANGED <<queueVars, running, shutDown, packets, dropped>>

ReadReturns == ReadPacket \/ ReadTimeout \/ SourceEnds

IsFull == Len(items[tap]) >= QueueSize

\* Mutation: put() does not know the size of the queue.
PutItemAnyway ==
    /\ gil = None
    /\ WorkerGoes("put", "check")
    /\ tap \notin shut
    /\ items' = [items EXCEPT ![tap] = Append(@, packets)]
    /\ UNCHANGED <<shut, running, exception, shutDown, packets, dropped>>

\* put(): a blocking one waits while the queue is full.
PutItem ==
    /\ gil = None
    /\ WorkerGoes("put", "check")
    /\ tap \notin shut
    /\ ~IsFull
    /\ items' = [items EXCEPT ![tap] = Append(@, packets)]
    /\ UNCHANGED <<shut, running, exception, shutDown, packets, dropped>>

\* queue.Full is counted.
PutFull ==
    /\ gil = None
    /\ WorkerGoes("put", "check")
    /\ tap \notin shut
    /\ IsFull
    /\ ~blocking
    /\ dropped' = dropped + 1
    /\ UNCHANGED <<queueVars, running, exception, shutDown, packets>>

\* queue.ShutDown; a blocked put() wakes up with it.
PutShutDown ==
    /\ gil = None
    /\ WorkerGoes("put", "check")
    /\ tap \in shut
    /\ shutDown' = TRUE
    /\ UNCHANGED <<queueVars, running, exception, packets, dropped>>

\* Any other error of Python.
PutThrows ==
    /\ gil = None
    /\ WorkerGoes("put", "finish")
    /\ exception' = TRUE
    /\ UNCHANGED <<queueVars, running, shutDown, packets, dropped>>

\* finished() shuts down the queue of the tap.
Finished ==
    /\ gil = None
    /\ WorkerGoes("finish", "clear")
    /\ shut' = shut \cup {tap}
    /\ UNCHANGED <<items, running, exception, shutDown, packets, dropped>>

ClearRunning ==
    /\ WorkerGoes("clear", "ended")
    /\ running' = FALSE
    /\ UNCHANGED <<queueVars, exception, shutDown, packets, dropped>>
-----------------------------------------------------------------------------
(* The Python thread that reads the queue.                                 *)

ReaderGoes(from, to) ==
    /\ gil = None
    /\ rpc = from
    /\ rpc' = to
    /\ UNCHANGED <<gil, mutex, pc, callVars, blocking, current, used, shut, workerVars, runVars>>

\* get() on the queue it knows, or on a new one from get_queue().
BeginGet ==
    /\ ReaderGoes("idle", "get")
    /\ rq' \in {rq, current}
    /\ UNCHANGED <<items, got>>

GetItem ==
    /\ items[rq] # << >>
    /\ ReaderGoes("get", "idle")
    /\ got' = [got EXCEPT ![rq] = Append(@, Head(items[rq]))]
    /\ items' = [items EXCEPT ![rq] = Tail(@)]
    /\ UNCHANGED rq

\* queue.ShutDown is raised in get().
GetShutDown ==
    /\ items[rq] = << >>
    /\ rq \in shut
    /\ ReaderGoes("get", "idle")
    /\ UNCHANGED <<items, rq, got>>
-----------------------------------------------------------------------------
Method(t) ==
    \/ ReleaseGil(t)
    \/ Lock(t)
    \/ NothingToDo(t)
    \/ AcquireGil(t)
    \/ ReplaceQueue(t)
    \/ NewWorker(t)
    \/ ShutdownQueue(t)
    \/ RequestQuit(t)
    \/ JoinWorker(t)
    \/ Unlock(t)
    \/ Return(t)

Put == PutItem \/ PutFull \/ PutShutDown \/ PutThrows

GetReturns == GetItem \/ GetShutDown

Next ==
    \/ \E t \in Callers :
          \/ \E m \in {"start", "stop", "getter"} : Call(t, m)
          \/ Method(t)
    \/ CheckQuit
    \/ ReadReturns
    \/ Put
    \/ Finished
    \/ ClearRunning
    \/ BeginGet
    \/ GetReturns

\* Threads run, nobody is kept from a lock that is free, and read() returns: from a
\* file at once, from a socket after its timeout at the latest.  Nothing makes Python
\* call a method or fail, or a packet arrive.
Fairness ==
    /\ \A t \in Callers : WF_vars(Method(t))
    /\ WF_vars(CheckQuit)
    /\ WF_vars(ReadReturns)
    /\ WF_vars(PutItem \/ PutFull \/ PutShutDown)
    /\ WF_vars(Finished)
    /\ WF_vars(ClearRunning)
    /\ WF_vars(GetReturns)

Spec == Init /\ [][Next]_vars

FairSpec == Spec /\ Fairness
-----------------------------------------------------------------------------
Places ==
    {"python", "entered", "lock", "getter", "start", "stop", "replace", "join", "shutdown",
     "quit", "wait", "unlock", "return"}

CallerTypeOK ==
    /\ gil \in Callers \cup {None}
    /\ mutex \in Callers \cup {None}
    /\ pc \in [Callers -> Places]
    /\ method \in [Callers -> {"start", "stop", "getter"}]
    /\ calls \in 0 .. MaxCalls

QueueTypeOK ==
    /\ blocking \in BOOLEAN
    /\ current \in Queues
    /\ used \in BOOLEAN
    /\ items \in [Queues -> Seq(1 .. MaxPackets)]
    /\ \A q \in Queues : Len(items[q]) <= QueueSize
    /\ shut \subseteq Queues
    /\ rpc \in {"idle", "get"}
    /\ rq \in Queues
    /\ got \in [Queues -> Seq(1 .. MaxPackets)]

WorkerTypeOK ==
    /\ wpc \in {"none", "check", "read", "put", "finish", "clear", "ended"}
    /\ quit \in BOOLEAN
    /\ running \in BOOLEAN
    /\ exception \in BOOLEAN
    /\ tap \in Queues \cup {0}
    /\ shutDown \in BOOLEAN
    /\ packets \in 0 .. MaxPackets
    /\ dropped \in 0 .. MaxPackets
    /\ stopped \in BOOLEAN

TypeOK == CallerTypeOK /\ QueueTypeOK /\ WorkerTypeOK

\* Every packet of a run that no error and no stop() has cut short is in the queue
\* of that run, was taken from it, was dropped and counted, or is on its way; a
\* Replay drops nothing.  No packet appears twice or overtakes another one.  The tap
\* does not own its queue: while its thread may use it, queue_ keeps it alive.
NothingIsLost ==
    LET delivered == got[tap] \o items[tap]
        underway == IF wpc = "put" THEN 1 ELSE 0
    IN  HasWorker =>
          /\ \A i, j \in DOMAIN delivered : i < j => delivered[i] < delivered[j]
          /\ ~stopped /\ ~exception => Len(delivered) + dropped + underway = packets
          /\ blocking => dropped = 0
          /\ ~ThreadIsOver => tap = current

\* Nobody waits for ever: every method returns, whatever the others do and even if
\* nobody reads a full queue; and get() returns once the run of its queue is over.
NobodyWaitsForEver ==
    /\ \A t \in Callers : pc[t] # "python" ~> pc[t] = "python"
    /\ (rpc = "get" /\ (rq < tap \/ (rq = tap /\ ~running))) ~> rpc = "idle"
=============================================================================
