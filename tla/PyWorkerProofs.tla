-------------------------- MODULE PyWorkerProofs --------------------------
(***************************************************************************)
(* Theorems about PyWorker, for any number of calling threads, any size of *)
(* the queue and all bounds: types, that no packet is lost without a       *)
(* trace, that nobody is stuck, and that stop() waits for a bounded time.  *)
(***************************************************************************)
EXTENDS PyWorker, SequenceTheorems, TLAPS

\* Where a caller holds mutex_: from Lock to Unlock.
InMutex == {"getter", "start", "stop", "replace", "join", "shutdown", "quit", "wait", "unlock"}

LockInv == \A t \in Callers : pc[t] \in InMutex <=> mutex = t

\* What start() has made sure of before it replaces the queue and the worker.
StartInv ==
    /\ \A t \in Callers : pc[t] = "replace" => ~running /\ (used => current < MaxRuns)
    /\ \A t \in Callers : pc[t] = "join" => ~running /\ used
    /\ \A t \in Callers : pc[t] = "shutdown" => HasWorker
    /\ running <=> ~ThreadIsOver
    /\ ~ThreadIsOver => tap = current
    /\ wpc # "none" => HasWorker
    /\ HasWorker => used /\ tap <= current

\* A queue that no worker has had yet is empty, and nothing was taken from it.
IsFresh(q) == items[q] = << >> /\ got[q] = << >> /\ q \notin shut

FreshInv ==
    /\ \A q \in Queues : q > current => IsFresh(q)
    /\ ~used => IsFresh(current)
    /\ \A t \in Callers : pc[t] = "join" => IsFresh(current)

\* What reached the queue of the current run, in the order of the run.
Delivered == got[tap] \o items[tap]

Underway == IF wpc = "put" THEN 1 ELSE 0

IsOrdered(s) == \A i, j \in 1 .. Len(s) : i < j => s[i] < s[j]

IsBelow(s, n) == \A i \in 1 .. Len(s) : s[i] <= n

TapInv ==
    /\ shutDown => stopped
    /\ wpc \in {"check", "read", "put"} /\ tap \in shut => stopped
    /\ blocking => dropped = 0
    /\ wpc = "put" => packets > 0
    /\ dropped + Underway <= packets
    /\ HasWorker =>
          /\ IsOrdered(Delivered)
          /\ IsBelow(Delivered, packets - Underway)
          /\ ~stopped /\ ~exception => Len(Delivered) + dropped + Underway = packets

PyInv == LockInv /\ StartInv /\ FreshInv /\ TapInv
-----------------------------------------------------------------------------
LEMMA PyInitInv == Init => TypeOK /\ PyInv
<1> SUFFICES ASSUME Init PROVE TypeOK /\ PyInv OBVIOUS
<1>1. CallerTypeOK
  BY PyAssumption DEF Init, CallerTypeOK, Places
<1>2. QueueTypeOK
  <2>1. 1 \in Queues
    BY PyAssumption DEF Queues
  <2>2. /\ << >> \in Seq(1 .. MaxPackets)
        /\ Len(<< >>) = 0 /\ 0 <= QueueSize
    BY EmptySeq, PyAssumption
  <2>3. /\ items \in [Queues -> Seq(1 .. MaxPackets)]
        /\ \A q \in Queues : Len(items[q]) <= QueueSize
        /\ got \in [Queues -> Seq(1 .. MaxPackets)]
    BY <2>2 DEF Init
  <2> QED BY <2>1, <2>3 DEF Init, QueueTypeOK
<1>3. WorkerTypeOK
  <2>1. packets \in 0 .. MaxPackets /\ dropped \in 0 .. MaxPackets
    BY PyAssumption DEF Init
  <2> QED BY <2>1 DEF Init, WorkerTypeOK
<1>4. LockInv
  BY PyAssumption DEF Init, LockInv, InMutex
<1>5. StartInv
  BY PyAssumption DEF Init, StartInv, HasWorker, ThreadIsOver
<1>6. FreshInv
  BY PyAssumption DEF Init, FreshInv, IsFresh, Queues
<1>7. TapInv
  BY PyAssumption DEF Init, TapInv, HasWorker, Underway
<1> QED BY <1>1, <1>2, <1>3, <1>4, <1>5, <1>6, <1>7 DEF PyInv, TypeOK
-----------------------------------------------------------------------------
(* Types.                                                                  *)

\* What most steps of a method leave alone.
LEMMA DataKept ==
    ASSUME QueueTypeOK, WorkerTypeOK, UNCHANGED dataVars
    PROVE  QueueTypeOK' /\ WorkerTypeOK'
BY DEF QueueTypeOK, WorkerTypeOK, dataVars, queueVars, readerVars, workerVars, runVars

LEMMA GotoTypes ==
    ASSUME CallerTypeOK, NEW t \in Callers, NEW from, NEW to \in Places, Goto(t, from, to)
    PROVE  pc' \in [Callers -> Places]
BY DEF CallerTypeOK, Goto

LEMMA MethodTypes ==
    ASSUME TypeOK, PyInv, NEW t \in Callers, Method(t)
    PROVE  TypeOK'
<1>1. CASE ReleaseGil(t)
  <2>1. pc' \in [Callers -> Places]
    BY <1>1, GotoTypes DEF TypeOK, ReleaseGil, Places
  <2> QED BY <1>1, <2>1, DataKept DEF TypeOK, CallerTypeOK, ReleaseGil, callVars
<1>2. CASE Lock(t)
  <2>1. pc' \in [Callers -> Places]
    BY <1>2, GotoTypes DEF TypeOK, CallerTypeOK, Lock, Places
  <2> QED BY <1>2, <2>1, DataKept DEF TypeOK, CallerTypeOK, Lock, callVars
<1>3. CASE NothingToDo(t)
  <2>1. pc' \in [Callers -> Places]
    BY <1>3, GotoTypes DEF TypeOK, NothingToDo, Places
  <2> QED BY <1>3, <2>1, DataKept DEF TypeOK, CallerTypeOK, NothingToDo, callVars
<1>4. CASE AcquireGil(t)
  <2>1. pc' \in [Callers -> Places]
    BY <1>4, GotoTypes DEF TypeOK, AcquireGil, Places
  <2> QED BY <1>4, <2>1, DataKept DEF TypeOK, CallerTypeOK, AcquireGil, callVars
<1>5. CASE ReplaceQueue(t)
  <2>1. pc' \in [Callers -> Places]
    BY <1>5, GotoTypes DEF TypeOK, ReplaceQueue, Places
  <2>2. current' \in Queues
    BY <1>5, PyAssumption DEF TypeOK, QueueTypeOK, PyInv, StartInv, ReplaceQueue, Goto, Queues
  <2>3. CallerTypeOK'
    BY <1>5, <2>1 DEF TypeOK, CallerTypeOK, ReplaceQueue, callVars
  <2>4. QueueTypeOK'
    BY <1>5, <2>2 DEF TypeOK, QueueTypeOK, ReplaceQueue, queueVars, readerVars
  <2>5. WorkerTypeOK'
    BY <1>5 DEF TypeOK, WorkerTypeOK, ReplaceQueue, workerVars, runVars
  <2> QED BY <2>3, <2>4, <2>5 DEF TypeOK
<1>6. CASE NewWorker(t)
  <2>1. pc' \in [Callers -> Places]
    BY <1>6, GotoTypes DEF TypeOK, NewWorker, Places
  <2>2. CallerTypeOK'
    BY <1>6, <2>1 DEF TypeOK, CallerTypeOK, NewWorker, callVars
  <2>3. QueueTypeOK'
    BY <1>6 DEF TypeOK, QueueTypeOK, NewWorker, queueVars, readerVars
  <2>4. 0 \in 0 .. MaxPackets
    BY PyAssumption
  <2>5. WorkerTypeOK'
    BY <1>6, <2>4 DEF TypeOK, QueueTypeOK, WorkerTypeOK, NewWorker
  <2> QED BY <2>2, <2>3, <2>5 DEF TypeOK
<1>7. CASE ShutdownQueue(t)
  <2>1. pc' \in [Callers -> Places]
    BY <1>7, GotoTypes DEF TypeOK, ShutdownQueue, Places
  <2>2. CallerTypeOK'
    BY <1>7, <2>1 DEF TypeOK, CallerTypeOK, ShutdownQueue, callVars
  <2>3. items' = items \/ items' = [items EXCEPT ![current] = << >>]
    BY <1>7 DEF ShutdownQueue
  <2>4. /\ items' \in [Queues -> Seq(1 .. MaxPackets)]
        /\ \A q \in Queues : Len(items'[q]) <= QueueSize
    <3>1. /\ << >> \in Seq(1 .. MaxPackets)
          /\ Len(<< >>) = 0 /\ 0 <= QueueSize
      BY EmptySeq, PyAssumption
    <3> QED BY <2>3, <3>1 DEF TypeOK, QueueTypeOK
  <2>5. QueueTypeOK'
    BY <1>7, <2>4 DEF TypeOK, QueueTypeOK, ShutdownQueue, readerVars
  <2>6. WorkerTypeOK'
    BY <1>7 DEF TypeOK, WorkerTypeOK, ShutdownQueue, workerVars
  <2> QED BY <2>2, <2>5, <2>6 DEF TypeOK
<1>8. CASE RequestQuit(t)
  <2>1. pc' \in [Callers -> Places]
    BY <1>8, GotoTypes DEF TypeOK, RequestQuit, Places
  <2>2. CallerTypeOK'
    BY <1>8, <2>1 DEF TypeOK, CallerTypeOK, RequestQuit, callVars
  <2>3. QueueTypeOK' /\ WorkerTypeOK'
    BY <1>8 DEF TypeOK, QueueTypeOK, WorkerTypeOK, RequestQuit, queueVars, readerVars, runVars
  <2> QED BY <2>2, <2>3 DEF TypeOK
<1>9. CASE JoinWorker(t)
  <2>1. pc' \in [Callers -> Places]
    BY <1>9, GotoTypes DEF TypeOK, JoinWorker, Places
  <2>2. CallerTypeOK'
    BY <1>9, <2>1 DEF TypeOK, CallerTypeOK, JoinWorker, callVars
  <2>3. QueueTypeOK' /\ WorkerTypeOK'
    BY <1>9 DEF TypeOK, QueueTypeOK, WorkerTypeOK, JoinWorker, queueVars, readerVars, runVars
  <2> QED BY <2>2, <2>3 DEF TypeOK
<1>10. CASE Unlock(t)
  <2>1. pc' \in [Callers -> Places]
    BY <1>10, GotoTypes DEF TypeOK, Unlock, Places
  <2> QED BY <1>10, <2>1, DataKept DEF TypeOK, CallerTypeOK, Unlock, callVars
<1>11. CASE Return(t)
  <2>1. pc' \in [Callers -> Places]
    BY <1>11, GotoTypes DEF TypeOK, Return, Places
  <2> QED BY <1>11, <2>1, DataKept DEF TypeOK, CallerTypeOK, Return, callVars
<1> QED BY <1>1, <1>2, <1>3, <1>4, <1>5, <1>6, <1>7, <1>8, <1>9, <1>10, <1>11 DEF Method

\* The steps of the reading thread.
WorkerStep == CheckQuit \/ ReadReturns \/ Put \/ Finished \/ ClearRunning

\* What they leave alone, except for the packets in the queues.
LEMMA CallersKept ==
    ASSUME CallerTypeOK, NEW from, NEW to, WorkerGoes(from, to)
    PROVE  CallerTypeOK'
BY DEF CallerTypeOK, WorkerGoes, callVars

LEMMA WorkerTypes ==
    ASSUME TypeOK, PyInv, WorkerStep
    PROVE  TypeOK'
<1>1. CASE ReadPacket
  BY <1>1, CallersKept, PyAssumption DEF TypeOK, QueueTypeOK, WorkerTypeOK, ReadPacket, WorkerGoes,
                                         queueVars, readerVars, runVars
<1>2. CASE CheckQuit \/ ReadTimeout
  BY <1>2, CallersKept DEF TypeOK, QueueTypeOK, WorkerTypeOK, CheckQuit, ReadTimeout, WorkerGoes,
                           queueVars, readerVars, runVars
<1>3. CASE SourceEnds
  BY <1>3, CallersKept DEF TypeOK, QueueTypeOK, WorkerTypeOK, SourceEnds, WorkerGoes, queueVars, readerVars, runVars
<1>4. CASE PutItem
  <2>1. /\ tap \in Queues
        /\ packets \in 1 .. MaxPackets
    BY <1>4, PyAssumption DEF TypeOK, WorkerTypeOK, PyInv, StartInv, TapInv, HasWorker, PutItem, WorkerGoes
  <2>2. /\ items[tap] \in Seq(1 .. MaxPackets)
        /\ Len(items[tap]) < QueueSize
    BY <1>4, <2>1, PyAssumption DEF TypeOK, QueueTypeOK, PutItem, IsFull
  <2>3. /\ Append(items[tap], packets) \in Seq(1 .. MaxPackets)
        /\ Len(Append(items[tap], packets)) <= QueueSize
    BY <2>1, <2>2, AppendProperties, PyAssumption
  <2>4. QueueTypeOK'
    BY <1>4, <2>1, <2>3 DEF TypeOK, QueueTypeOK, PutItem, WorkerGoes, readerVars
  <2> QED BY <1>4, <2>4, CallersKept DEF TypeOK, WorkerTypeOK, PutItem, WorkerGoes, runVars
<1>5. CASE PutFull
  <2>1. dropped + 1 \in 0 .. MaxPackets
    BY <1>5, PyAssumption DEF TypeOK, WorkerTypeOK, PyInv, TapInv, Underway, PutFull, WorkerGoes
  <2> QED BY <1>5, <2>1, CallersKept DEF TypeOK, QueueTypeOK, WorkerTypeOK, PutFull, WorkerGoes,
                                         queueVars, readerVars, runVars
<1>6. CASE PutShutDown
  BY <1>6, CallersKept DEF TypeOK, QueueTypeOK, WorkerTypeOK, PutShutDown, WorkerGoes, queueVars, readerVars, runVars
<1>7. CASE PutThrows
  BY <1>7, CallersKept DEF TypeOK, QueueTypeOK, WorkerTypeOK, PutThrows, WorkerGoes, queueVars, readerVars, runVars
<1>8. CASE Finished
  <2>1. tap \in Queues
    BY <1>8 DEF TypeOK, WorkerTypeOK, PyInv, StartInv, HasWorker, Finished, WorkerGoes
  <2> QED BY <1>8, <2>1, CallersKept DEF TypeOK, QueueTypeOK, WorkerTypeOK, Finished, WorkerGoes, readerVars, runVars
<1>9. CASE ClearRunning
  BY <1>9, CallersKept DEF TypeOK, QueueTypeOK, WorkerTypeOK, ClearRunning, WorkerGoes, queueVars, readerVars, runVars
<1> QED BY <1>1, <1>2, <1>3, <1>4, <1>5, <1>6, <1>7, <1>8, <1>9 DEF WorkerStep, ReadReturns, Put

\* The steps of the reader.
ReaderStep == BeginGet \/ GetReturns

LEMMA ReaderKept ==
    ASSUME CallerTypeOK, WorkerTypeOK, NEW from, NEW to, ReaderGoes(from, to)
    PROVE  CallerTypeOK' /\ WorkerTypeOK'
BY DEF CallerTypeOK, WorkerTypeOK, ReaderGoes, callVars, workerVars, runVars

LEMMA ReaderTypes ==
    ASSUME TypeOK, ReaderStep
    PROVE  TypeOK'
<1>1. CASE BeginGet
  BY <1>1, ReaderKept DEF TypeOK, QueueTypeOK, BeginGet, ReaderGoes
<1>2. CASE GetItem
  <2>1. /\ rq \in Queues
        /\ items[rq] \in Seq(1 .. MaxPackets) /\ items[rq] # << >>
        /\ got[rq] \in Seq(1 .. MaxPackets)
        /\ Len(items[rq]) <= QueueSize
    BY <1>2 DEF TypeOK, QueueTypeOK, GetItem
  <2>2. /\ Head(items[rq]) \in 1 .. MaxPackets
        /\ Tail(items[rq]) \in Seq(1 .. MaxPackets)
        /\ Len(Tail(items[rq])) <= QueueSize
    <3>1. /\ Head(items[rq]) \in 1 .. MaxPackets
          /\ Tail(items[rq]) \in Seq(1 .. MaxPackets)
          /\ Len(Tail(items[rq])) = Len(items[rq]) - 1
          /\ Len(items[rq]) \in Nat
      BY <2>1, HeadTailProperties, LenProperties
    <3> QED BY <2>1, <3>1, PyAssumption
  <2>3. Append(got[rq], Head(items[rq])) \in Seq(1 .. MaxPackets)
    BY <2>1, <2>2, AppendProperties
  <2>4. QueueTypeOK'
    BY <1>2, <2>1, <2>2, <2>3 DEF TypeOK, QueueTypeOK, GetItem, ReaderGoes
  <2> QED BY <1>2, <2>4, ReaderKept DEF TypeOK, GetItem
<1>3. CASE GetShutDown
  BY <1>3, ReaderKept DEF TypeOK, QueueTypeOK, GetShutDown, ReaderGoes
<1> QED BY <1>1, <1>2, <1>3 DEF ReaderStep, GetReturns

LEMMA TypeStep ==
    ASSUME TypeOK, PyInv, [Next]_vars
    PROVE  TypeOK'
<1>1. CASE \E t \in Callers, m \in {"start", "stop", "getter"} : Call(t, m)
  <2> PICK t \in Callers, m \in {"start", "stop", "getter"} : Call(t, m)
    BY <1>1
  <2>1. pc' \in [Callers -> Places]
    BY GotoTypes DEF TypeOK, Call, Places
  <2>2. calls' \in 0 .. MaxCalls
    BY PyAssumption DEF TypeOK, CallerTypeOK, Call
  <2> QED BY <2>1, <2>2, DataKept DEF TypeOK, CallerTypeOK, Call
<1>2. CASE \E t \in Callers : Method(t)
  BY <1>2, MethodTypes
<1>3. CASE WorkerStep
  BY <1>3, WorkerTypes
<1>4. CASE ReaderStep
  BY <1>4, ReaderTypes
<1>5. CASE UNCHANGED vars
  BY <1>5, DataKept DEF TypeOK, CallerTypeOK, vars, callVars
<1> QED BY <1>1, <1>2, <1>3, <1>4, <1>5 DEF Next, WorkerStep, ReaderStep
-----------------------------------------------------------------------------
(* Who is where.                                                           *)

LEMMA GotoMoves ==
    ASSUME CallerTypeOK, NEW t \in Callers, NEW from, NEW to, Goto(t, from, to)
    PROVE  /\ pc[t] = from /\ pc'[t] = to
           /\ \A u \in Callers \ {t} : pc'[u] = pc[u]
BY DEF CallerTypeOK, Goto

LEMMA OneInMutex ==
    ASSUME LockInv, NEW t \in Callers, NEW u \in Callers, pc[t] \in InMutex, pc[u] \in InMutex
    PROVE  t = u
BY DEF LockInv

LEMMA LockKept ==
    ASSUME CallerTypeOK, LockInv, NEW t \in Callers, NEW from, NEW to, Goto(t, from, to),
           from \in InMutex <=> to \in InMutex, mutex' = mutex
    PROVE  LockInv'
BY GotoMoves DEF LockInv

LEMMA LockStep ==
    ASSUME TypeOK, LockInv, [Next]_vars
    PROVE  LockInv'
<1> USE DEF TypeOK
<1>1. CASE \E t \in Callers, m \in {"start", "stop", "getter"} : Call(t, m)
  <2> PICK t \in Callers, m \in {"start", "stop", "getter"} : Call(t, m)
    BY <1>1
  <2> QED BY LockKept DEF Call, InMutex
<1>2. CASE \E t \in Callers : Method(t)
  <2> PICK t \in Callers : Method(t)
    BY <1>2
  <2>1. CASE ReleaseGil(t)
    BY <2>1, LockKept DEF ReleaseGil, InMutex
  <2>2. CASE Lock(t)
    <3>1. /\ mutex = None /\ mutex' = t
          /\ pc[t] = "lock" /\ pc'[t] = method[t]
          /\ \A u \in Callers \ {t} : pc'[u] = pc[u]
      BY <2>2, GotoMoves DEF Lock
    <3>2. method[t] \in InMutex
      BY DEF CallerTypeOK, InMutex
    <3> QED BY <3>1, <3>2, PyAssumption DEF LockInv
  <2>3. CASE NothingToDo(t)
    BY <2>3, LockKept DEF NothingToDo, InMutex
  <2>4. CASE AcquireGil(t)
    BY <2>4, LockKept DEF AcquireGil, InMutex
  <2>5. CASE ReplaceQueue(t)
    BY <2>5, LockKept DEF ReplaceQueue, InMutex
  <2>6. CASE NewWorker(t)
    BY <2>6, LockKept DEF NewWorker, InMutex
  <2>7. CASE ShutdownQueue(t)
    BY <2>7, LockKept DEF ShutdownQueue, InMutex
  <2>8. CASE RequestQuit(t)
    BY <2>8, LockKept DEF RequestQuit, InMutex
  <2>9. CASE JoinWorker(t)
    BY <2>9, LockKept DEF JoinWorker, InMutex
  <2>10. CASE Unlock(t)
    <3>1. /\ mutex' = None
          /\ pc[t] = "unlock" /\ pc'[t] = "return"
          /\ \A u \in Callers \ {t} : pc'[u] = pc[u]
      BY <2>10, GotoMoves DEF Unlock
    <3>2. mutex = t
      BY <3>1 DEF LockInv, InMutex
    <3> QED BY <3>1, <3>2, PyAssumption DEF LockInv, InMutex
  <2>11. CASE Return(t)
    BY <2>11, LockKept DEF Return, InMutex
  <2> QED BY <2>1, <2>2, <2>3, <2>4, <2>5, <2>6, <2>7, <2>8, <2>9, <2>10, <2>11 DEF Method
<1>3. CASE WorkerStep
  BY <1>3 DEF LockInv, WorkerStep, CheckQuit, ReadReturns, ReadPacket, ReadTimeout, SourceEnds, Put,
              PutItem, PutFull, PutShutDown, PutThrows, Finished, ClearRunning, WorkerGoes
<1>4. CASE ReaderStep
  BY <1>4 DEF LockInv, ReaderStep, GetReturns, BeginGet, GetItem, GetShutDown, ReaderGoes
<1>5. CASE UNCHANGED vars
  BY <1>5 DEF LockInv, vars
<1> QED BY <1>1, <1>2, <1>3, <1>4, <1>5 DEF Next, WorkerStep, ReaderStep
-----------------------------------------------------------------------------
(* Queues and workers.                                                     *)

LEMMA StartKept ==
    ASSUME CallerTypeOK, PyInv, NEW t \in Callers, NEW from, NEW to, Goto(t, from, to),
           to \notin {"replace", "join", "shutdown"}, UNCHANGED dataVars
    PROVE  StartInv' /\ FreshInv' /\ TapInv'
<1>1. \A u \in Callers : pc'[u] \in {"replace", "join", "shutdown"} => pc'[u] = pc[u]
  BY GotoMoves
<1>2. StartInv'
  BY <1>1 DEF PyInv, StartInv, HasWorker, ThreadIsOver, dataVars, workerVars, runVars
<1>3. FreshInv'
  BY <1>1 DEF PyInv, FreshInv, IsFresh, dataVars, queueVars, readerVars
<1>4. TapInv'
  BY DEF PyInv, TapInv, HasWorker, Delivered, Underway, IsOrdered, IsBelow,
         dataVars, queueVars, readerVars, workerVars, runVars
<1> QED BY <1>2, <1>3, <1>4

\* The steps of the methods that change nothing but where the caller is.
LEMMA QuietSteps ==
    ASSUME TypeOK, PyInv, NEW t \in Callers,
           \/ \E m \in {"start", "stop", "getter"} : Call(t, m)
           \/ ReleaseGil(t) \/ Lock(t) \/ NothingToDo(t) \/ Unlock(t) \/ Return(t)
    PROVE  StartInv' /\ FreshInv' /\ TapInv'
<1> USE DEF TypeOK
<1>1. ASSUME NEW m \in {"start", "stop", "getter"}, Call(t, m)
      PROVE  StartInv' /\ FreshInv' /\ TapInv'
  BY <1>1, StartKept DEF Call
<1>2. CASE ReleaseGil(t)
  BY <1>2, StartKept DEF ReleaseGil
<1>3. CASE Lock(t)
  <2>1. method[t] \notin {"replace", "join", "shutdown"}
    BY DEF CallerTypeOK
  <2> QED BY <1>3, <2>1, StartKept DEF Lock
<1>4. CASE NothingToDo(t)
  BY <1>4, StartKept DEF NothingToDo
<1>5. CASE Unlock(t)
  BY <1>5, StartKept DEF Unlock
<1>6. CASE Return(t)
  BY <1>6, StartKept DEF Return
<1> QED BY <1>1, <1>2, <1>3, <1>4, <1>5, <1>6

LEMMA StartMethodStep ==
    ASSUME TypeOK, PyInv, NEW t \in Callers, Method(t)
    PROVE  StartInv' /\ FreshInv'
<1> USE DEF TypeOK
<1>1. CASE ReleaseGil(t) \/ Lock(t) \/ NothingToDo(t) \/ Unlock(t) \/ Return(t)
  BY <1>1, QuietSteps
<1>2. CASE AcquireGil(t)
  <2>1. \/ /\ ~running /\ (used => current < MaxRuns)
           /\ pc'[t] = "replace"
           /\ \A u \in Callers \ {t} : pc'[u] = pc[u]
        \/ /\ HasWorker
           /\ pc'[t] = "shutdown"
           /\ \A u \in Callers \ {t} : pc'[u] = pc[u]
    BY <1>2, GotoMoves DEF AcquireGil
  <2>2. StartInv'
    BY <1>2, <2>1 DEF AcquireGil, PyInv, StartInv, HasWorker, ThreadIsOver, dataVars, workerVars, runVars
  <2>3. FreshInv'
    BY <1>2, <2>1 DEF AcquireGil, PyInv, FreshInv, IsFresh, dataVars, queueVars, readerVars
  <2> QED BY <2>2, <2>3
<1>3. CASE ReplaceQueue(t)
  <2>1. /\ pc[t] = "replace" /\ pc'[t] = "join"
        /\ \A u \in Callers \ {t} : pc'[u] = pc[u] /\ pc[u] \notin InMutex
    BY <1>3, GotoMoves, OneInMutex DEF ReplaceQueue, PyInv, InMutex
  <2>2. /\ current \in Nat /\ current' \in Nat /\ current <= current'
        /\ current' \in Queues
        /\ used => current < current'
    BY <1>3, <2>1, PyAssumption DEF QueueTypeOK, PyInv, StartInv, ReplaceQueue, Queues
  <2>3. StartInv'
    <3>1. tap \in Nat
      BY DEF WorkerTypeOK, Queues
    <3>2. HasWorker => tap <= current'
      BY <2>2, <3>1 DEF PyInv, StartInv
    <3> QED BY <1>3, <2>1, <3>2 DEF ReplaceQueue, PyInv, StartInv, HasWorker, ThreadIsOver, workerVars,
                                    runVars, InMutex
  <2>4. FreshInv'
    <3>1. /\ used' /\ items' = items /\ got' = got /\ shut' = shut
      BY <1>3 DEF ReplaceQueue, queueVars, readerVars
    <3>2. IsFresh(current')
      BY <1>3, <2>2 DEF ReplaceQueue, PyInv, FreshInv
    <3>3. \A q \in Queues : q > current' => IsFresh(q)
      BY <2>2 DEF PyInv, FreshInv, Queues
    <3> QED BY <3>1, <3>2, <3>3 DEF FreshInv, IsFresh
  <2> QED BY <2>3, <2>4
<1>4. CASE NewWorker(t)
  <2>1. /\ pc[t] = "join" /\ pc'[t] = "unlock"
        /\ \A u \in Callers \ {t} : pc'[u] = pc[u] /\ pc[u] \notin InMutex
    BY <1>4, GotoMoves, OneInMutex DEF NewWorker, PyInv, InMutex
  <2>2. used /\ current \in Nat /\ current # 0 /\ current <= current
    BY <2>1 DEF QueueTypeOK, Queues, PyInv, StartInv
  <2>3. StartInv'
    BY <1>4, <2>1, <2>2 DEF NewWorker, StartInv, HasWorker, ThreadIsOver, InMutex
  <2>4. FreshInv'
    BY <1>4, <2>1, <2>2 DEF NewWorker, PyInv, FreshInv, IsFresh, queueVars, readerVars, InMutex
  <2> QED BY <2>3, <2>4
<1>5. CASE ShutdownQueue(t)
  <2>1. /\ pc[t] = "shutdown" /\ pc'[t] = "quit"
        /\ \A u \in Callers \ {t} : pc'[u] = pc[u] /\ pc[u] \notin InMutex
    BY <1>5, GotoMoves, OneInMutex DEF ShutdownQueue, PyInv, InMutex
  <2>2. used
    BY <2>1 DEF PyInv, StartInv
  <2>3. StartInv'
    BY <1>5, <2>1 DEF ShutdownQueue, PyInv, StartInv, HasWorker, ThreadIsOver, workerVars, InMutex
  <2>4. \A q \in Queues : q > current => IsFresh(q)'
    <3> SUFFICES ASSUME NEW q \in Queues, q > current
                 PROVE  IsFresh(q)'
      OBVIOUS
    <3>1. q # current
      BY DEF QueueTypeOK, Queues
    <3>2. items'[q] = items[q] /\ got' = got /\ shut' = shut \cup {current}
      BY <1>5, <3>1 DEF QueueTypeOK, ShutdownQueue, readerVars
    <3> QED BY <3>1, <3>2 DEF PyInv, FreshInv, IsFresh
  <2>5. current' = current /\ used' = used
    BY <1>5 DEF ShutdownQueue
  <2> QED BY <2>1, <2>2, <2>3, <2>4, <2>5 DEF FreshInv, InMutex
<1>6. CASE RequestQuit(t) \/ JoinWorker(t)
  <2>1. \A u \in Callers : pc'[u] \in {"replace", "join", "shutdown"} => pc'[u] = pc[u]
    BY <1>6, GotoMoves DEF RequestQuit, JoinWorker
  <2>2. StartInv'
    BY <1>6, <2>1 DEF RequestQuit, JoinWorker, PyInv, StartInv, HasWorker, ThreadIsOver, runVars
  <2>3. FreshInv'
    BY <1>6, <2>1 DEF RequestQuit, JoinWorker, PyInv, FreshInv, IsFresh, queueVars, readerVars
  <2> QED BY <2>2, <2>3
<1> QED BY <1>1, <1>2, <1>3, <1>4, <1>5, <1>6 DEF Method

LEMMA StartWorkerStep ==
    ASSUME TypeOK, PyInv, WorkerStep
    PROVE  StartInv' /\ FreshInv'
<1>1. StartInv'
  BY DEF PyInv, StartInv, WorkerStep, CheckQuit, ReadReturns, ReadPacket, ReadTimeout, SourceEnds, Put,
         PutItem, PutFull, PutShutDown, PutThrows, Finished, ClearRunning, WorkerGoes, HasWorker,
         ThreadIsOver, runVars
<1>2. /\ wpc \in {"check", "read", "put", "finish", "clear"}
      /\ pc' = pc /\ current' = current /\ used' = used /\ got' = got
      /\ \A q \in Queues : q # tap => items'[q] = items[q]
      /\ shut' \subseteq shut \cup {tap}
  BY DEF TypeOK, QueueTypeOK, WorkerStep, CheckQuit, ReadReturns, ReadPacket, ReadTimeout, SourceEnds,
         Put, PutItem, PutFull, PutShutDown, PutThrows, Finished, ClearRunning, WorkerGoes, queueVars,
         readerVars
<1>3. tap = current /\ used /\ \A t \in Callers : pc[t] # "join"
  BY <1>2 DEF PyInv, StartInv, ThreadIsOver, HasWorker
<1>4. \A q \in Queues : q > current => IsFresh(q)'
  <2> SUFFICES ASSUME NEW q \in Queues, q > current
               PROVE  IsFresh(q)'
    OBVIOUS
  <2>1. q # tap
    BY <1>3 DEF TypeOK, QueueTypeOK, Queues
  <2> QED BY <1>2, <2>1 DEF PyInv, FreshInv, IsFresh
<1> QED BY <1>1, <1>2, <1>3, <1>4 DEF FreshInv

LEMMA StartReaderStep ==
    ASSUME TypeOK, PyInv, ReaderStep
    PROVE  StartInv' /\ FreshInv'
<1>1. /\ pc' = pc /\ current' = current /\ used' = used /\ shut' = shut
      /\ UNCHANGED <<workerVars, runVars>>
  BY DEF ReaderStep, GetReturns, BeginGet, GetItem, GetShutDown, ReaderGoes
<1>2. StartInv'
  BY <1>1 DEF PyInv, StartInv, HasWorker, ThreadIsOver, workerVars, runVars
<1>3. \A q \in Queues : IsFresh(q) => IsFresh(q)'
  <2>1. CASE BeginGet \/ GetShutDown
    BY <1>1, <2>1 DEF IsFresh, BeginGet, GetShutDown
  <2>2. CASE GetItem
    BY <1>1, <2>2 DEF TypeOK, QueueTypeOK, IsFresh, GetItem
  <2> QED BY <2>1, <2>2 DEF ReaderStep, GetReturns
<1>4. FreshInv'
  BY <1>1, <1>3 DEF TypeOK, QueueTypeOK, PyInv, FreshInv
<1> QED BY <1>2, <1>4
-----------------------------------------------------------------------------
(* What the queue of the run holds.                                        *)

\* Steps that touch no queue, and leave the worker where it is as far as the tap
\* is concerned.
LEMMA TapKept ==
    ASSUME PyInv, UNCHANGED <<blocking, queueVars, got, exception, shutDown, packets, dropped, runVars>>,
           wpc' \in {"check", "read", "put"} => wpc \in {"check", "read", "put"},
           wpc' = "put" <=> wpc = "put"
    PROVE  TapInv'
<1>1. Delivered' = Delivered /\ (HasWorker' <=> HasWorker) /\ Underway' = Underway
  BY DEF Delivered, HasWorker, Underway, queueVars, runVars
<1>2. IsOrdered(Delivered)' <=> IsOrdered(Delivered)
  BY <1>1 DEF IsOrdered
<1>3. IsBelow(Delivered, packets - Underway)' <=> IsBelow(Delivered, packets - Underway)
  BY <1>1 DEF IsBelow
<1> QED BY <1>1, <1>2, <1>3 DEF PyInv, TapInv, queueVars, runVars

LEMMA NatPrefix ==
    ASSUME NEW m \in Nat, NEW n \in Nat
    PROVE  m <= m + n /\ \A i \in 1 .. m : i \in 1 .. m + n /\ i <= m
OBVIOUS

\* A sequence starts like its first part.
LEMMA ConcatPrefix ==
    ASSUME NEW S, NEW s \in Seq(S), NEW u \in Seq(S)
    PROVE  /\ Len(s) <= Len(s \o u)
           /\ \A i \in 1 .. Len(s) : (s \o u)[i] = s[i]
<1>1. Len(s) \in Nat /\ Len(u) \in Nat
  BY LenProperties
<1>2. /\ Len(s) <= Len(s) + Len(u)
      /\ \A i \in 1 .. Len(s) : i \in 1 .. Len(s) + Len(u) /\ i <= Len(s)
  BY <1>1, NatPrefix
<1>3. /\ Len(s \o u) = Len(s) + Len(u)
      /\ \A i \in 1 .. Len(s) + Len(u) :
           (s \o u)[i] = IF i <= Len(s) THEN s[i] ELSE u[i - Len(s)]
  BY ConcatProperties
<1> QED BY <1>2, <1>3

\* What is put into the queue comes after everything that was delivered.
LEMMA AppendConcat ==
    ASSUME NEW S, NEW s \in Seq(S), NEW u \in Seq(S), NEW e \in S
    PROVE  s \o Append(u, e) = Append(s \o u, e)
<1>1. /\ Append(u, e) = u \o << e >>
      /\ Append(s \o u, e) = (s \o u) \o << e >>
      /\ << e >> \in Seq(S)
  BY AppendIsConcat, ConcatProperties, AppendProperties
<1> QED BY <1>1, ConcatAssociative

\* get() moves a packet and changes nothing of the whole.
LEMMA HeadMoves ==
    ASSUME NEW S, NEW s \in Seq(S), NEW u \in Seq(S), u # << >>
    PROVE  Append(s, Head(u)) \o Tail(u) = s \o u
<1>1. Head(u) \in S /\ Tail(u) \in Seq(S) /\ << Head(u) >> \in Seq(S)
  BY HeadTailProperties
<1>2. Append(s, Head(u)) = s \o << Head(u) >>
  BY <1>1, AppendIsConcat
<1>3. u = << Head(u) >> \o Tail(u)
  BY <1>1
<1> QED BY <1>1, <1>2, <1>3, ConcatAssociative

LEMMA DeliveredType ==
    ASSUME TypeOK, PyInv, HasWorker
    PROVE  /\ tap \in Queues
           /\ got[tap] \in Seq(1 .. MaxPackets) /\ items[tap] \in Seq(1 .. MaxPackets)
           /\ Delivered \in Seq(1 .. MaxPackets)
           /\ Len(Delivered) = Len(got[tap]) + Len(items[tap])
<1>1. tap \in Queues
  BY DEF TypeOK, WorkerTypeOK, HasWorker
<1>2. got[tap] \in Seq(1 .. MaxPackets) /\ items[tap] \in Seq(1 .. MaxPackets)
  BY <1>1 DEF TypeOK, QueueTypeOK
<1> QED BY <1>1, <1>2, ConcatProperties DEF Delivered

LEMMA TapMethodStep ==
    ASSUME TypeOK, PyInv, NEW t \in Callers, Method(t)
    PROVE  TapInv'
<1>1. CASE ReleaseGil(t) \/ Lock(t) \/ NothingToDo(t) \/ Unlock(t) \/ Return(t)
  BY <1>1, QuietSteps
<1>2. CASE AcquireGil(t)
  BY <1>2, TapKept DEF AcquireGil, dataVars, readerVars, workerVars
<1>3. CASE ReplaceQueue(t)
  BY <1>3, TapKept DEF ReplaceQueue, readerVars, workerVars
<1>4. CASE NewWorker(t)
  <2>1. /\ IsFresh(current) /\ current \in Queues
    BY <1>4 DEF TypeOK, QueueTypeOK, NewWorker, Goto, PyInv, FreshInv
  <2>2. Delivered' = << >>
    BY <1>4, <2>1 DEF NewWorker, Delivered, IsFresh, queueVars, readerVars
  <2>3. tap' \notin shut'
    BY <1>4, <2>1 DEF NewWorker, IsFresh, queueVars
  <2>4. /\ packets' = 0 /\ dropped' = 0 /\ wpc' = "check" /\ ~shutDown' /\ Underway' = 0
    BY <1>4 DEF NewWorker, Underway
  <2>5. IsOrdered(Delivered)' /\ IsBelow(Delivered, packets - Underway)'
    BY <2>2 DEF IsOrdered, IsBelow
  <2>6. Len(Delivered') = 0
    BY <2>2
  <2> QED BY <2>3, <2>4, <2>5, <2>6 DEF TapInv
<1>5. CASE ShutdownQueue(t)
  <2>1. /\ UNCHANGED <<blocking, got, wpc, shutDown, packets, dropped, tap>>
        /\ stopped'
        /\ items' = items \/ items' = [items EXCEPT ![current] = << >>]
    BY <1>5 DEF ShutdownQueue, readerVars, workerVars
  <2>2. ASSUME HasWorker
        PROVE  IsOrdered(Delivered)' /\ IsBelow(Delivered, packets - Underway)'
    <3>1. /\ Delivered \in Seq(1 .. MaxPackets)
          /\ IsOrdered(Delivered) /\ IsBelow(Delivered, packets - Underway)
      BY <2>2, DeliveredType DEF PyInv, TapInv
    <3>2. packets' - Underway' = packets - Underway
      BY <2>1 DEF Underway
    <3>3. CASE Delivered' = Delivered
      BY <3>1, <3>2, <3>3 DEF IsOrdered, IsBelow
    <3>4. CASE Delivered' = got[tap]
      <4>1. /\ Len(got[tap]) \in Nat /\ Len(items[tap]) \in Nat
            /\ Len(got[tap]) <= Len(Delivered)
            /\ \A i \in 1 .. Len(got[tap]) : Delivered[i] = got[tap][i]
        <5>1. got[tap] \in Seq(1 .. MaxPackets) /\ items[tap] \in Seq(1 .. MaxPackets)
          BY <2>2, DeliveredType
        <5> QED BY <5>1, ConcatPrefix, LenProperties DEF Delivered
      <4> QED BY <3>1, <3>2, <3>4, <4>1 DEF IsOrdered, IsBelow
    <3>5. Delivered' = Delivered \/ Delivered' = got[tap]
      <4>1. /\ tap \in Queues
            /\ got[tap] \in Seq(1 .. MaxPackets) /\ items[tap] \in Seq(1 .. MaxPackets)
        BY <2>2, DeliveredType
      <4>2. items'[tap] = items[tap] \/ items'[tap] = << >>
        BY <2>1, <4>1 DEF TypeOK, QueueTypeOK
      <4>3. got[tap] \o << >> = got[tap]
        BY <4>1, ConcatEmptySeq
      <4> QED BY <2>1, <4>2, <4>3 DEF Delivered
    <3> QED BY <3>3, <3>4, <3>5
  <2>3. (HasWorker' <=> HasWorker) /\ Underway' = Underway
    BY <2>1 DEF HasWorker, Underway
  <2> QED BY <2>1, <2>2, <2>3 DEF PyInv, TapInv
<1>6. CASE RequestQuit(t)
  BY <1>6, TapKept DEF RequestQuit, readerVars
<1>7. CASE JoinWorker(t)
  BY <1>7, TapKept DEF JoinWorker, ThreadIsOver, readerVars
<1> QED BY <1>1, <1>2, <1>3, <1>4, <1>5, <1>6, <1>7 DEF Method

\* Arithmetic of the packets on their way.
LEMMA MoreIsBelow ==
    ASSUME NEW p \in Nat, NEW u \in Nat, NEW q \in Nat, NEW v \in Nat, p - u <= q - v,
           NEW n \in Nat, n <= p - u
    PROVE  n <= q - v
OBVIOUS

LEMMA OneMoreUnderway ==
    ASSUME NEW p \in Nat, NEW d \in Nat, NEW v \in 0 .. 1, d <= p
    PROVE  v \in Nat /\ p - 0 <= (p + 1) - v /\ d + v <= p + 1
OBVIOUS

\* Steps of the worker that touch no packet in a queue.
LEMMA DeliveredKept ==
    ASSUME TypeOK, PyInv, HasWorker, UNCHANGED <<items, got, runVars>>,
           packets' \in Nat, Underway' \in Nat, packets - Underway <= packets' - Underway'
    PROVE  /\ HasWorker' /\ Len(Delivered') = Len(Delivered)
           /\ IsOrdered(Delivered)'
           /\ IsBelow(Delivered, packets - Underway)'
<1>1. HasWorker' /\ Delivered' = Delivered
  BY DEF HasWorker, Delivered, runVars
<1>2. IsOrdered(Delivered)'
  BY <1>1 DEF PyInv, TapInv, IsOrdered
<1>3. \A i \in 1 .. Len(Delivered) : Delivered[i] \in Nat /\ Delivered[i] <= packets - Underway
  <2>1. Delivered \in Seq(1 .. MaxPackets)
    BY DeliveredType
  <2>2. \A i \in 1 .. Len(Delivered) : Delivered[i] \in 1 .. MaxPackets
    BY <2>1, ElementOfSeq
  <2> QED BY <2>1, <2>2, PyAssumption DEF PyInv, TapInv, IsBelow
<1>4. packets \in Nat /\ Underway \in Nat
  BY PyAssumption DEF TypeOK, WorkerTypeOK, Underway
<1>5. ASSUME NEW n \in Nat, n <= packets - Underway
      PROVE  n <= packets' - Underway'
  BY <1>4, <1>5, MoreIsBelow
<1>6. IsBelow(Delivered, packets - Underway)'
  BY <1>1, <1>3, <1>5 DEF IsBelow
<1> QED BY <1>1, <1>2, <1>6

LEMMA TapPutItem ==
    ASSUME TypeOK, PyInv, PutItem
    PROVE  TapInv'
<1>1. /\ HasWorker /\ wpc = "put" /\ wpc' = "check"
      /\ UNCHANGED <<blocking, got, tap, stopped, shut, exception, shutDown, packets, dropped>>
      /\ items' = [items EXCEPT ![tap] = Append(@, packets)]
  BY DEF PutItem, WorkerGoes, PyInv, StartInv, readerVars, runVars
<1>2. /\ tap \in Queues
      /\ got[tap] \in Seq(1 .. MaxPackets) /\ items[tap] \in Seq(1 .. MaxPackets)
      /\ Delivered \in Seq(1 .. MaxPackets)
  BY <1>1, DeliveredType
<1>3. Underway = 1 /\ Underway' = 0 /\ packets \in 1 .. MaxPackets
  BY <1>1, PyAssumption DEF Underway, TypeOK, WorkerTypeOK, PyInv, TapInv
<1>4. Delivered' = Append(Delivered, packets)
  <2>1. items'[tap] = Append(items[tap], packets)
    BY <1>1, <1>2 DEF TypeOK, QueueTypeOK
  <2>2. ASSUME NEW s \in Seq(1 .. MaxPackets), NEW u \in Seq(1 .. MaxPackets)
        PROVE  s \o Append(u, packets) = Append(s \o u, packets)
    BY <1>3, AppendConcat
  <2>3. got[tap] \o Append(items[tap], packets) = Append(got[tap] \o items[tap], packets)
    BY <1>2, <2>2
  <2>4. got'[tap'] \o items'[tap'] = got[tap] \o Append(items[tap], packets)
    BY <1>1, <2>1
  <2> QED BY <2>3, <2>4 DEF Delivered
<1>5. /\ Len(Delivered) \in Nat
      /\ Len(Delivered') = Len(Delivered) + 1
      /\ \A i \in 1 .. Len(Delivered) : Delivered'[i] = Delivered[i]
      /\ Delivered'[Len(Delivered) + 1] = packets
  BY <1>2, <1>3, <1>4, AppendProperties, LenProperties
<1>6. /\ IsOrdered(Delivered)
      /\ \A i \in 1 .. Len(Delivered) : Delivered[i] \in Nat /\ Delivered[i] < packets
  <2>1. \A i \in 1 .. Len(Delivered) : Delivered[i] \in 1 .. MaxPackets
    BY <1>2, ElementOfSeq
  <2>2. \A i \in 1 .. Len(Delivered) : Delivered[i] <= packets - 1
    BY <1>1, <1>3 DEF PyInv, TapInv, IsBelow
  <2>3. IsOrdered(Delivered)
    BY <1>1 DEF PyInv, TapInv
  <2> QED BY <1>3, <2>1, <2>2, <2>3, PyAssumption
<1>7. IsOrdered(Delivered)'
  <2> DEFINE old == Delivered
             new == Delivered'
  <2>0. /\ Len(old) \in Nat /\ Len(new) = Len(old) + 1 /\ new[Len(old) + 1] = packets
        /\ \A i \in 1 .. Len(old) : new[i] = old[i] /\ old[i] < packets
        /\ IsOrdered(old)
    BY <1>5, <1>6
  <2> HIDE DEF old, new
  <2>1. ASSUME NEW i \in 1 .. Len(new), NEW j \in 1 .. Len(new), i < j
        PROVE  new[i] < new[j]
    <3>1. i \in 1 .. Len(old)
      BY <2>0, <2>1
    <3>2. CASE j \in 1 .. Len(old)
      BY <2>0, <2>1, <3>1, <3>2 DEF IsOrdered
    <3>3. CASE j = Len(old) + 1
      BY <2>0, <3>1, <3>3
    <3> QED BY <2>0, <3>2, <3>3
  <2>2. \A i, j \in 1 .. Len(new) : i < j => new[i] < new[j]
    BY <2>1
  <2> QED BY <2>2 DEF IsOrdered, new
<1>8. IsBelow(Delivered, packets - Underway)'
  BY <1>1, <1>3, <1>5, <1>6 DEF IsBelow
<1>9. dropped' + Underway' <= packets'
  BY <1>1, <1>3, PyAssumption DEF PyInv, TapInv, TypeOK, WorkerTypeOK
<1>10. ~stopped' /\ ~exception' => Len(Delivered') + dropped' + Underway' = packets'
  <2> SUFFICES ASSUME ~stopped, ~exception
               PROVE  Len(Delivered') + dropped' + Underway' = packets'
    BY <1>1
  <2>1. Len(Delivered) + dropped + Underway = packets
    BY <1>1 DEF PyInv, TapInv
  <2> QED BY <1>1, <1>3, <1>5, <2>1 DEF TypeOK, WorkerTypeOK
<1> QED BY <1>1, <1>7, <1>8, <1>9, <1>10 DEF PyInv, TapInv

LEMMA TapWorkerStep ==
    ASSUME TypeOK, PyInv, WorkerStep
    PROVE  TapInv'
<1>1. /\ HasWorker
      /\ UNCHANGED <<blocking, got, runVars>>
  BY DEF WorkerStep, CheckQuit, ReadReturns, ReadPacket, ReadTimeout, SourceEnds, Put, PutItem, PutFull,
         PutShutDown, PutThrows, Finished, ClearRunning, WorkerGoes, PyInv, StartInv, readerVars
<1>2. /\ packets \in Nat /\ dropped \in Nat /\ Underway \in 0 .. 1 /\ Underway' \in 0 .. 1
      /\ Len(Delivered) \in Nat
      /\ dropped + Underway <= packets
  <2>1. packets \in Nat /\ dropped \in Nat /\ Underway \in 0 .. 1 /\ Underway' \in 0 .. 1
    BY PyAssumption DEF TypeOK, WorkerTypeOK, Underway
  <2>2. Len(Delivered) \in Nat
    BY <1>1, DeliveredType, LenProperties
  <2> QED BY <1>1, <2>1, <2>2 DEF PyInv, TapInv
<1>8. ~stopped /\ ~exception => Len(Delivered) + dropped + Underway = packets
  BY <1>1 DEF PyInv, TapInv
<1>3. CASE ReadPacket
  <2>0. packets' = packets + 1 /\ Underway = 0 /\ dropped' = dropped
    BY <1>3 DEF ReadPacket, WorkerGoes, Underway
  <2>1. /\ items' = items /\ shut' = shut
        /\ UNCHANGED <<exception, shutDown, dropped>>
        /\ wpc = "read" /\ wpc' \in {"check", "put"}
        /\ ~shutDown => Underway' = 1
    BY <1>3 DEF ReadPacket, WorkerGoes, Underway, queueVars
  <2>2. /\ packets' \in Nat /\ packets' > 0
        /\ Underway' \in Nat /\ packets - Underway <= packets' - Underway'
        /\ dropped' + Underway' <= packets'
    <3>1. dropped <= packets
      BY <1>2, <2>0
    <3>2. packets' \in Nat /\ packets' > 0
      BY <1>2, <2>0
    <3> QED BY <1>2, <2>0, <3>1, <3>2, OneMoreUnderway
  <2>3. /\ HasWorker' /\ Len(Delivered') = Len(Delivered)
        /\ IsOrdered(Delivered)'
        /\ IsBelow(Delivered, packets - Underway)'
    BY <1>1, <2>1, <2>2, DeliveredKept
  <2>5. ASSUME ~stopped, ~exception
        PROVE  Len(Delivered') + dropped' + Underway' = packets'
    <3>1. Underway' = 1
      BY <2>1, <2>5 DEF PyInv, TapInv
    <3>2. Len(Delivered) + dropped + Underway = packets /\ Len(Delivered') = Len(Delivered)
      BY <1>8, <2>3, <2>5
    <3> QED BY <1>2, <2>0, <3>1, <3>2
  <2> QED BY <1>1, <2>0, <2>1, <2>2, <2>3, <2>5 DEF PyInv, TapInv, runVars
<1>4. CASE CheckQuit \/ ReadTimeout \/ ClearRunning
  BY <1>1, <1>4, TapKept DEF CheckQuit, ReadTimeout, ClearRunning, WorkerGoes
<1>5. CASE PutItem
  BY <1>5, TapPutItem
<1>6. CASE PutFull
  <2>0. dropped' = dropped + 1 /\ packets' = packets /\ Underway = 1 /\ Underway' = 0
    BY <1>6 DEF PutFull, WorkerGoes, Underway
  <2>1. /\ ~blocking
        /\ UNCHANGED <<items, shut, exception, shutDown>>
        /\ wpc = "put" /\ wpc' = "check"
    BY <1>6 DEF PutFull, WorkerGoes, Underway, queueVars
  <2>2. packets' \in Nat /\ Underway' \in Nat /\ packets - Underway <= packets' - Underway'
    BY <1>2, <2>0
  <2>3. /\ HasWorker' /\ Len(Delivered') = Len(Delivered)
        /\ IsOrdered(Delivered)'
        /\ IsBelow(Delivered, packets - Underway)'
    BY <1>1, <2>1, <2>2, DeliveredKept
  <2>4. dropped' + Underway' <= packets'
    BY <1>2, <2>0
  <2>5. ASSUME ~stopped, ~exception
        PROVE  Len(Delivered') + dropped' + Underway' = packets'
    <3>1. Len(Delivered) + dropped + Underway = packets /\ Len(Delivered') = Len(Delivered)
      BY <1>8, <2>3, <2>5
    <3> QED BY <1>2, <2>0, <3>1
  <2> QED BY <1>1, <2>0, <2>1, <2>3, <2>4, <2>5 DEF PyInv, TapInv, runVars
<1>7. CASE SourceEnds \/ PutShutDown \/ PutThrows \/ Finished
  <2>0. packets' = packets /\ dropped' = dropped /\ Underway' = 0
    BY <1>7 DEF SourceEnds, PutShutDown, PutThrows, Finished, WorkerGoes, Underway
  <2>1. /\ items' = items
        /\ wpc' # "put"
        /\ exception => exception'
        /\ Underway = 0 \/ exception' \/ shutDown'
    BY <1>7 DEF SourceEnds, PutShutDown, PutThrows, Finished, WorkerGoes, Underway, queueVars
  <2>2. packets' \in Nat /\ Underway' \in Nat /\ packets - Underway <= packets' - Underway'
    BY <1>2, <2>0
  <2>3. /\ HasWorker' /\ Len(Delivered') = Len(Delivered)
        /\ IsOrdered(Delivered)'
        /\ IsBelow(Delivered, packets - Underway)'
    BY <1>1, <2>1, <2>2, DeliveredKept
  <2>4. /\ shutDown' => stopped'
        /\ wpc' \in {"check", "read", "put"} /\ tap' \in shut' => stopped'
    BY <1>1, <1>7 DEF SourceEnds, PutShutDown, PutThrows, Finished, WorkerGoes, PyInv, TapInv,
                      queueVars, runVars
  <2>5. dropped' + Underway' <= packets'
    BY <1>2, <2>0
  <2>6. ASSUME ~stopped', ~exception'
        PROVE  Len(Delivered') + dropped' + Underway' = packets'
    <3>1. ~stopped /\ ~exception /\ Underway = 0
      BY <1>1, <2>1, <2>4, <2>6 DEF runVars
    <3>2. Len(Delivered) + dropped + Underway = packets /\ Len(Delivered') = Len(Delivered)
      BY <1>8, <2>3, <3>1
    <3> QED BY <1>2, <2>0, <3>1, <3>2
  <2> QED BY <1>1, <2>0, <2>1, <2>3, <2>4, <2>5, <2>6 DEF PyInv, TapInv
<1> QED BY <1>3, <1>4, <1>5, <1>6, <1>7 DEF WorkerStep, ReadReturns, Put

LEMMA TapReaderStep ==
    ASSUME TypeOK, PyInv, ReaderStep
    PROVE  TapInv'
<1>1. CASE BeginGet \/ GetShutDown
  BY <1>1, TapKept DEF BeginGet, GetShutDown, ReaderGoes, workerVars, queueVars
<1>2. CASE GetItem
  <2>1. /\ UNCHANGED <<blocking, shut, workerVars, runVars>>
        /\ items[rq] # << >>
        /\ got' = [got EXCEPT ![rq] = Append(@, Head(items[rq]))]
        /\ items' = [items EXCEPT ![rq] = Tail(@)]
    BY <1>2 DEF GetItem, ReaderGoes
  <2>2. ASSUME HasWorker
        PROVE  Delivered' = Delivered
    <3>1. /\ tap \in Queues
          /\ got[tap] \in Seq(1 .. MaxPackets) /\ items[tap] \in Seq(1 .. MaxPackets)
      BY <2>2, DeliveredType
    <3>2. CASE rq = tap
      <4>1. got'[tap] = Append(got[tap], Head(items[tap])) /\ items'[tap] = Tail(items[tap])
        BY <2>1, <3>1, <3>2 DEF TypeOK, QueueTypeOK
      <4>2. Append(got[tap], Head(items[tap])) \o Tail(items[tap]) = got[tap] \o items[tap]
        BY <2>1, <3>1, <3>2, HeadMoves
      <4> QED BY <2>1, <4>1, <4>2 DEF Delivered, runVars
    <3>3. CASE rq # tap
      <4>1. got'[tap] = got[tap] /\ items'[tap] = items[tap]
        BY <2>1, <3>1, <3>3 DEF TypeOK, QueueTypeOK
      <4> QED BY <2>1, <4>1 DEF Delivered, runVars
    <3> QED BY <3>2, <3>3
  <2>3. (HasWorker' <=> HasWorker) /\ Underway' = Underway
    BY <2>1 DEF HasWorker, Underway, workerVars, runVars
  <2>4. HasWorker => /\ IsOrdered(Delivered)' /\ IsBelow(Delivered, packets - Underway)'
                     /\ Len(Delivered') = Len(Delivered)
    BY <2>1, <2>2, <2>3 DEF PyInv, TapInv, IsOrdered, IsBelow, workerVars
  <2> QED BY <2>1, <2>3, <2>4 DEF PyInv, TapInv, workerVars, runVars
<1> QED BY <1>1, <1>2 DEF ReaderStep, GetReturns

LEMMA PyStep ==
    ASSUME TypeOK, PyInv, [Next]_vars
    PROVE  PyInv'
<1>1. LockInv'
  BY LockStep DEF PyInv
<1>2. StartInv' /\ FreshInv' /\ TapInv'
  <2>1. CASE \E t \in Callers, m \in {"start", "stop", "getter"} : Call(t, m)
    BY <2>1, QuietSteps
  <2>2. CASE \E t \in Callers : Method(t)
    BY <2>2, StartMethodStep, TapMethodStep
  <2>3. CASE WorkerStep
    BY <2>3, StartWorkerStep, TapWorkerStep
  <2>4. CASE ReaderStep
    BY <2>4, StartReaderStep, TapReaderStep
  <2>5. CASE UNCHANGED vars
    <3>1. StartInv' /\ FreshInv'
      BY <2>5 DEF PyInv, StartInv, FreshInv, IsFresh, HasWorker, ThreadIsOver, vars, dataVars, queueVars,
                  readerVars, workerVars, runVars
    <3>2. TapInv'
      BY <2>5, TapKept DEF vars, dataVars, readerVars, workerVars
    <3> QED BY <3>1, <3>2
  <2> QED BY <2>1, <2>2, <2>3, <2>4, <2>5 DEF Next, WorkerStep, ReaderStep
<1> QED BY <1>1, <1>2 DEF PyInv

LEMMA PyInvariant == Spec => [](TypeOK /\ PyInv)
<1>1. Init => TypeOK /\ PyInv
  BY PyInitInv
<1>2. (TypeOK /\ PyInv) /\ [Next]_vars => (TypeOK /\ PyInv)'
  BY TypeStep, PyStep
<1> QED BY <1>1, <1>2, PTL DEF Spec
-----------------------------------------------------------------------------
\* No queue grows beyond its size, whatever the threads do, and every variable keeps
\* its type: mcpd_py_lib.cc, PyQueueTap and WorkerBase.
THEOREM PyTypeCorrect == Spec => []TypeOK
BY PyInvariant, PTL

\* No packet of a run that neither an error nor stop() has cut short disappears on the
\* way from the reading thread to Python, none is doubled or out of order, a Replay
\* drops none, and queue_ keeps the queue alive that a running thread uses.
THEOREM PyNothingIsLost == Spec => []NothingIsLost
<1>1. TypeOK /\ PyInv => NothingIsLost
  <2> SUFFICES ASSUME TypeOK, PyInv, HasWorker
               PROVE  /\ \A i, j \in DOMAIN Delivered : i < j => Delivered[i] < Delivered[j]
                      /\ ~stopped /\ ~exception => Len(Delivered) + dropped + Underway = packets
                      /\ blocking => dropped = 0
                      /\ ~ThreadIsOver => tap = current
    BY DEF NothingIsLost, Delivered, Underway
  <2>1. DOMAIN Delivered = 1 .. Len(Delivered)
    BY DeliveredType, LenProperties
  <2>2. /\ \A i, j \in DOMAIN Delivered : i < j => Delivered[i] < Delivered[j]
        /\ ~stopped /\ ~exception => Len(Delivered) + dropped + Underway = packets
        /\ blocking => dropped = 0
    BY <2>1 DEF PyInv, TapInv, IsOrdered
  <2> QED BY <2>2 DEF PyInv, StartInv
<1> QED BY <1>1, PyInvariant, PTL
-----------------------------------------------------------------------------
(* Nobody is stuck.  NobodyWaitsForEver needs fairness; what it rests on   *)
(* does not: in every state in which somebody waits, somebody can go on.   *)

\* The guards of Method(t), one place after the other.
CallerCanGo(t) ==
    \/ pc[t] \in {"entered", "getter", "start", "replace", "shutdown", "quit", "unlock"}
    \/ pc[t] = "lock" /\ mutex = None
    \/ pc[t] = "stop" /\ (gil = None \/ ~HasWorker)
    \/ pc[t] \in {"join", "wait"} /\ ThreadIsOver
    \/ pc[t] = "return" /\ gil = None

\* The guards of the reading thread; in its loop it gets on only if it is asked to quit.
LoopCanGo ==
    \/ wpc \in {"check", "read"} /\ quit
    \/ wpc = "put" /\ gil = None /\ (tap \in shut \/ ~IsFull \/ ~blocking)
    \/ wpc = "finish" /\ gil = None
    \/ wpc = "clear"

\* The guards of a get() that has begun.
GetCanReturn == gil = None /\ (items[rq] # << >> \/ rq \in shut)

\* As long as a method has not returned, one of the methods or the thread that it waits
\* for can go on: no circle of GIL, mutex_, the full queue and the join closes.  A get()
\* on the queue of a run that is over needs no more than the GIL.
NobodyIsStuck ==
    /\ \A t \in Callers : pc[t] # "python" => LoopCanGo \/ \E u \in Callers : CallerCanGo(u)
    /\ rpc = "get" /\ (rq < tap \/ (rq = tap /\ ~running)) =>
          GetCanReturn \/ \E u \in Callers : gil = u /\ CallerCanGo(u)

\* Where a caller holds the GIL for more than a step.
WithGil == {"entered", "replace", "shutdown"}

GilInv == \A t \in Callers : pc[t] \in WithGil <=> gil = t

\* Whoever waits for the thread has shut down its queue and asked it to quit.
StopInv ==
    /\ \A t \in Callers : pc[t] \in {"quit", "wait"} => current \in shut
    /\ \A t \in Callers : pc[t] = "wait" => quit

\* The queues of all runs that are over are shut down.
ShutInv ==
    /\ HasWorker /\ wpc \notin {"check", "read", "put", "finish"} => tap \in shut
    /\ \A q \in Queues : q < current => q \in shut
    /\ used /\ (\A t \in Callers : pc[t] # "join") => tap = current

WaitInv == GilInv /\ StopInv /\ ShutInv

LEMMA WaitInit == Init => WaitInv
BY PyAssumption DEF Init, WaitInv, GilInv, WithGil, StopInv, ShutInv, HasWorker, Queues

LEMMA GilKept ==
    ASSUME CallerTypeOK, GilInv, NEW t \in Callers, NEW from, NEW to, Goto(t, from, to),
           from \in WithGil <=> to \in WithGil, gil' = gil
    PROVE  GilInv'
BY GotoMoves DEF GilInv

LEMMA GilTaken ==
    ASSUME CallerTypeOK, GilInv, NEW t \in Callers, NEW from, NEW to, Goto(t, from, to),
           to \in WithGil, gil = None, gil' = t
    PROVE  GilInv'
BY GotoMoves, PyAssumption DEF GilInv

LEMMA GilGiven ==
    ASSUME CallerTypeOK, GilInv, NEW t \in Callers, NEW from, NEW to, Goto(t, from, to),
           from \in WithGil, to \notin WithGil, gil' = None
    PROVE  GilInv'
BY GotoMoves, PyAssumption DEF GilInv

LEMMA GilStep ==
    ASSUME TypeOK, GilInv, [Next]_vars
    PROVE  GilInv'
<1> USE DEF TypeOK
<1>1. CASE \E t \in Callers, m \in {"start", "stop", "getter"} : Call(t, m)
  <2> PICK t \in Callers, m \in {"start", "stop", "getter"} : Call(t, m)
    BY <1>1
  <2> QED BY GilTaken DEF Call, WithGil
<1>2. CASE \E t \in Callers : Method(t)
  <2> PICK t \in Callers : Method(t)
    BY <1>2
  <2>1. CASE ReleaseGil(t)
    BY <2>1, GilGiven DEF ReleaseGil, WithGil
  <2>2. CASE Lock(t)
    <3>1. method[t] \notin WithGil
      BY DEF CallerTypeOK, WithGil
    <3> QED BY <2>2, <3>1, GilKept DEF Lock, WithGil
  <2>3. CASE NothingToDo(t)
    BY <2>3, GilKept DEF NothingToDo, WithGil
  <2>4. CASE AcquireGil(t)
    BY <2>4, GilTaken DEF AcquireGil, WithGil
  <2>5. CASE ReplaceQueue(t)
    BY <2>5, GilGiven DEF ReplaceQueue, WithGil
  <2>6. CASE NewWorker(t)
    BY <2>6, GilKept DEF NewWorker, WithGil
  <2>7. CASE ShutdownQueue(t)
    BY <2>7, GilGiven DEF ShutdownQueue, WithGil
  <2>8. CASE RequestQuit(t)
    BY <2>8, GilKept DEF RequestQuit, WithGil
  <2>9. CASE JoinWorker(t)
    BY <2>9, GilKept DEF JoinWorker, WithGil
  <2>10. CASE Unlock(t)
    BY <2>10, GilKept DEF Unlock, WithGil
  <2>11. CASE Return(t)
    BY <2>11, GilKept DEF Return, WithGil
  <2> QED BY <2>1, <2>2, <2>3, <2>4, <2>5, <2>6, <2>7, <2>8, <2>9, <2>10, <2>11 DEF Method
<1>3. CASE WorkerStep
  BY <1>3 DEF WorkerStep, CheckQuit, ReadReturns, ReadPacket, ReadTimeout, SourceEnds, Put, PutItem,
              PutFull, PutShutDown, PutThrows, Finished, ClearRunning, WorkerGoes, GilInv
<1>4. CASE ReaderStep
  BY <1>4 DEF ReaderStep, GetReturns, BeginGet, GetItem, GetShutDown, ReaderGoes, GilInv
<1>5. CASE UNCHANGED vars
  BY <1>5 DEF vars, GilInv
<1> QED BY <1>1, <1>2, <1>3, <1>4, <1>5 DEF Next, WorkerStep, ReaderStep

\* Steps that change neither the current queue nor what a caller has asked for.
LEMMA StopKept ==
    ASSUME CallerTypeOK, StopInv, NEW t \in Callers, NEW from, NEW to, Goto(t, from, to),
           to \notin {"quit", "wait"}, UNCHANGED <<current, shut, quit>>
    PROVE  StopInv'
BY GotoMoves DEF StopInv

LEMMA StopStep ==
    ASSUME TypeOK, LockInv, StopInv, [Next]_vars
    PROVE  StopInv'
<1> USE DEF TypeOK
<1>1. CASE \E t \in Callers, m \in {"start", "stop", "getter"} : Call(t, m)
  <2> PICK t \in Callers, m \in {"start", "stop", "getter"} : Call(t, m)
    BY <1>1
  <2> QED BY StopKept DEF Call, dataVars, queueVars, workerVars
<1>2. CASE \E t \in Callers : Method(t)
  <2> PICK t \in Callers : Method(t)
    BY <1>2
  <2> DEFINE others == \A u \in Callers \ {t} : pc[u] \notin InMutex /\ pc'[u] = pc[u]
  <2>1. CASE Lock(t)
    <3>1. method[t] \notin {"quit", "wait"}
      BY DEF CallerTypeOK
    <3> QED BY <2>1, <3>1, StopKept DEF Lock, dataVars, queueVars, workerVars
  <2>2. CASE ReleaseGil(t) \/ NothingToDo(t) \/ AcquireGil(t) \/ Unlock(t) \/ Return(t) \/ JoinWorker(t)
    BY <2>2, StopKept DEF ReleaseGil, NothingToDo, AcquireGil, Unlock, Return, JoinWorker,
                          dataVars, queueVars, workerVars
  <2>3. CASE ReplaceQueue(t)
    <3>1. pc[t] = "replace" /\ pc'[t] = "join" /\ \A u \in Callers \ {t} : pc'[u] = pc[u]
      BY <2>3, GotoMoves DEF ReplaceQueue
    <3>2. others
      BY <3>1, OneInMutex DEF InMutex
    <3> QED BY <3>1, <3>2 DEF StopInv, InMutex
  <2>4. CASE NewWorker(t)
    <3>1. pc[t] = "join" /\ pc'[t] = "unlock" /\ \A u \in Callers \ {t} : pc'[u] = pc[u]
      BY <2>4, GotoMoves DEF NewWorker
    <3>2. others
      BY <3>1, OneInMutex DEF InMutex
    <3> QED BY <3>1, <3>2 DEF StopInv, InMutex
  <2>5. CASE ShutdownQueue(t)
    <3>1. pc[t] = "shutdown" /\ pc'[t] = "quit" /\ \A u \in Callers \ {t} : pc'[u] = pc[u]
      BY <2>5, GotoMoves DEF ShutdownQueue
    <3>2. others
      BY <3>1, OneInMutex DEF InMutex
    <3>3. current' \in shut'
      BY <2>5 DEF ShutdownQueue
    <3> QED BY <3>1, <3>2, <3>3 DEF StopInv, InMutex
  <2>6. CASE RequestQuit(t)
    <3>1. pc[t] = "quit" /\ pc'[t] = "wait" /\ \A u \in Callers \ {t} : pc'[u] = pc[u]
      BY <2>6, GotoMoves DEF RequestQuit
    <3>2. quit' /\ UNCHANGED <<current, shut>>
      BY <2>6 DEF RequestQuit, queueVars
    <3> QED BY <3>1, <3>2 DEF StopInv
  <2> QED BY <2>1, <2>2, <2>3, <2>4, <2>5, <2>6 DEF Method
<1>3. CASE WorkerStep
  <2>1. UNCHANGED <<pc, current, quit>> /\ shut \subseteq shut'
    BY <1>3 DEF WorkerStep, CheckQuit, ReadReturns, ReadPacket, ReadTimeout, SourceEnds, Put, PutItem,
                PutFull, PutShutDown, PutThrows, Finished, ClearRunning, WorkerGoes, queueVars
  <2> QED BY <2>1 DEF StopInv
<1>4. CASE ReaderStep
  BY <1>4 DEF ReaderStep, GetReturns, BeginGet, GetItem, GetShutDown, ReaderGoes, workerVars, StopInv
<1>5. CASE UNCHANGED vars
  BY <1>5 DEF vars, dataVars, queueVars, workerVars, StopInv
<1> QED BY <1>1, <1>2, <1>3, <1>4, <1>5 DEF Next, WorkerStep, ReaderStep

\* Steps that leave the queues of all runs as they are.
LEMMA ShutKept ==
    ASSUME ShutInv, UNCHANGED <<wpc, current, used, tap, shut>>,
           \A t \in Callers : pc'[t] = "join" <=> pc[t] = "join"
    PROVE  ShutInv'
BY DEF ShutInv, HasWorker

LEMMA ShutMoves ==
    ASSUME CallerTypeOK, NEW t \in Callers, NEW from, NEW to, Goto(t, from, to), from # "join", to # "join"
    PROVE  \A u \in Callers : pc'[u] = "join" <=> pc[u] = "join"
BY GotoMoves

LEMMA ShutMethodStep ==
    ASSUME TypeOK, PyInv, ShutInv, NEW t \in Callers, Method(t)
    PROVE  ShutInv'
<1> USE DEF TypeOK
<1>1. CASE Lock(t)
  <2>1. \A u \in Callers : pc'[u] = "join" <=> pc[u] = "join"
    <3>1. method[t] # "join"
      BY DEF CallerTypeOK
    <3> QED BY <1>1, <3>1, ShutMoves DEF Lock
  <2> QED BY <1>1, <2>1, ShutKept DEF Lock, dataVars, queueVars, workerVars, runVars
<1>2. CASE ReleaseGil(t) \/ NothingToDo(t) \/ AcquireGil(t) \/ RequestQuit(t) \/ Unlock(t) \/ Return(t)
  <2>1. \A u \in Callers : pc'[u] = "join" <=> pc[u] = "join"
    BY <1>2, ShutMoves DEF ReleaseGil, NothingToDo, AcquireGil, RequestQuit, Unlock, Return
  <2> QED BY <1>2, <2>1, ShutKept DEF ReleaseGil, NothingToDo, AcquireGil, RequestQuit, Unlock, Return,
                                      dataVars, queueVars, workerVars, runVars
<1>3. CASE ReplaceQueue(t)
  <2>1. /\ pc[t] = "replace" /\ pc'[t] = "join"
        /\ current' = IF used THEN current + 1 ELSE current
        /\ UNCHANGED <<wpc, tap, shut>>
    BY <1>3, GotoMoves DEF ReplaceQueue, queueVars, workerVars, runVars
  <2>2. used => tap = current
    <3>1. \A u \in Callers : pc[u] # "join"
      BY <2>1, OneInMutex DEF PyInv, InMutex
    <3> QED BY <3>1 DEF ShutInv
  <2>3. ASSUME used
        PROVE  current \in shut
    <3>1. tap = current /\ tap # 0
      BY <2>2, <2>3, PyAssumption DEF QueueTypeOK, Queues
    <3>2. wpc \notin {"check", "read", "put", "finish"}
      BY <2>1 DEF PyInv, StartInv, ThreadIsOver
    <3> QED BY <3>1, <3>2 DEF ShutInv, HasWorker
  <2>4. \A q \in Queues : q < current' => q \in shut'
    <3> SUFFICES ASSUME NEW q \in Queues, q < current'
                 PROVE  q \in shut
      BY <2>1
    <3>1. current \in Nat /\ q \in Nat
      BY PyAssumption DEF QueueTypeOK, Queues
    <3>2. q < current \/ (used /\ q = current)
      BY <2>1, <3>1
    <3> QED BY <2>3, <3>2 DEF ShutInv
  <2> QED BY <2>1, <2>4 DEF ShutInv, HasWorker
<1>4. CASE NewWorker(t)
  BY <1>4 DEF NewWorker, queueVars, ShutInv
<1>5. CASE ShutdownQueue(t)
  <2>1. \A u \in Callers : pc'[u] = "join" <=> pc[u] = "join"
    BY <1>5, ShutMoves DEF ShutdownQueue
  <2> QED BY <1>5, <2>1 DEF ShutdownQueue, workerVars, ShutInv, HasWorker
<1>6. CASE JoinWorker(t)
  <2>1. \A u \in Callers : pc'[u] = "join" <=> pc[u] = "join"
    BY <1>6, ShutMoves DEF JoinWorker
  <2>2. HasWorker => tap \in shut
    BY <1>6 DEF JoinWorker, ThreadIsOver, ShutInv
  <2> QED BY <1>6, <2>1, <2>2 DEF JoinWorker, queueVars, runVars, ShutInv, HasWorker
<1> QED BY <1>1, <1>2, <1>3, <1>4, <1>5, <1>6 DEF Method

LEMMA ShutStep ==
    ASSUME TypeOK, PyInv, ShutInv, [Next]_vars
    PROVE  ShutInv'
<1>1. CASE \E t \in Callers, m \in {"start", "stop", "getter"} : Call(t, m)
  <2> PICK t \in Callers, m \in {"start", "stop", "getter"} : Call(t, m)
    BY <1>1
  <2>1. \A u \in Callers : pc'[u] = "join" <=> pc[u] = "join"
    BY ShutMoves DEF TypeOK, Call
  <2> QED BY <2>1, ShutKept DEF Call, dataVars, queueVars, workerVars, runVars
<1>2. CASE \E t \in Callers : Method(t)
  BY <1>2, ShutMethodStep
<1>3. CASE WorkerStep
  <2>1. /\ UNCHANGED <<pc, current, used, tap>> /\ shut \subseteq shut'
        /\ wpc' \in {"check", "read", "put", "finish"} \/ tap \in shut' \/ wpc = "clear"
    BY <1>3 DEF WorkerStep, CheckQuit, ReadReturns, ReadPacket, ReadTimeout, SourceEnds, Put, PutItem,
                PutFull, PutShutDown, PutThrows, Finished, ClearRunning, WorkerGoes, queueVars, runVars
  <2> QED BY <2>1 DEF ShutInv, HasWorker
<1>4. CASE ReaderStep
  BY <1>4 DEF ReaderStep, GetReturns, BeginGet, GetItem, GetShutDown, ReaderGoes, workerVars, runVars,
              ShutInv, HasWorker
<1>5. CASE UNCHANGED vars
  BY <1>5 DEF vars, dataVars, queueVars, workerVars, runVars, ShutInv, HasWorker
<1> QED BY <1>1, <1>2, <1>3, <1>4, <1>5 DEF Next, WorkerStep, ReaderStep

LEMMA WaitInvariant == Spec => [](TypeOK /\ PyInv /\ WaitInv)
<1>1. Init => WaitInv
  BY WaitInit
<1>2. TypeOK /\ PyInv /\ WaitInv /\ [Next]_vars => WaitInv'
  BY GilStep, StopStep, ShutStep DEF WaitInv, PyInv
<1> QED BY <1>1, <1>2, PyInvariant, PTL DEF Spec

\* Who holds a lock can go on or waits for the reading thread, and that one can then go on.
LEMMA OwnerCanGo ==
    ASSUME TypeOK, PyInv, WaitInv, gil = None, NEW t \in Callers, pc[t] \in InMutex
    PROVE  LoopCanGo \/ CallerCanGo(t)
<1>1. CASE pc[t] \notin {"stop", "join", "wait"}
  BY <1>1 DEF InMutex, CallerCanGo
<1>2. CASE pc[t] = "stop"
  BY <1>2 DEF CallerCanGo
<1>3. CASE pc[t] = "join"
  BY <1>3 DEF PyInv, StartInv, CallerCanGo
<1>4. CASE pc[t] = "wait"
  <2>1. quit /\ current \in shut
    BY <1>4 DEF WaitInv, StopInv
  <2>2. CASE ThreadIsOver
    BY <1>4, <2>2 DEF CallerCanGo
  <2>3. CASE ~ThreadIsOver
    <3>1. tap \in shut
      BY <2>1, <2>3 DEF PyInv, StartInv
    <3>2. wpc \in {"check", "read", "put", "finish", "clear"}
      BY <2>3 DEF TypeOK, WorkerTypeOK, ThreadIsOver
    <3> QED BY <2>1, <3>1, <3>2 DEF LoopCanGo
  <2> QED BY <2>2, <2>3
<1> QED BY <1>1, <1>2, <1>3, <1>4

\* No circle of threads that wait for the GIL, mutex_, room in the queue and the end of
\* the reading thread ever closes, for any number of callers and any queue size; get()
\* returns from the queue of a run that is over: mcpd_py_lib.cc, WorkerBase and PyQueueTap.
THEOREM PyNobodyIsStuck == Spec => []NobodyIsStuck
<1>1. ASSUME TypeOK, PyInv, WaitInv
      PROVE  NobodyIsStuck
  <2>1. ASSUME gil # None
        PROVE  \E u \in Callers : gil = u /\ CallerCanGo(u)
    <3>1. gil \in Callers
      BY <1>1, <2>1 DEF TypeOK, CallerTypeOK
    <3>2. pc[gil] \in WithGil
      BY <1>1, <3>1 DEF WaitInv, GilInv
    <3> QED BY <3>1, <3>2 DEF WithGil, CallerCanGo
  <2>2. ASSUME gil = None, NEW t \in Callers, pc[t] # "python"
        PROVE  LoopCanGo \/ \E u \in Callers : CallerCanGo(u)
    <3>1. CASE mutex = None
      <4>1. pc[t] \notin InMutex
        BY <1>1, <3>1, PyAssumption DEF PyInv, LockInv
      <4>2. pc[t] \in {"entered", "lock", "return"}
        BY <1>1, <2>2, <4>1 DEF TypeOK, CallerTypeOK, Places, InMutex
      <4> QED BY <2>2, <3>1, <4>2 DEF CallerCanGo
    <3>2. CASE mutex # None
      <4>1. mutex \in Callers
        BY <1>1, <3>2 DEF TypeOK, CallerTypeOK
      <4>2. pc[mutex] \in InMutex
        BY <1>1, <4>1 DEF PyInv, LockInv
      <4> QED BY <1>1, <2>2, <4>1, <4>2, OwnerCanGo
    <3> QED BY <3>1, <3>2
  <2>3. ASSUME rpc = "get", rq < tap \/ (rq = tap /\ ~running)
        PROVE  rq \in shut
    <3>1. rq \in Queues /\ tap \in Queues /\ current \in Queues /\ HasWorker
      <4>1. rq \in Queues /\ current \in Queues /\ tap \in Queues \cup {0}
        BY <1>1 DEF TypeOK, QueueTypeOK, WorkerTypeOK
      <4> QED BY <2>3, <4>1, PyAssumption DEF Queues, HasWorker
    <3>2. CASE rq < tap
      <4>1. tap <= current
        BY <1>1, <3>1 DEF PyInv, StartInv
      <4>2. rq < current
        BY <3>1, <3>2, <4>1, PyAssumption DEF Queues
      <4> QED BY <1>1, <3>1, <4>2 DEF WaitInv, ShutInv
    <3>3. CASE rq = tap /\ ~running
      <4>1. wpc \notin {"check", "read", "put", "finish"}
        BY <1>1, <3>3 DEF PyInv, StartInv, ThreadIsOver
      <4> QED BY <1>1, <3>1, <3>3, <4>1 DEF WaitInv, ShutInv
    <3> QED BY <2>3, <3>2, <3>3
  <2> QED BY <2>1, <2>2, <2>3 DEF NobodyIsStuck, GetCanReturn
<1> QED BY <1>1, WaitInvariant, PTL
-----------------------------------------------------------------------------
(* And whoever goes on gets nearer to the end of the wait.                 *)

\* Steps of the reading thread until it is over, once quit_ is set.
StepsToEnd(place) ==
    CASE place = "read" -> 5 [] place = "put" -> 4 [] place = "check" -> 3
      [] place = "finish" -> 2 [] place = "clear" -> 1 [] OTHER -> 0

\* While stop() waits for the reading thread, each step of that thread brings it
\* nearer to its end: it may still count the packet of the read() it is in, if it is in
\* one, but none after it; no packet enters the queue, which was shut down first; and no
\* other method starts a new thread or replaces the worker meanwhile.
JoinProgress ==
    [][\A t \in Callers : pc[t] = "wait" /\ pc'[t] = "wait" =>
          /\ UNCHANGED tap
          /\ \/ UNCHANGED <<wpc, packets>>
             \/ /\ StepsToEnd(wpc') < StepsToEnd(wpc)
                /\ packets' = packets \/ (wpc = "read" /\ packets' = packets + 1)
                /\ UNCHANGED items]_vars

LEMMA JoinStep ==
    ASSUME TypeOK, PyInv, StopInv, [Next]_vars, NEW t \in Callers, pc[t] = "wait", pc'[t] = "wait"
    PROVE  /\ UNCHANGED tap
           /\ \/ UNCHANGED <<wpc, packets>>
              \/ /\ StepsToEnd(wpc') < StepsToEnd(wpc)
                 /\ packets' = packets \/ (wpc = "read" /\ packets' = packets + 1)
                 /\ UNCHANGED items
<1> USE DEF TypeOK
<1>1. quit /\ current \in shut
  BY DEF StopInv
<1>2. CASE \E u \in Callers, m \in {"start", "stop", "getter"} : Call(u, m)
  BY <1>2 DEF Call, dataVars, workerVars, runVars
<1>3. CASE \E u \in Callers : Method(u)
  <2>1. PICK u \in Callers : Method(u)
    BY <1>3
  <2>2. CASE NewWorker(u)
    <3>1. pc[u] = "join"
      BY <2>2 DEF NewWorker, Goto
    <3> QED BY <3>1, OneInMutex DEF PyInv, InMutex
  <2>3. CASE JoinWorker(u)
    <3>1. pc[u] = "wait" /\ pc'[u] = "unlock"
      BY <2>3, GotoMoves DEF JoinWorker
    <3> QED BY <3>1, OneInMutex DEF PyInv, InMutex
  <2>4. CASE ReleaseGil(u) \/ Lock(u) \/ NothingToDo(u) \/ AcquireGil(u) \/ Unlock(u) \/ Return(u)
    BY <2>4 DEF ReleaseGil, Lock, NothingToDo, AcquireGil, Unlock, Return, dataVars, workerVars,
                runVars
  <2>5. CASE ReplaceQueue(u) \/ ShutdownQueue(u) \/ RequestQuit(u)
    BY <2>5 DEF ReplaceQueue, ShutdownQueue, RequestQuit, workerVars, runVars
  <2> QED BY <2>1, <2>2, <2>3, <2>4, <2>5 DEF Method
<1>4. CASE WorkerStep
  <2>1. UNCHANGED tap
    BY <1>4 DEF WorkerStep, CheckQuit, ReadReturns, ReadPacket, ReadTimeout, SourceEnds, Put, PutItem,
           PutFull, PutShutDown, PutThrows, Finished, ClearRunning, WorkerGoes, runVars
  <2>2. ~PutItem
    <3>1. ASSUME PutItem
          PROVE  tap \in shut
      <4>1. ~ThreadIsOver
        BY <3>1 DEF PutItem, WorkerGoes, ThreadIsOver
      <4> QED BY <1>1, <4>1 DEF PyInv, StartInv
    <3> QED BY <3>1 DEF PutItem
  <2>3. /\ packets' = packets \/ (wpc = "read" /\ packets' = packets + 1)
        /\ UNCHANGED items
    BY <1>4, <2>2 DEF WorkerStep, CheckQuit, ReadReturns, ReadPacket, ReadTimeout, SourceEnds, Put,
           PutFull, PutShutDown, PutThrows, Finished, ClearRunning, WorkerGoes, queueVars
  <2>4. \/ wpc = "read" /\ wpc' \in {"check", "put", "finish"}
        \/ wpc = "put" /\ wpc' \in {"check", "finish"}
        \/ wpc = "check" /\ wpc' = "finish"
        \/ wpc = "finish" /\ wpc' = "clear"
        \/ wpc = "clear" /\ wpc' = "ended"
    BY <1>1, <1>4, <2>2 DEF WorkerStep, CheckQuit, ReadReturns, ReadPacket, ReadTimeout, SourceEnds,
           Put, PutFull, PutShutDown, PutThrows, Finished, ClearRunning, WorkerGoes
  <2>5. StepsToEnd(wpc') < StepsToEnd(wpc)
    BY <2>4 DEF StepsToEnd
  <2> QED BY <2>1, <2>3, <2>5
<1>5. CASE ReaderStep
  BY <1>5 DEF ReaderStep, GetReturns, BeginGet, GetItem, GetShutDown, ReaderGoes, workerVars, runVars
<1>6. CASE UNCHANGED vars
  BY <1>6 DEF vars, dataVars, workerVars, runVars
<1> QED BY <1>2, <1>3, <1>4, <1>5, <1>6 DEF Next, WorkerStep, ReaderStep

\* stop() waits for at most five steps of the reading thread, the end of the read() it
\* may be in among them, for any number of callers and however large the queue is.
THEOREM PyStopProgresses == Spec => JoinProgress
<1>1. TypeOK /\ PyInv /\ WaitInv /\ [Next]_vars
        => [\A t \in Callers : pc[t] = "wait" /\ pc'[t] = "wait" =>
              /\ UNCHANGED tap
              /\ \/ UNCHANGED <<wpc, packets>>
                 \/ /\ StepsToEnd(wpc') < StepsToEnd(wpc)
                    /\ packets' = packets \/ (wpc = "read" /\ packets' = packets + 1)
                    /\ UNCHANGED items]_vars
  BY JoinStep DEF WaitInv
<1> QED BY <1>1, WaitInvariant, PTL DEF Spec, JoinProgress
=============================================================================
