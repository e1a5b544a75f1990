------------------------------ MODULE DaqProofs ------------------------------
(***************************************************************************)
(* Proofs about the readout worker and about the Daq that owns it, for     *)
(* every set of packets, every number of consumers and runs of any length. *)
(*                                                                         *)
(* First part: ReadoutWorker under its own specification.  The inductive   *)
(* invariant has two layers: ControlInv ties the worker's program counter  *)
(* to the flags that the controller sees; DataInv says at each program     *)
(* counter how far the listfile, the counters and every consumer are       *)
(* behind the packets read.  The part ends with what brings the thread to  *)
(* its end.                                                                *)
(*                                                                         *)
(* Second part: Daq, for any number of runs.  A step of the Daq is a step  *)
(* of the current worker or starts a new one, for which the worker's       *)
(* invariants hold again.  Three more invariants are about what outlives a *)
(* worker: FileInv ties the listfile to the stream that writes it and the  *)
(* replay that reads it, PortFollowsReadout is inductive with it, and      *)
(* AccountInv says what each consumer has.                                 *)
(***************************************************************************)
EXTENDS Daq, FiniteSetTheorems, TLAPS
-----------------------------------------------------------------------------
(* First part: the worker.                                                 *)

Actions ==
    CheckQuit \/ ReadPacket \/ ReadTimeout \/ ReadEnd \/ ReadThrows
        \/ WriteListfile \/ WriteThrows \/ Count \/ Consume \/ ConsumeThrows
        \/ Consumed \/ StoreException \/ Finish \/ ClearRunning \/ Start
        \/ Spawn \/ SpawnThrows \/ RequestStop \/ FinishStop
        \/ RethrowException

\* To the worker, a finished() that throws is one that returns.
LEMMA ThrowingIsFinishing == FinishThrows <=> Finish
BY DEF FinishThrows, Finish

LEMMA NextIsActions == Next <=> Actions
BY ThrowingIsFinishing DEF Next, Worker, Controller, Actions

AfterLoopPCs == {"finish", "ended", "joined"}

\* Flags and resources as the controller may see them at each pc.
FlagsInv ==
    /\ ctl = "spawn" => pc = "none" /\ hasSource /\ running
    /\ pc \notin {"none", "joined"} => hasSource
    /\ hasSource => fileOpen = setup.recording
    /\ pc \in LoopPCs \cup {"finish"} => running
    /\ pc \in {"ended", "joined"} => ~running
    /\ pc \in LoopPCs \cup {"none"} <=> cause = "none"
    /\ exception # "none" <=> cause = "error"

\* How often each consumer was told, at each pc, that the run is over.
ToldInv ==
    /\ pc \in LoopPCs \cup {"none"} => \A c \in Consumers : finished[c] = 0
    /\ pc = "finish" =>
          \A c \in Consumers : finished[c] = IF c < next THEN 1 ELSE 0
    /\ pc \in {"ended", "joined"} => \A c \in Consumers : finished[c] = 1

ControlInv == FlagsInv /\ ToldInv

\* The loop works on a packet only after it has read one.
HasCurrent == pc \in {"write", "count", "consume"} => Len(log) > 0

LEMMA TypeInit == Init => TypeOK /\ HasCurrent
<1> SUFFICES ASSUME Init PROVE TypeOK /\ HasCurrent
  OBVIOUS
<1>1. setup.recording \in BOOLEAN
  BY DEF Init, Setups
<1>2. NoCounters \in CountersType
  BY DEF NoCounters, CountersType
<1>3. log \in Seq(Deliverable) /\ file \in Seq(Deliverable) /\ disk \in 0 .. Len(file)
  BY DEF Init
<1>4. /\ next \in 1 .. NumConsumers + 1
      /\ consumed \in [Consumers -> SUBSET Nat]
      /\ finished \in [Consumers -> Nat]
  BY WorkerAssumption DEF Init, Consumers
<1> QED BY <1>1, <1>2, <1>3, <1>4 DEF Init, TypeOK, PCs, HasCurrent

LEMMA TypeStep ==
    TypeOK /\ HasCurrent /\ [Next]_vars => TypeOK' /\ HasCurrent'
<1> SUFFICES ASSUME TypeOK, HasCurrent, [Next]_vars
             PROVE  TypeOK' /\ HasCurrent'
  OBVIOUS
<1> USE WorkerAssumption DEF ctlVars, fileVars, consVars, PCs, HasCurrent
<1>1. CASE CheckQuit
  BY <1>1 DEF CheckQuit, TypeOK
<1>2. CASE ReadPacket
  <2>1. PICK p \in Packets :
          log' = Append(log, IF setup.kind = "udp" THEN p ELSE FromListfile(p))
    BY <1>2 DEF ReadPacket
  <2>2. (IF setup.kind = "udp" THEN p ELSE FromListfile(p)) \in Deliverable
    BY DEF Deliverable
  <2>3. log' \in Seq(Deliverable)
    BY <2>1, <2>2 DEF TypeOK
  <2> QED BY <1>2, <2>3 DEF ReadPacket, TypeOK
<1>3. CASE ReadTimeout
  <2> DEFINE t == IF counters.timeouts < MaxTimeouts
                  THEN counters.timeouts + 1 ELSE counters.timeouts
  <2>a. counters \in CountersType /\ t \in Nat
    BY DEF TypeOK, CountersType
  <2>b. counters' = [counters EXCEPT !.timeouts = t]
    BY <1>3 DEF ReadTimeout
  <2>1. counters' \in CountersType
    <3> HIDE DEF t
    <3> QED BY <2>a, <2>b DEF CountersType
  <2> QED BY <1>3, <2>1 DEF ReadTimeout, TypeOK
<1>4. CASE ReadEnd
  BY <1>4 DEF ReadEnd, TypeOK
<1>5. CASE ReadThrows
  BY <1>5 DEF ReadThrows, TypeOK
<1>6. CASE WriteListfile
  <2>1. Current \in Deliverable
    BY <1>6 DEF WriteListfile, TypeOK, Current
  <2>2. file' \in Seq(Deliverable) /\ disk' \in 0 .. Len(file')
    <3>1. CASE setup.recording
      <4>1. file' = Append(file, Current) /\ disk' \in disk .. Len(file')
        BY <1>6, <3>1 DEF WriteListfile
      <4>2. file' \in Seq(Deliverable)
        BY <2>1, <4>1 DEF TypeOK
      <4>3. Len(file') \in Nat
        BY <4>2
      <4> QED BY <4>1, <4>2, <4>3 DEF TypeOK
    <3>2. CASE ~setup.recording
      BY <1>6, <3>2 DEF WriteListfile, TypeOK
    <3> QED BY <3>1, <3>2
  <2> QED BY <1>6, <2>2 DEF WriteListfile, TypeOK
<1>7. CASE WriteThrows
  BY <1>7 DEF WriteThrows, TypeOK
<1>8. CASE Count
  <2> DEFINE v == IsValidDataPacket(Current)
             i == IF v THEN counters.invalid ELSE counters.invalid + 1
             l == IF setup.recording THEN Len(file) ELSE 0
             n == counters.packets + 1
  <2>a. counters \in CountersType /\ i \in Nat /\ l \in Nat /\ n \in Nat
    BY DEF TypeOK, CountersType
  <2>b. counters' = [counters EXCEPT !.packets = n, !.invalid = i, !.listfile = l]
    BY <1>8 DEF Count
  <2>1. counters' \in CountersType
    <3> HIDE DEF i, l, n
    <3> QED BY <2>a, <2>b DEF CountersType
  <2> QED BY <1>8, <2>1 DEF Count, TypeOK
<1>9. CASE Consume
  BY <1>9 DEF Consume, TypeOK, Consumers
<1>10. CASE ConsumeThrows
  BY <1>10 DEF ConsumeThrows, TypeOK
<1>11. CASE Consumed
  BY <1>11 DEF Consumed, TypeOK
<1>12. CASE StoreException
  BY <1>12 DEF StoreException, TypeOK
<1>13. CASE Finish
  BY <1>13 DEF Finish, TypeOK, Consumers
<1>14. CASE ClearRunning
  BY <1>14 DEF ClearRunning, TypeOK
<1> USE DEF threadVars
<1>15. CASE Start
  BY <1>15 DEF Start, TypeOK
<1>16. CASE Spawn
  BY <1>16 DEF Spawn, TypeOK
<1>17. CASE SpawnThrows
  BY <1>17 DEF SpawnThrows, TypeOK
<1>18. CASE RequestStop
  BY <1>18 DEF RequestStop, TypeOK
<1>19. CASE FinishStop
  <2>1. disk' \in 0 .. Len(file)
    BY <1>19 DEF FinishStop, TypeOK
  <2> QED BY <1>19, <2>1 DEF FinishStop, TypeOK
<1>20. CASE RethrowException
  BY <1>20 DEF RethrowException, TypeOK
<1>21. CASE UNCHANGED vars
  BY <1>21 DEF vars, TypeOK
<1> QED BY <1>1, <1>2, <1>3, <1>4, <1>5, <1>6, <1>7, <1>8, <1>9, <1>10, <1>11,
           <1>12, <1>13, <1>14, <1>15, <1>16, <1>17, <1>18, <1>19, <1>20,
           <1>21, NextIsActions DEF Actions

\* The flags that the controller sees follow the worker's steps; nothing here
\* looks at a packet.
LEMMA FlagsStep ==
    ASSUME TypeOK, FlagsInv, [Next]_vars
    PROVE  FlagsInv'
<1> USE DEF ctlVars, fileVars, consVars, LoopPCs, FlagsInv
<1>1. CASE CheckQuit
  BY <1>1 DEF CheckQuit, TypeOK
<1>2. CASE ReadPacket
  BY <1>2 DEF ReadPacket
<1>3. CASE ReadTimeout
  BY <1>3 DEF ReadTimeout
<1>4. CASE ReadEnd
  BY <1>4 DEF ReadEnd, TypeOK
<1>5. CASE ReadThrows
  BY <1>5 DEF ReadThrows
<1>6. CASE WriteListfile
  BY <1>6 DEF WriteListfile
<1>7. CASE WriteThrows
  BY <1>7 DEF WriteThrows
<1>8. CASE Count
  BY <1>8 DEF Count
<1>9. CASE Consume
  BY <1>9 DEF Consume
<1>10. CASE ConsumeThrows
  BY <1>10 DEF ConsumeThrows
<1>11. CASE Consumed
  BY <1>11 DEF Consumed
<1>12. CASE StoreException
  BY <1>12 DEF StoreException, TypeOK
<1>13. CASE Finish
  BY <1>13 DEF Finish
<1>14. CASE ClearRunning
  BY <1>14 DEF ClearRunning
<1> USE DEF threadVars
<1>15. CASE Start
  BY <1>15 DEF Start
<1>16. CASE Spawn
  BY <1>16 DEF Spawn
<1>17. CASE SpawnThrows
  BY <1>17 DEF SpawnThrows
<1>18. CASE RequestStop
  BY <1>18 DEF RequestStop
<1>19. CASE FinishStop
  BY <1>19 DEF FinishStop, TypeOK
<1>20. CASE RethrowException
  BY <1>20 DEF RethrowException
<1>21. CASE UNCHANGED vars
  BY <1>21 DEF vars
<1> QED BY <1>1, <1>2, <1>3, <1>4, <1>5, <1>6, <1>7, <1>8, <1>9, <1>10, <1>11,
           <1>12, <1>13, <1>14, <1>15, <1>16, <1>17, <1>18, <1>19, <1>20,
           <1>21, NextIsActions DEF Actions

\* A step that tells nobody and stays in the loop, among the consumers or
\* after the end.
LEMMA ToldKept ==
    ASSUME ToldInv, finished' = finished,
           pc' \in LoopPCs \cup {"none"} => pc \in LoopPCs \cup {"none"},
           pc' = "finish" => pc = "finish" /\ next' = next,
           pc' \in {"ended", "joined"} => pc \in {"ended", "joined"}
    PROVE  ToldInv'
  BY DEF ToldInv

\* Whoever leaves the loop begins with the first consumer.
LEMMA ToldFromStart ==
    ASSUME ToldInv, finished' = finished, pc \in LoopPCs, pc' = "finish", next' = 1
    PROVE  ToldInv'
<1>1. \A c \in Consumers : ~(c < 1)
  BY WorkerAssumption DEF Consumers
<1>2. \A c \in Consumers : finished[c] = 0
  BY DEF ToldInv
<1> QED BY <1>1, <1>2 DEF ToldInv, LoopPCs

LEMMA ToldStep ==
    ASSUME TypeOK, FlagsInv, ToldInv, [Next]_vars
    PROVE  ToldInv'
<1> USE DEF ctlVars, fileVars, consVars, LoopPCs
<1>1. CASE CheckQuit
  <2>1. CASE pc' = "finish"
    <3>1. next' = 1 /\ pc \in LoopPCs /\ finished' = finished
      BY <1>1, <2>1 DEF CheckQuit
    <3> QED BY <2>1, <3>1, ToldFromStart
  <2>2. CASE pc' # "finish"
    BY <1>1, <2>2, ToldKept DEF CheckQuit
  <2> QED BY <2>1, <2>2
<1>2. CASE ReadPacket
  BY <1>2, ToldKept DEF ReadPacket
<1>3. CASE ReadTimeout
  BY <1>3, ToldKept DEF ReadTimeout
<1>4. CASE ReadEnd
  <2>1. CASE pc' = "finish"
    <3>1. next' = 1 /\ pc \in LoopPCs /\ finished' = finished
      BY <1>4, <2>1 DEF ReadEnd
    <3> QED BY <2>1, <3>1, ToldFromStart
  <2>2. CASE pc' # "finish"
    BY <1>4, <2>2, ToldKept DEF ReadEnd
  <2> QED BY <2>1, <2>2
<1>5. CASE ReadThrows
  BY <1>5, ToldKept DEF ReadThrows
<1>6. CASE WriteListfile
  BY <1>6, ToldKept DEF WriteListfile
<1>7. CASE WriteThrows
  BY <1>7, ToldKept DEF WriteThrows
<1>8. CASE Count
  BY <1>8, ToldKept DEF Count
<1>9. CASE Consume
  BY <1>9, ToldKept DEF Consume
<1>10. CASE ConsumeThrows
  BY <1>10, ToldKept DEF ConsumeThrows
<1>11. CASE Consumed
  BY <1>11, ToldKept DEF Consumed
<1>12. CASE StoreException
  <2>1. CASE pc' = "finish"
    <3>1. next' = 1 /\ pc \in LoopPCs /\ finished' = finished
      BY <1>12, <2>1 DEF StoreException
    <3> QED BY <2>1, <3>1, ToldFromStart
  <2>2. CASE pc' # "finish"
    BY <1>12, <2>2, ToldKept DEF StoreException
  <2> QED BY <2>1, <2>2
<1>13. CASE Finish
  <2>1. pc' = "finish" /\ \A c \in Consumers : finished[c] = IF c < next THEN 1 ELSE 0
    BY <1>13 DEF Finish, ToldInv
  <2>2. next \in Consumers /\ next' = next + 1
    BY <1>13 DEF Finish
  <2>3. finished' = [finished EXCEPT ![next] = finished[next] + 1]
    BY <1>13 DEF Finish
  <2>4. ASSUME NEW c \in Consumers
        PROVE  finished'[c] = IF c < next' THEN 1 ELSE 0
    <3>1. c \in Nat /\ next \in Nat
      BY <2>2 DEF Consumers
    <3>2. finished'[c] = IF c = next THEN finished[c] + 1 ELSE finished[c]
      BY <2>3 DEF TypeOK
    <3>3. finished[c] = IF c < next THEN 1 ELSE 0
      BY <2>1
    <3> QED BY <2>2, <3>1, <3>2, <3>3
  <2> QED BY <2>1, <2>4 DEF ToldInv, LoopPCs
<1>14. CASE ClearRunning
  <2>1. /\ pc = "finish" /\ pc' = "ended" /\ finished' = finished
        /\ next \notin Consumers
    BY <1>14 DEF ClearRunning, consVars
  <2>2. \A c \in Consumers : c < next
    BY <2>1, WorkerAssumption DEF TypeOK, Consumers
  <2>3. \A c \in Consumers : finished[c] = 1
    BY <2>1, <2>2 DEF ToldInv
  <2> QED BY <2>1, <2>3 DEF ToldInv, LoopPCs
<1> USE DEF threadVars
<1>15. CASE Start
  BY <1>15, ToldKept DEF Start
<1>16. CASE Spawn
  BY <1>16, ToldKept DEF Spawn, FlagsInv
<1>17. CASE SpawnThrows
  BY <1>17, ToldKept DEF SpawnThrows
<1>18. CASE RequestStop
  BY <1>18, ToldKept DEF RequestStop
<1>19. CASE FinishStop
  <2>1. pc = "ended" \/ pc' = pc
    BY <1>19 DEF FinishStop
  <2>2. pc' = IF pc = "ended" THEN "joined" ELSE pc
    BY <1>19 DEF FinishStop
  <2> QED BY <1>19, <2>1, <2>2, ToldKept DEF FinishStop
<1>20. CASE RethrowException
  BY <1>20, ToldKept DEF RethrowException
<1>21. CASE UNCHANGED vars
  BY <1>21, ToldKept DEF vars
<1> QED BY <1>1, <1>2, <1>3, <1>4, <1>5, <1>6, <1>7, <1>8, <1>9, <1>10, <1>11,
           <1>12, <1>13, <1>14, <1>15, <1>16, <1>17, <1>18, <1>19, <1>20,
           <1>21, NextIsActions DEF Actions

LEMMA ControlStep ==
    ASSUME TypeOK, ControlInv, [Next]_vars
    PROVE  ControlInv'
  BY FlagsStep, ToldStep DEF ControlInv

LEMMA ControlInit == Init => ControlInv
  BY DEF Init, ControlInv, FlagsInv, ToldInv, LoopPCs

LEMMA ControlInvariant == Spec => [](TypeOK /\ HasCurrent /\ ControlInv)
<1>1. Init => TypeOK /\ HasCurrent /\ ControlInv
  BY TypeInit, ControlInit
<1>2. TypeOK /\ HasCurrent /\ ControlInv /\ [Next]_vars
        => TypeOK' /\ HasCurrent' /\ ControlInv'
  BY TypeStep, ControlStep
<1> QED BY <1>1, <1>2, PTL DEF Spec

\* Type correctness.
THEOREM WorkerTypeCorrect == Spec => []TypeOK
  BY ControlInvariant, PTL

\* Every consumer is told exactly once that the run is over, before the
\* controller can see it.
THEOREM WorkerFinishesConsumers == Spec => []FinishedBeforeNotRunning
<1>1. TypeOK /\ ControlInv => FinishedBeforeNotRunning
  BY DEF FlagsInv, ToldInv, ControlInv, TypeOK, FinishedBeforeNotRunning, PCs, LoopPCs
<1> QED BY <1>1, ControlInvariant, PTL

\* stop() takes neither the source nor the listfile from a running loop.
THEOREM WorkerHoldsResources == Spec => []ResourcesHeldByLoop
<1>1. TypeOK /\ ControlInv => ResourcesHeldByLoop
  BY DEF FlagsInv, ToldInv, ControlInv, TypeOK, ResourcesHeldByLoop, LoopPCs
<1> QED BY <1>1, ControlInvariant, PTL

\* A run that ended with an error says so.
THEOREM WorkerReportsErrors == Spec => []ErrorIsReported
<1>1. TypeOK /\ ControlInv => ErrorIsReported
  BY DEF FlagsInv, ToldInv, ControlInv, TypeOK, ErrorIsReported
<1> QED BY <1>1, ControlInvariant, PTL
-----------------------------------------------------------------------------
\* The valid packets among the first n that were read.
ValidUpTo(n) == {k \in 1 .. n : IsValidDataPacket(log[k])}

\* The loop is between two packets, or was left without an error.
Settled ==
    \/ pc \in {"none", "check", "read"}
    \/ pc \in AfterLoopPCs /\ cause # "error"

\* How far listfile, counters and consumers are behind the packets read.
DataInv ==
    /\ counters.packets <= Len(log)
    /\ setup.recording => Len(file) <= Len(log) /\ counters.packets <= Len(file)
    /\ setup.recording => \A k \in 1 .. Len(file) : file[k] = log[k]
    /\ counters.listfile = IF setup.recording THEN counters.packets ELSE 0
    /\ \A c \in Consumers : consumed[c] \subseteq ValidUpTo(counters.packets)
    /\ Settled => /\ counters.packets = Len(log)
                  /\ \A c \in Consumers : consumed[c] = ValidUpTo(Len(log))
    /\ pc \in {"write", "count"} =>
          /\ counters.packets = Len(log) - 1
          /\ \A c \in Consumers : consumed[c] = ValidUpTo(Len(log) - 1)
    /\ pc = "write" /\ setup.recording => Len(file) = Len(log) - 1
    /\ pc = "count" /\ setup.recording => Len(file) = Len(log)
    /\ pc = "consume" =>
          /\ counters.packets = Len(log)
          /\ IsValidDataPacket(log[Len(log)])
          /\ \A c \in Consumers :
                consumed[c] = ValidUpTo(IF c < next THEN Len(log) ELSE Len(log) - 1)
    /\ cause = "end" => Len(log) = setup.size

LEMMA DataInit == Init => DataInv
<1> SUFFICES ASSUME Init PROVE DataInv
  OBVIOUS
<1>1. Len(log) = 0 /\ Len(file) = 0 /\ ValidUpTo(0) = {}
  BY DEF Init, ValidUpTo
<1>2. \A c \in Consumers : consumed[c] = {}
  BY DEF Init
<1> QED BY <1>1, <1>2 DEF Init, NoCounters, DataInv, Settled, AfterLoopPCs

\* A step that keeps the packets, the listfile, the packet counters and what
\* was consumed, and moves between program counters of the same standing.
LEMMA DataKept ==
    ASSUME DataInv, UNCHANGED <<setup, log, file, consumed>>,
           counters'.packets = counters.packets,
           counters'.listfile = counters.listfile,
           Settled' => Settled,
           pc' \in {"write", "count", "consume"} => pc' = pc /\ next' = next,
           cause' = "end" => cause = "end" \/ Len(log) = setup.size
    PROVE  DataInv'
  BY DEF DataInv, ValidUpTo

LEMMA ReadKeepsData ==
    ASSUME TypeOK, DataInv, ControlInv, ReadPacket
    PROVE  DataInv'
<1>1. PICK p : log' = Append(log, p)
  BY DEF ReadPacket
<1>2. Len(log') = Len(log) + 1 /\ \A k \in 1 .. Len(log) : log'[k] = log[k]
  BY <1>1 DEF TypeOK
<1>3. Len(log) \in Nat /\ counters.packets \in Nat /\ Len(file) \in Nat
  BY DEF TypeOK, CountersType
<1>4. \A n \in 0 .. Len(log) : ValidUpTo(n)' = ValidUpTo(n)
  BY <1>2, <1>3 DEF ValidUpTo
<1>5. /\ pc = "read" /\ pc' = "write"
      /\ UNCHANGED <<setup, counters, file, consumed, cause>>
  BY DEF ReadPacket, ctlVars, fileVars, consVars
<1>6. /\ counters.packets = Len(log)
      /\ \A c \in Consumers : consumed[c] = ValidUpTo(Len(log))
  BY <1>5 DEF DataInv, Settled
<1>7. setup.recording => Len(file) = Len(log)
  BY <1>3, <1>6 DEF DataInv
<1>8. cause = "none"
  BY <1>5 DEF FlagsInv, ToldInv, FlagsInv, ControlInv, LoopPCs
<1> DEFINE Before == {k \in 1 .. Len(log) : IsValidDataPacket(log'[k])}
<1>9. ValidUpTo(Len(log)) = Before
  BY <1>2, <1>3 DEF ValidUpTo
<1>10. \A c \in Consumers : consumed'[c] = Before
  BY <1>5, <1>6, <1>9
<1>11. Len(log') - 1 = Len(log) /\ counters'.packets = Len(log)
  BY <1>2, <1>3, <1>5, <1>6
<1>12. setup.recording => \A k \in 1 .. Len(file) : file[k] = log'[k]
  BY <1>2, <1>3, <1>7 DEF DataInv
<1>13. counters.listfile = IF setup.recording THEN counters.packets ELSE 0
  BY DEF DataInv
<1> HIDE DEF Before
<1>14. \A m : m = Len(log) => ValidUpTo(m)' = Before
  BY DEF ValidUpTo, Before
<1> QED
  <2>1. \A c \in Consumers : /\ consumed'[c] = ValidUpTo(counters.packets)'
                             /\ consumed'[c] = ValidUpTo(Len(log) - 1)'
    BY <1>5, <1>6, <1>10, <1>11, <1>14
  <2> QED BY <2>1, <1>2, <1>3, <1>5, <1>6, <1>7, <1>8, <1>11, <1>12, <1>13
             DEF DataInv, Settled, AfterLoopPCs

LEMMA WriteKeepsData ==
    ASSUME TypeOK, DataInv, ControlInv, HasCurrent, WriteListfile
    PROVE  DataInv'
<1>1. /\ pc = "write" /\ pc' = "count"
      /\ UNCHANGED <<setup, log, counters, consumed, cause>>
  BY DEF WriteListfile, ctlVars, consVars
<1>2. Len(log) \in Nat /\ Len(log) > 0 /\ Len(file) \in Nat
      /\ counters.packets \in Nat
  BY <1>1 DEF TypeOK, HasCurrent, CountersType
<1>3. cause = "none"
  BY <1>1 DEF FlagsInv, ToldInv, FlagsInv, ControlInv, LoopPCs
<1>4. CASE setup.recording
  <2>1. file' = Append(file, log[Len(log)])
    BY <1>4 DEF WriteListfile, Current
  <2>2. Len(file') = Len(file) + 1
        /\ (\A k \in 1 .. Len(file) : file'[k] = file[k])
        /\ file'[Len(file) + 1] = log[Len(log)]
    BY <2>1 DEF TypeOK
  <2>3. Len(file) = Len(log) - 1
    BY <1>1, <1>4 DEF DataInv
  <2>4. \A k \in 1 .. Len(file') : file'[k] = log[k]
    BY <1>2, <1>4, <2>2, <2>3 DEF DataInv
  <2> QED BY <1>1, <1>2, <1>3, <1>4, <2>2, <2>3, <2>4
             DEF DataInv, Settled, AfterLoopPCs, ValidUpTo
<1>5. CASE ~setup.recording
  BY <1>1, <1>2, <1>3, <1>5 DEF DataInv, Settled, AfterLoopPCs, ValidUpTo
<1> QED BY <1>4, <1>5

LEMMA CountKeepsData ==
    ASSUME TypeOK, DataInv, ControlInv, HasCurrent, Count
    PROVE  DataInv'
<1> DEFINE n == Len(log)
           valid == IsValidDataPacket(log[n])
<1>1. /\ pc = "count" /\ next' = 1
      /\ UNCHANGED <<setup, log, file, consumed, cause>>
  BY DEF Count, ctlVars, fileVars
<1>2. n \in Nat /\ n > 0 /\ Len(file) \in Nat /\ counters \in CountersType
  BY <1>1 DEF TypeOK, HasCurrent
<1>3. counters.packets = n - 1 /\ \A c \in Consumers : consumed[c] = ValidUpTo(n - 1)
  BY <1>1 DEF DataInv
<1>4. counters'.packets = n
      /\ counters'.listfile = IF setup.recording THEN Len(file) ELSE 0
  BY <1>2, <1>3 DEF Count, CountersType
<1>5. setup.recording => Len(file) = n
  BY <1>1 DEF DataInv
<1>6. cause = "none"
  BY <1>1 DEF FlagsInv, ToldInv, FlagsInv, ControlInv, LoopPCs
<1>7. ValidUpTo(n - 1) \subseteq ValidUpTo(n)
  BY <1>2 DEF ValidUpTo
<1>8. \A m : ValidUpTo(m)' = ValidUpTo(m)
  BY <1>1 DEF ValidUpTo
<1>9. CASE valid
  <2>1. pc' = "consume"
    BY <1>9 DEF Count, Current
  <2>2. \A c \in Consumers : ~(c < next')
    BY <1>1, WorkerAssumption DEF Consumers
  <2> QED BY <1>1, <1>2, <1>3, <1>4, <1>5, <1>6, <1>7, <1>8, <1>9, <2>1, <2>2
             DEF DataInv, Settled, AfterLoopPCs
<1>10. CASE ~valid
  <2>1. pc' = "check"
    BY <1>10 DEF Count, Current
  <2>2. ValidUpTo(n - 1) = ValidUpTo(n)
    BY <1>2, <1>10 DEF ValidUpTo
  <2> QED BY <1>1, <1>2, <1>3, <1>4, <1>5, <1>6, <1>8, <2>1, <2>2
             DEF DataInv, Settled, AfterLoopPCs
<1> QED BY <1>9, <1>10

LEMMA ConsumeKeepsData ==
    ASSUME TypeOK, DataInv, ControlInv, HasCurrent, Consume
    PROVE  DataInv'
<1> DEFINE n == Len(log)
<1>1. /\ pc = "consume" /\ pc' = pc /\ next \in Consumers /\ next' = next + 1
      /\ UNCHANGED <<setup, log, file, counters, cause>>
      /\ consumed' = [consumed EXCEPT ![next] = @ \cup {n}]
  BY DEF Consume, ctlVars, fileVars
<1>2. n \in Nat /\ n > 0 /\ next \in Nat
  BY <1>1 DEF TypeOK, HasCurrent
<1>3. ValidUpTo(n) = ValidUpTo(n - 1) \cup {n}
  BY <1>1, <1>2 DEF ValidUpTo, DataInv
<1>4. \A m : ValidUpTo(m)' = ValidUpTo(m)
  BY <1>1 DEF ValidUpTo
<1>5. \A c \in Consumers :
        consumed'[c] = ValidUpTo(IF c < next' THEN n ELSE n - 1)
  <2> SUFFICES ASSUME NEW c \in Consumers
               PROVE  consumed'[c] = ValidUpTo(IF c < next' THEN n ELSE n - 1)
    OBVIOUS
  <2>1. consumed[c] = ValidUpTo(IF c < next THEN n ELSE n - 1)
    BY <1>1 DEF DataInv
  <2>2. c \in Nat
    BY WorkerAssumption DEF Consumers
  <2>3. CASE c = next
    BY <1>1, <1>2, <1>3, <2>1, <2>3 DEF TypeOK
  <2>4. CASE c # next
    <3>1. (c < next) <=> (c < next')
      BY <1>1, <1>2, <2>2, <2>4
    <3> QED BY <1>1, <2>1, <2>4, <3>1 DEF TypeOK
  <2> QED BY <2>3, <2>4
<1>6. cause = "none" /\ counters.packets = n /\ IsValidDataPacket(log[n])
  BY <1>1 DEF FlagsInv, ToldInv, FlagsInv, ControlInv, LoopPCs, DataInv
<1>7. \A c \in Consumers : consumed'[c] \subseteq ValidUpTo(n)
  BY <1>3, <1>5
<1> QED BY <1>1, <1>4, <1>5, <1>6, <1>7 DEF DataInv, Settled, AfterLoopPCs

LEMMA ConsumedKeepsData ==
    ASSUME TypeOK, DataInv, ControlInv, Consumed
    PROVE  DataInv'
<1>1. /\ pc = "consume" /\ pc' = "check" /\ next \notin Consumers
      /\ UNCHANGED <<setup, log, file, counters, consumed, cause>>
  BY DEF Consumed, ctlVars, fileVars, consVars
<1>2. \A c \in Consumers : c < next
  BY <1>1, WorkerAssumption DEF TypeOK, Consumers
<1>3. /\ counters.packets = Len(log)
      /\ \A c \in Consumers : consumed[c] = ValidUpTo(Len(log))
  BY <1>1, <1>2 DEF DataInv
<1>4. \A m : ValidUpTo(m)' = ValidUpTo(m)
  BY <1>1 DEF ValidUpTo
<1> QED BY <1>1, <1>3, <1>4 DEF DataInv

\* What every step does to the data.
LEMMA DataStep ==
    ASSUME TypeOK, HasCurrent, ControlInv, DataInv, [Next]_vars
    PROVE  DataInv'
<1> USE DEF ctlVars, fileVars, consVars, Settled, AfterLoopPCs
<1>1. CASE CheckQuit
  BY <1>1, DataKept DEF CheckQuit
<1>2. CASE ReadPacket
  BY <1>2, ReadKeepsData
<1>3. CASE ReadTimeout
  <2>1. counters'.packets = counters.packets
        /\ counters'.listfile = counters.listfile
    BY <1>3 DEF ReadTimeout, TypeOK, CountersType
  <2> QED BY <1>3, <2>1, DataKept DEF ReadTimeout
<1>4. CASE ReadEnd
  BY <1>4, DataKept DEF ReadEnd
<1>5. CASE ReadThrows
  BY <1>5, DataKept DEF ReadThrows
<1>6. CASE WriteListfile
  BY <1>6, WriteKeepsData
<1>7. CASE WriteThrows
  BY <1>7, DataKept DEF WriteThrows
<1>8. CASE Count
  BY <1>8, CountKeepsData
<1>9. CASE Consume
  BY <1>9, ConsumeKeepsData
<1>10. CASE ConsumeThrows
  BY <1>10, DataKept DEF ConsumeThrows
<1>11. CASE Consumed
  BY <1>11, ConsumedKeepsData
<1>12. CASE StoreException
  BY <1>12, DataKept DEF StoreException
<1>13. CASE Finish
  BY <1>13, DataKept DEF Finish
<1>14. CASE ClearRunning
  BY <1>14, DataKept DEF ClearRunning
<1> USE DEF threadVars
<1>15. CASE Start
  BY <1>15, DataKept DEF Start
<1>16. CASE Spawn
  BY <1>16, DataKept DEF Spawn, FlagsInv, ControlInv
<1>17. CASE SpawnThrows
  BY <1>17, DataKept DEF SpawnThrows
<1>18. CASE RequestStop
  BY <1>18, DataKept DEF RequestStop
<1>19. CASE FinishStop
  BY <1>19, DataKept DEF FinishStop
<1>20. CASE RethrowException
  BY <1>20, DataKept DEF RethrowException
<1>21. CASE UNCHANGED vars
  BY <1>21, DataKept DEF vars
<1> QED BY <1>1, <1>2, <1>3, <1>4, <1>5, <1>6, <1>7, <1>8, <1>9, <1>10, <1>11,
           <1>12, <1>13, <1>14, <1>15, <1>16, <1>17, <1>18, <1>19, <1>20,
           <1>21, NextIsActions DEF Actions

LEMMA DataInvariant == Spec => [](TypeOK /\ HasCurrent /\ ControlInv /\ DataInv)
<1>1. Init => DataInv
  BY DataInit
<1>2. (TypeOK /\ HasCurrent /\ ControlInv) /\ DataInv /\ [Next]_vars => DataInv'
  BY DataStep
<1> QED BY <1>1, <1>2, ControlInvariant, PTL DEF Spec

\* Whatever a consumer has handled was recorded and counted before.
THEOREM WorkerWritesAhead == Spec => []WriteAhead
<1>1. TypeOK /\ DataInv => WriteAhead
  <2> SUFFICES ASSUME TypeOK, DataInv, NEW c \in Consumers, NEW k \in consumed[c]
               PROVE  /\ k \in ValidPositions
                      /\ k <= counters.packets
                      /\ setup.recording => k \in DOMAIN file /\ file[k] = log[k]
    BY DEF WriteAhead
  <2>1. Len(log) \in Nat /\ counters.packets \in Nat /\ Len(file) \in Nat
        /\ DOMAIN log = 1 .. Len(log) /\ DOMAIN file = 1 .. Len(file)
    BY DEF TypeOK, CountersType
  <2>2. k \in 1 .. counters.packets /\ IsValidDataPacket(log[k])
    BY DEF DataInv, ValidUpTo
  <2>3. /\ counters.packets <= Len(log)
        /\ setup.recording =>
              /\ counters.packets <= Len(file)
              /\ \A j \in 1 .. Len(file) : file[j] = log[j]
    BY DEF DataInv
  <2>4. k \in 1 .. Len(log) /\ (setup.recording => k \in 1 .. Len(file))
    BY <2>1, <2>2, <2>3
  <2> QED BY <2>1, <2>2, <2>3, <2>4 DEF ValidPositions
<1> QED BY <1>1, DataInvariant, PTL
-----------------------------------------------------------------------------
\* Only a call of consume() changes what was consumed.
LEMMA ConsumedBy == [Next]_vars /\ consumed' # consumed => Consume
<1> SUFFICES ASSUME [Next]_vars, ~Consume PROVE consumed' = consumed
  OBVIOUS
<1> USE DEF ctlVars, fileVars, consVars, threadVars
<1>1. CASE CheckQuit \/ ReadPacket \/ ReadTimeout \/ ReadEnd \/ ReadThrows
  BY <1>1 DEF CheckQuit, ReadPacket, ReadTimeout, ReadEnd, ReadThrows
<1>2. CASE WriteListfile \/ WriteThrows \/ Count \/ ConsumeThrows \/ Consumed
  BY <1>2 DEF WriteListfile, WriteThrows, Count, ConsumeThrows, Consumed
<1>3. CASE StoreException \/ Finish \/ ClearRunning
  BY <1>3 DEF StoreException, Finish, ClearRunning
<1>4. CASE Controller
  BY <1>4 DEF Controller, Start, Spawn, SpawnThrows, RequestStop, FinishStop,
              RethrowException
<1>5. CASE UNCHANGED vars
  BY <1>5 DEF vars
<1> QED BY <1>1, <1>2, <1>3, <1>4, <1>5, ThrowingIsFinishing DEF Next, Worker

\* The call for one consumer: it is the only one whose packets change, it gets
\* the current packet, and has all valid ones before it.
LEMMA ConsumeIs ==
    ASSUME TypeOK, HasCurrent, DataInv, Consume
    PROVE  /\ next \in Consumers /\ Len(log) \in Nat /\ Len(log) > 0
           /\ IsValidDataPacket(log[Len(log)])
           /\ consumed' = [consumed EXCEPT ![next] = @ \cup {Len(log)}]
           /\ \A c \in Consumers :
                 consumed[c] = ValidUpTo(IF c < next THEN Len(log) ELSE Len(log) - 1)
           /\ UNCHANGED log
  BY DEF Consume, DataInv, TypeOK, HasCurrent

\* Nothing reaches a consumer that was told the run is over, and packets reach
\* it in the order in which they were read.
THEOREM WorkerDeliversInOrder == Spec => NoPacketAfterFinished
<1> DEFINE InOrder ==
      \A c \in Consumers : consumed'[c] # consumed[c] =>
          /\ finished[c] = 0
          /\ \A k \in consumed'[c] \ consumed[c], j \in consumed[c] : j < k
<1>1. TypeOK /\ HasCurrent /\ ControlInv /\ DataInv /\ [Next]_vars => [InOrder]_vars
  <2> SUFFICES ASSUME TypeOK, HasCurrent, ControlInv, DataInv, [Next]_vars,
                      NEW c \in Consumers, consumed'[c] # consumed[c]
               PROVE  /\ finished[c] = 0
                      /\ \A k \in consumed'[c] \ consumed[c], j \in consumed[c] : j < k
    OBVIOUS
  <2>1. Consume
    BY ConsumedBy
  <2>2. finished[c] = 0
    BY <2>1 DEF Consume, FlagsInv, ControlInv, ToldInv, LoopPCs
  <2>3. c = next /\ consumed'[c] \ consumed[c] \subseteq {Len(log)}
    BY <2>1, ConsumeIs DEF TypeOK
  <2>4. consumed[c] \subseteq 1 .. Len(log) - 1
    <3>1. c \in Nat
      BY WorkerAssumption DEF Consumers
    <3> QED BY <2>1, <2>3, <3>1, ConsumeIs DEF ValidUpTo
  <2> QED BY <2>1, <2>2, <2>3, <2>4, ConsumeIs
<1> QED BY <1>1, DataInvariant, PTL DEF Spec, NoPacketAfterFinished
-----------------------------------------------------------------------------
\* The valid packets are those that were counted and not found invalid.
CountInv ==
    counters.invalid + Cardinality(ValidUpTo(counters.packets)) = counters.packets

LEMMA ValidUpToFinite ==
    ASSUME NEW n \in Nat
    PROVE  IsFiniteSet(ValidUpTo(n)) /\ Cardinality(ValidUpTo(n)) \in Nat
<1>1. IsFiniteSet(1 .. n)
  BY FS_Interval
<1>2. ValidUpTo(n) \subseteq 1 .. n
  BY DEF ValidUpTo
<1> QED BY <1>1, <1>2, FS_Subset, FS_CardinalityType

LEMMA CountKeepsCount ==
    ASSUME TypeOK, HasCurrent, DataInv, CountInv, Count
    PROVE  CountInv'
<1> DEFINE n == Len(log)
           valid == IsValidDataPacket(log[n])
<1>1. /\ n \in Nat /\ n > 0 /\ counters.packets = n - 1
      /\ counters.invalid \in Nat /\ UNCHANGED log
  BY DEF Count, DataInv, TypeOK, HasCurrent, CountersType
<1>2. counters'.packets = n
      /\ counters'.invalid = IF valid THEN counters.invalid ELSE counters.invalid + 1
  BY <1>1 DEF Count, Current, TypeOK, CountersType
<1>3. ValidUpTo(n) = IF valid THEN ValidUpTo(n - 1) \cup {n} ELSE ValidUpTo(n - 1)
  BY <1>1 DEF ValidUpTo
<1>4. /\ IsFiniteSet(ValidUpTo(n - 1)) /\ Cardinality(ValidUpTo(n - 1)) \in Nat
      /\ n \notin ValidUpTo(n - 1)
  <2>1. n - 1 \in Nat
    BY <1>1
  <2>2. n \notin ValidUpTo(n - 1)
    BY <1>1 DEF ValidUpTo
  <2> QED BY <2>1, <2>2, ValidUpToFinite
<1>5. valid => Cardinality(ValidUpTo(n)) = Cardinality(ValidUpTo(n - 1)) + 1
  BY <1>3, <1>4, FS_AddElement
<1>6. ~valid => Cardinality(ValidUpTo(n)) = Cardinality(ValidUpTo(n - 1))
  BY <1>3
<1>7. ValidUpTo(counters.packets)' = ValidUpTo(n)
  BY <1>1, <1>2 DEF ValidUpTo
<1>8. counters.invalid + Cardinality(ValidUpTo(n - 1)) = n - 1
  BY <1>1 DEF CountInv
<1> HIDE DEF n, valid
<1>9. counters'.invalid + Cardinality(ValidUpTo(n)) = n
  BY <1>1, <1>2, <1>4, <1>5, <1>6, <1>8
<1> QED BY <1>2, <1>7, <1>9 DEF CountInv

\* Every other step keeps the counters and the packets counted.
LEMMA CountStep ==
    ASSUME TypeOK, HasCurrent, DataInv, CountInv, [Next]_vars
    PROVE  CountInv'
<1> USE DEF ctlVars, fileVars, consVars, threadVars
<1>1. CASE Count
  BY <1>1, CountKeepsCount
<1>2. CASE ReadPacket
  <2>1. PICK p : log' = Append(log, p)
    BY <1>2 DEF ReadPacket
  <2>2. /\ counters.packets \in Nat /\ counters.packets <= Len(log) /\ Len(log) \in Nat
        /\ \A k \in 1 .. Len(log) : log'[k] = log[k]
    BY <2>1 DEF TypeOK, CountersType, DataInv
  <2>3. counters' = counters
    BY <1>2 DEF ReadPacket
  <2>4. ValidUpTo(counters.packets)' = ValidUpTo(counters.packets)
    BY <2>2, <2>3 DEF ValidUpTo
  <2> QED BY <2>3, <2>4 DEF CountInv
<1>3. CASE ReadTimeout
  <2>1. /\ counters'.packets = counters.packets
        /\ counters'.invalid = counters.invalid
        /\ UNCHANGED log
    BY <1>3 DEF ReadTimeout, TypeOK, CountersType
  <2> QED BY <2>1 DEF CountInv, ValidUpTo
<1>4. ASSUME UNCHANGED <<counters, log>> PROVE CountInv'
  BY <1>4 DEF CountInv, ValidUpTo
<1>5. CASE CheckQuit \/ ReadEnd \/ ReadThrows \/ WriteListfile \/ WriteThrows
  BY <1>4, <1>5 DEF CheckQuit, ReadEnd, ReadThrows, WriteListfile, WriteThrows
<1>6. CASE Consume \/ ConsumeThrows \/ Consumed \/ StoreException \/ Finish
               \/ ClearRunning
  BY <1>4, <1>6 DEF Consume, ConsumeThrows, Consumed, StoreException, Finish,
                    ClearRunning
<1>7. CASE Controller
  BY <1>4, <1>7 DEF Controller, Start, Spawn, SpawnThrows, RequestStop, FinishStop,
                    RethrowException
<1>8. CASE UNCHANGED vars
  BY <1>4, <1>8 DEF vars
<1> QED BY <1>1, <1>2, <1>3, <1>5, <1>6, <1>7, <1>8, ThrowingIsFinishing DEF Next, Worker

LEMMA CountInvariant ==
    Spec => [](TypeOK /\ HasCurrent /\ ControlInv /\ DataInv /\ CountInv)
<1>1. Init => CountInv
  <2> SUFFICES ASSUME Init PROVE CountInv
    OBVIOUS
  <2>1. ValidUpTo(0) = {} /\ counters.packets = 0 /\ counters.invalid = 0
    BY DEF Init, NoCounters, ValidUpTo
  <2> QED BY <2>1, FS_EmptySet DEF CountInv
<1>2. (TypeOK /\ HasCurrent /\ ControlInv /\ DataInv) /\ CountInv /\ [Next]_vars
        => CountInv'
  BY CountStep
<1> QED BY <1>1, <1>2, DataInvariant, PTL DEF Spec

\* A run that met no error has lost nothing on the way to consumers, counters
\* and listfile.
THEOREM WorkerRunIsComplete == Spec => []RunIsComplete
<1>1. TypeOK /\ DataInv /\ CountInv => RunIsComplete
  <2> SUFFICES ASSUME TypeOK, DataInv, CountInv, pc = "joined", cause # "error"
               PROVE  /\ \A c \in Consumers : consumed[c] = ValidPositions
                      /\ counters.packets = Len(log)
                      /\ counters.invalid + Cardinality(ValidPositions) = Len(log)
                      /\ setup.recording => file = log /\ counters.listfile = Len(log)
                      /\ cause = "end" => Len(log) = setup.size
    BY DEF RunIsComplete
  <2>1. ValidUpTo(Len(log)) = ValidPositions
    BY DEF TypeOK, ValidUpTo, ValidPositions
  <2>2. /\ counters.packets = Len(log)
        /\ \A c \in Consumers : consumed[c] = ValidPositions
    BY <2>1 DEF DataInv, Settled, AfterLoopPCs
  <2>3. ASSUME setup.recording PROVE file = log
    <3>1. /\ Len(file) = Len(log)
          /\ \A k \in 1 .. Len(file) : file[k] = log[k]
      BY <2>2, <2>3 DEF DataInv, TypeOK
    <3> QED BY <3>1 DEF TypeOK
  <2> QED BY <2>1, <2>2, <2>3 DEF DataInv, CountInv
<1> QED BY <1>1, CountInvariant, PTL
-----------------------------------------------------------------------------
\* The steps of the worker that the promise to the consumers knows.
LEMMA FanoutPositions ==
    TypeOK => Fanout!ValidPositions = ValidUpTo(Len(log)) /\ Fanout!Consumers = Consumers
  BY DEF TypeOK, Fanout!ValidPositions, ValidUpTo, Fanout!Consumers, Consumers

LEMMA ReadAccepts ==
    ASSUME TypeOK, DataInv, ControlInv, ReadPacket
    PROVE  \E p \in Deliverable : Fanout!Accept(p)
<1>1. PICK p \in Packets :
        log' = Append(log, IF setup.kind = "udp" THEN p ELSE FromListfile(p))
  BY DEF ReadPacket
<1> DEFINE q == IF setup.kind = "udp" THEN p ELSE FromListfile(p)
<1>2. q \in Deliverable
  BY DEF Deliverable
<1>3. Fanout!CaughtUp
  <2>1. \A c \in Consumers : consumed[c] = ValidUpTo(Len(log))
    BY DEF ReadPacket, DataInv, Settled
  <2> QED BY <2>1, FanoutPositions DEF Fanout!CaughtUp
<1>4. pc = "read" /\ pc' = "write" /\ UNCHANGED consumed
  BY DEF ReadPacket, consVars
<1>5. Fanout!Accept(q)
  BY <1>1, <1>3, <1>4 DEF Fanout!Accept, LoopPCs
<1> QED BY <1>2, <1>5

LEMMA ConsumeDelivers ==
    ASSUME TypeOK, HasCurrent, DataInv, Consume
    PROVE  \E c \in Consumers : Fanout!Deliver(c)
<1> DEFINE n == Len(log)
<1>1. /\ next \in Consumers /\ n \in Nat /\ n > 0 /\ IsValidDataPacket(log[n])
      /\ consumed' = [consumed EXCEPT ![next] = @ \cup {n}] /\ UNCHANGED log
      /\ \A c \in Consumers : consumed[c] = ValidUpTo(IF c < next THEN n ELSE n - 1)
  BY ConsumeIs
<1>2. pc = "consume" /\ UNCHANGED pc
  BY DEF Consume
<1>3. n \in ValidUpTo(n) /\ n \notin ValidUpTo(n - 1) /\ ~(next < next)
  BY <1>1, WorkerAssumption DEF ValidUpTo, Consumers
<1>4. n \in Fanout!ValidPositions \ consumed[next]
  BY <1>1, <1>3, FanoutPositions
<1>5. \A d \in Fanout!Consumers : d < next => n \in consumed[d]
  BY <1>1, <1>3, FanoutPositions
<1>6. Fanout!Deliver(next)
  BY <1>1, <1>2, <1>4, <1>5 DEF Fanout!Deliver, LoopPCs
<1> QED BY <1>1, <1>6

\* Leaving the loop without an error, with all packets handed out.
LEMMA EndCloses ==
    ASSUME TypeOK, DataInv, ControlInv, pc \in {"check", "read"}, pc' = "finish",
           cause' \in {"quit", "end"}, UNCHANGED <<log, consumed>>
    PROVE  Fanout!Close
<1>1. \A c \in Consumers : consumed[c] = ValidUpTo(Len(log))
  BY DEF DataInv, Settled
<1>2. Fanout!CaughtUp
  BY <1>1, FanoutPositions DEF Fanout!CaughtUp
<1> QED BY <1>2 DEF Fanout!Close, LoopPCs

LEMMA ThrowFails ==
    ASSUME pc \in {"read", "write", "consume"}, pc' = "catch",
           UNCHANGED <<log, consumed>>
    PROVE  Fanout!Fail
  BY DEF Fanout!Fail, LoopPCs

\* Every other step leaves what the promise is about as it is.
LEMMA OthersStutter ==
    ASSUME UNCHANGED <<log, consumed>>, cause' = cause \/ cause' = "error",
           \/ pc' = pc /\ cause' = cause
           \/ pc \in LoopPCs \ {"catch"} /\ pc' \in LoopPCs \ {"catch"}
           \/ pc = "none" /\ pc' = "check"
           \/ pc = "catch" /\ pc' = "finish" /\ cause' = "error"
           \/ pc \in AfterLoopPCs /\ pc' \in AfterLoopPCs /\ cause' = cause
    PROVE  UNCHANGED Fanout!vars
  BY DEF Fanout!vars, LoopPCs, AfterLoopPCs

LEMMA StepIsFanoutStep ==
    ASSUME TypeOK, HasCurrent, ControlInv, DataInv, [Next]_vars
    PROVE  [Fanout!Next]_(Fanout!vars)
<1> USE DEF ctlVars, fileVars, consVars, threadVars, Fanout!Next
<1>1. CASE CheckQuit
  <2>1. CASE quit
    BY <1>1, <2>1, EndCloses DEF CheckQuit
  <2>2. CASE ~quit
    BY <1>1, <2>2, OthersStutter DEF CheckQuit, LoopPCs
  <2> QED BY <2>1, <2>2
<1>2. CASE ReadPacket
  BY <1>2, ReadAccepts
<1>3. CASE ReadEnd
  BY <1>3, EndCloses DEF ReadEnd
<1>4. CASE ReadThrows \/ WriteThrows \/ ConsumeThrows
  BY <1>4, ThrowFails DEF ReadThrows, WriteThrows, ConsumeThrows
<1>5. CASE Consume
  BY <1>5, ConsumeDelivers, FanoutPositions
<1>6. CASE ReadTimeout \/ WriteListfile \/ Count \/ Consumed
  BY <1>6, OthersStutter DEF ReadTimeout, WriteListfile, Count, Consumed, LoopPCs
<1>7. CASE StoreException
  BY <1>7, OthersStutter DEF StoreException
<1>8. CASE Finish \/ ClearRunning
  BY <1>8, OthersStutter DEF Finish, ClearRunning, AfterLoopPCs
<1>9. CASE Start \/ Spawn \/ SpawnThrows \/ RequestStop \/ RethrowException
  BY <1>9, OthersStutter
     DEF Start, Spawn, SpawnThrows, RequestStop, RethrowException, FlagsInv, ToldInv, ControlInv
<1>10. CASE FinishStop
  BY <1>10, OthersStutter DEF FinishStop, AfterLoopPCs
<1>11. CASE UNCHANGED vars
  BY <1>11, OthersStutter DEF vars
<1> QED BY <1>1, <1>2, <1>3, <1>4, <1>5, <1>6, <1>7, <1>8, <1>9, <1>10, <1>11, ThrowingIsFinishing
        DEF Next, Worker, Controller

\* The worker keeps the promise of PacketFanout, whatever is read, stopped or
\* thrown.
THEOREM WorkerImplementsFanout == Spec => ImplementsFanout
<1>1. Init => Fanout!Init
  BY DEF Init, Fanout!Init, LoopPCs, Fanout!Consumers, Consumers
<1>2. TypeOK /\ HasCurrent /\ ControlInv /\ DataInv /\ [Next]_vars
        => [Fanout!Next]_(Fanout!vars)
  BY StepIsFanoutStep
<1> QED BY <1>1, <1>2, DataInvariant, PTL DEF Spec, Fanout!Spec, ImplementsFanout
-----------------------------------------------------------------------------
(* The part of StopReturns and ReplayEnds that needs no fairness: how far  *)
(* the thread still is from its end.                                       *)

\* Stages of the loop once quit_ is set: one pass, from read() to the test of quit_.
StagesToStop(p) ==
    CASE p = "read" -> 7 [] p = "write" -> 6 [] p = "count" -> 5 [] p = "consume" -> 4
      [] p = "check" -> 3 [] p = "catch" -> 2 [] p = "finish" -> 1 [] OTHER -> 0

\* Stages of the loop until a replay has read the next record, or is over.
StagesToRead(p) ==
    CASE p = "write" -> 7 [] p = "count" -> 6 [] p = "consume" -> 5 [] p = "check" -> 4
      [] p = "read" -> 3 [] p = "catch" -> 2 [] p = "finish" -> 1 [] OTHER -> 0

\* The loop over the consumers goes on with the next one.
NextConsumer == UNCHANGED pc /\ next' \in next + 1 .. NumConsumers + 1

\* While stop() joins the thread, each step brings the thread nearer to its end, or
\* a loop over the consumers nearer to its own: no packet that arrives and no
\* consumer that throws starts a further pass of the loop.
StopProgress ==
    [][ctl = "join" /\ ctl' = "join" =>
          /\ quit /\ quit'
          /\ \/ StagesToStop(pc') < StagesToStop(pc)
             \/ NextConsumer]_vars

\* Each step of a replay's thread reads one of the records that are left, or brings
\* it nearer to the next read or to its end: no record is read twice, and nothing
\* keeps the loop from reaching the end of the listfile.
ReplayProgress ==
    [][setup.kind = "listfile" /\ Worker =>
          \/ Len(log') = Len(log) + 1 /\ Len(log') <= setup.size
          \/ UNCHANGED log /\ StagesToRead(pc') < StagesToRead(pc)
          \/ UNCHANGED log /\ NextConsumer]_vars

\* stop() sets quit_ before it joins, and nothing takes that back.
QuitInv == ctl = "join" => quit

LEMMA QuitStep == QuitInv /\ [Next]_vars => QuitInv'
<1> SUFFICES ASSUME QuitInv, [Next]_vars PROVE QuitInv'
  OBVIOUS
<1> USE DEF QuitInv
<1>1. CASE Worker
  <2>1. UNCHANGED <<ctl, quit>>
    BY <1>1 DEF Worker, CheckQuit, ReadPacket, ReadTimeout, ReadEnd, ReadThrows, WriteListfile,
           WriteThrows, Count, Consume, ConsumeThrows, Consumed, StoreException, Finish,
           FinishThrows, ClearRunning, ctlVars
  <2> QED BY <2>1
<1>2. CASE Controller
  BY <1>2 DEF Controller, Start, Spawn, SpawnThrows, RequestStop, FinishStop, RethrowException
<1>3. CASE UNCHANGED vars
  BY <1>3 DEF vars, ctlVars
<1> QED BY <1>1, <1>2, <1>3 DEF Next

LEMMA QuitInvariant == Spec => []QuitInv
<1>1. Init => QuitInv
  BY DEF Init, QuitInv
<1> QED BY <1>1, QuitStep, PTL DEF Spec

LEMMA SetupFacts ==
    ASSUME NEW s \in Setups
    PROVE  /\ s.size \in 0 .. MaxPackets
           /\ s.recording => s.kind = "udp"
           /\ s.kind \in {"udp", "listfile"}
<1>1. CASE s \in [kind : {"udp"}, recording : BOOLEAN, size : {MaxPackets}]
  BY <1>1, WorkerAssumption
<1>2. CASE s \in [kind : {"listfile"}, recording : {FALSE}, size : 0 .. MaxPackets]
  BY <1>2
<1> QED BY <1>1, <1>2 DEF Setups

\* Where the steps of the thread lead.
LEMMA ThreadSteps ==
    ASSUME TypeOK, Worker
    PROVE  \/ pc = "check" /\ quit /\ pc' = "finish" /\ UNCHANGED log
           \/ pc = "check" /\ ~quit /\ pc' = "read" /\ UNCHANGED log
           \/ /\ pc = "read" /\ pc' = "write"
              /\ Len(log) < setup.size /\ Len(log') = Len(log) + 1
           \/ pc = "read" /\ setup.kind = "udp" /\ pc' = "check" /\ UNCHANGED log
           \/ pc = "read" /\ pc' \in {"finish", "catch"} /\ UNCHANGED log
           \/ pc = "write" /\ pc' \in {"count", "catch"} /\ UNCHANGED log
           \/ pc = "count" /\ pc' \in {"consume", "check"} /\ UNCHANGED log
           \/ pc = "consume" /\ pc' \in {"check", "catch"} /\ UNCHANGED log
           \/ pc = "catch" /\ pc' = "finish" /\ UNCHANGED log
           \/ pc = "finish" /\ pc' = "ended" /\ UNCHANGED log
           \/ NextConsumer /\ pc \in {"consume", "finish"} /\ UNCHANGED log
<1>1. CASE CheckQuit
  BY <1>1 DEF CheckQuit
<1>2. CASE ReadPacket
  <2>1. PICK p : log' = Append(log, p)
    BY <1>2 DEF ReadPacket
  <2>2. Len(log') = Len(log) + 1
    BY <2>1 DEF TypeOK
  <2> QED BY <1>2, <2>2 DEF ReadPacket
<1>3. CASE ReadTimeout
  BY <1>3 DEF ReadTimeout
<1>4. CASE ReadEnd \/ ReadThrows
  BY <1>4 DEF ReadEnd, ReadThrows
<1>5. CASE WriteListfile \/ WriteThrows
  BY <1>5 DEF WriteListfile, WriteThrows
<1>6. CASE Count
  BY <1>6 DEF Count
<1>7. CASE ConsumeThrows \/ Consumed
  BY <1>7 DEF ConsumeThrows, Consumed
<1>8. CASE StoreException
  BY <1>8 DEF StoreException
<1>9. CASE ClearRunning
  BY <1>9 DEF ClearRunning
<1>10. CASE Consume \/ Finish
  <2>1. /\ next \in Consumers /\ next' = next + 1 /\ UNCHANGED <<pc, log>>
        /\ pc \in {"consume", "finish"}
    BY <1>10 DEF Consume, Finish
  <2>2. next + 1 \in next + 1 .. NumConsumers + 1
    BY <2>1, WorkerAssumption DEF Consumers
  <2> QED BY <2>1, <2>2 DEF NextConsumer
<1> QED BY <1>1, <1>2, <1>3, <1>4, <1>5, <1>6, <1>7, <1>8, <1>9, <1>10, ThrowingIsFinishing DEF Worker

LEMMA StopStep ==
    ASSUME TypeOK, QuitInv, [Next]_vars, ctl = "join", ctl' = "join", ~UNCHANGED vars
    PROVE  quit /\ quit' /\ (StagesToStop(pc') < StagesToStop(pc) \/ NextConsumer)
<1>1. quit /\ quit'
  <2>1. QuitInv'
    BY QuitStep
  <2> QED BY <2>1 DEF QuitInv
<1>2. ~Controller
  BY DEF Controller, Start, Spawn, SpawnThrows, RequestStop, FinishStop, RethrowException
<1>3. Worker
  BY <1>2 DEF Next
<1>4. setup.kind = "udp" /\ pc = "read" /\ pc' = "check" => StagesToStop(pc') < StagesToStop(pc)
  BY DEF StagesToStop
<1> QED BY <1>1, <1>3, <1>4, ThreadSteps DEF StagesToStop

\* stop() waits for one pass of the loop at most: for any number of consumers the
\* thread has a bounded number of steps left when quit_ is set.
THEOREM WorkerStopsWithinOnePass == Spec => StopProgress
<1>1. TypeOK /\ QuitInv /\ [Next]_vars
        => [ctl = "join" /\ ctl' = "join" =>
              /\ quit /\ quit'
              /\ \/ StagesToStop(pc') < StagesToStop(pc)
                 \/ NextConsumer]_vars
  BY StopStep
<1> QED BY <1>1, WorkerTypeCorrect, QuitInvariant, PTL DEF Spec, StopProgress

LEMMA ReplayStep ==
    ASSUME TypeOK, setup.kind = "listfile", Worker
    PROVE  \/ Len(log') = Len(log) + 1 /\ Len(log') <= setup.size
           \/ UNCHANGED log /\ StagesToRead(pc') < StagesToRead(pc)
           \/ UNCHANGED log /\ NextConsumer
<1>1. Len(log) \in Nat
  BY DEF TypeOK
<1>2. setup.size \in Nat
  BY SetupFacts, WorkerAssumption DEF TypeOK
<1>3. Len(log) < setup.size => Len(log) + 1 <= setup.size
  BY <1>1, <1>2
<1> QED BY <1>3, ThreadSteps DEF StagesToRead

\* A replay of any length comes to its end by itself: between two records there is
\* a bounded number of steps, and each record is read once.
THEOREM ReplayGoesThroughTheFile == Spec => ReplayProgress
<1>1. TypeOK
        => [setup.kind = "listfile" /\ Worker =>
              \/ Len(log') = Len(log) + 1 /\ Len(log') <= setup.size
              \/ UNCHANGED log /\ StagesToRead(pc') < StagesToRead(pc)
              \/ UNCHANGED log /\ NextConsumer]_vars
  BY ReplayStep
<1> QED BY <1>1, WorkerTypeCorrect, PTL DEF Spec, ReplayProgress
-----------------------------------------------------------------------------
(* Second part: the Daq.                                                   *)

WorkerInv == TypeOK /\ HasCurrent /\ ControlInv /\ DataInv

\* A new worker is as good as any.
LEMMA NewWorkerInv ==
    ASSUME NEW s \in Setups, NEW spawned \in BOOLEAN, StartWorker(s, spawned)
    PROVE  WorkerInv'
<1> USE DEF StartWorker
<1>1. s.recording \in BOOLEAN
  BY DEF Setups
<1>2. NoCounters \in CountersType
  BY DEF NoCounters, CountersType
<1>3. TypeOK'
  <2>1. 1 \in 1 .. NumConsumers + 1
    BY WorkerAssumption
  <2>2. << >> \in Seq(Deliverable) /\ 0 \in 0 .. Len(<< >>)
    OBVIOUS
  <2> QED BY <1>1, <1>2, <2>1, <2>2 DEF TypeOK, PCs
<1>4. HasCurrent'
  BY DEF HasCurrent
<1>5. ControlInv'
  BY DEF ControlInv, FlagsInv, ToldInv, LoopPCs
<1>6. DataInv'
  <2>1. Len(log') = 0 /\ Len(file') = 0 /\ ValidUpTo(0)' = {}
    BY DEF ValidUpTo
  <2>2. \A c \in Consumers : consumed'[c] = {}
    OBVIOUS
  <2> QED BY <2>1, <2>2 DEF NoCounters, DataInv, Settled, AfterLoopPCs
<1> QED BY <1>3, <1>4, <1>5, <1>6 DEF WorkerInv

LEMMA WorkerInvStep ==
    ASSUME WorkerInv, [Next]_vars
    PROVE  WorkerInv'
  BY TypeStep, ControlStep, DataStep DEF WorkerInv

\* What a step of the worker thread leaves alone.
LEMMA WorkerLeaves ==
    ASSUME Worker
    PROVE  /\ UNCHANGED ctlVars
           /\ log' # log => ReadPacket
           /\ file' # file => WriteListfile
           /\ cause' = "end" => cause = "end" \/ ReadEnd
           /\ pc \in LoopPCs \cup {"finish"}
           /\ pc' \in LoopPCs => pc \in LoopPCs
           /\ pc' # "joined"
<1> USE DEF fileVars, consVars, LoopPCs
<1>1. CASE CheckQuit
  BY <1>1 DEF CheckQuit
<1>2. CASE ReadPacket
  BY <1>2 DEF ReadPacket
<1>3. CASE ReadTimeout
  BY <1>3 DEF ReadTimeout
<1>4. CASE ReadEnd
  BY <1>4 DEF ReadEnd
<1>5. CASE ReadThrows
  BY <1>5 DEF ReadThrows
<1>6. CASE WriteListfile
  BY <1>6 DEF WriteListfile
<1>7. CASE WriteThrows
  BY <1>7 DEF WriteThrows
<1>8. CASE Count
  BY <1>8 DEF Count
<1>9. CASE Consume \/ ConsumeThrows \/ Consumed
  BY <1>9 DEF Consume, ConsumeThrows, Consumed
<1>10. CASE StoreException
  BY <1>10 DEF StoreException
<1>11. CASE Finish \/ ClearRunning
  BY <1>11 DEF Finish, ClearRunning
<1> QED BY <1>1, <1>2, <1>3, <1>4, <1>5, <1>6, <1>7, <1>8, <1>9, <1>10, <1>11, ThrowingIsFinishing DEF Worker
-----------------------------------------------------------------------------
(* The listfile.                                                           *)

\* Stream and replay agree with the listfile; what is recorded fits it, unless a
\* stream is open, which will say anew what is recorded when it is closed.
StreamInv ==
    /\ fileOpen => setup.recording
    /\ file \in Seq(Packets)
    /\ setup.kind = "udp" => log \in Seq(Packets)
    /\ Len(log) <= setup.size
    /\ cause = "end" => setup.kind = "listfile"

ReplayInv ==
    setup.kind = "listfile" =>
        /\ setup.size = Len(listfile)
        /\ \A k \in 1 .. Len(log) : log[k] = FromListfile(listfile[k])

Keeps(records, seen) ==
    \A k \in seen : k \in 1 .. Len(records) /\ IsValidDataPacket(FromListfile(records[k]))

ListfileInv ==
    /\ listfile \in Seq(Packets)
    /\ Len(listfile) <= MaxPackets
    /\ recorded \in Recording
    /\ ~fileOpen /\ recorded.whole => Len(listfile) = recorded.records /\ Keeps(listfile, recorded.seen)

FileInv == StreamInv /\ ReplayInv /\ ListfileInv

LEMMA ValidWhenReplayed ==
    ASSUME NEW p \in Packets, IsValidDataPacket(p)
    PROVE  IsValidDataPacket(FromListfile(p))
<1>1. p \in PacketType /\ p.bytes <= DataPacketBytes
  BY WorkerAssumption, DaqAssumption
<1> QED BY <1>1, SMT DEF PacketType, IsValidDataPacket, FromListfile, DataLength, DataPacketBytes,
             DataPacketHeaderWords, DataPacketMaxDataWords

LEMMA StepKeepsStream ==
    ASSUME WorkerInv, StreamInv, Worker
    PROVE  StreamInv'
<1> USE WorkerLeaves DEF ctlVars, StreamInv
<1>1. /\ log \in Seq(Deliverable) /\ setup \in Setups
      /\ pc = "write" => Len(log) > 0
  BY DEF WorkerInv, TypeOK, HasCurrent
<1>2. setup.recording => setup.kind = "udp"
  BY <1>1 DEF Setups
<1>3. CASE ReadPacket
  <2>1. PICK p \in Packets :
          log' = Append(log, IF setup.kind = "udp" THEN p ELSE FromListfile(p))
    BY <1>3 DEF ReadPacket
  <2>2. Len(log') = Len(log) + 1 /\ Len(log) \in Nat
    BY <1>1, <2>1
  <2>3. Len(log) < setup.size
    BY <1>3 DEF ReadPacket
  <2>4. setup.size \in Nat
    BY <1>1, SetupFacts, WorkerAssumption
  <2> QED BY <1>3, <2>1, <2>2, <2>3, <2>4 DEF ReadPacket, fileVars
<1>4. CASE WriteListfile
  <2>1. setup.recording => Current \in Packets
    BY <1>1, <1>2, <1>4 DEF WriteListfile, Current
  <2> QED BY <1>4, <2>1 DEF WriteListfile, fileVars
<1>5. CASE ReadEnd
  BY <1>5 DEF ReadEnd, fileVars
<1>6. CASE ~ReadPacket /\ ~WriteListfile /\ ~ReadEnd
  BY <1>6
<1> QED BY <1>3, <1>4, <1>5, <1>6

LEMMA StepKeepsReplay ==
    ASSUME WorkerInv, StreamInv, ReplayInv, WorkerStep
    PROVE  ReplayInv'
<1>1. UNCHANGED <<setup, listfile>>
  BY WorkerLeaves DEF WorkerStep, ctlVars
<1>2. CASE log' = log
  BY <1>1, <1>2 DEF ReplayInv
<1>3. CASE log' # log /\ setup.kind = "listfile"
  <2>1. log' = Append(log, FromListfile(listfile[Len(log) + 1]))
    BY <1>3 DEF WorkerStep, ReadsListfile
  <2>2. log \in Seq(Deliverable)
    BY DEF WorkerInv, TypeOK
  <2> HIDE DEF FromListfile
  <2>3. \A k \in 1 .. Len(log') : log'[k] = FromListfile(listfile[k])
    <3> TAKE k \in 1 .. Len(log')
    <3>1. Len(log') = Len(log) + 1 /\ Len(log) \in Nat
      BY <2>1, <2>2
    <3>2. CASE k = Len(log) + 1
      BY <2>1, <2>2, <3>2
    <3>3. CASE k # Len(log) + 1
      <4>1. k \in 1 .. Len(log)
        BY <3>1, <3>3
      <4> QED BY <1>3, <2>1, <2>2, <4>1 DEF ReplayInv
    <3> QED BY <3>2, <3>3
  <2> QED BY <1>1, <1>3, <2>3 DEF ReplayInv
<1> QED BY <1>1, <1>2, <1>3 DEF ReplayInv

LEMMA StepKeepsFiles ==
    ASSUME WorkerInv, FileInv, WorkerStep
    PROVE  FileInv'
<1>1. UNCHANGED <<fileOpen, listfile, recorded>>
  BY WorkerLeaves DEF WorkerStep, ctlVars
<1>2. ListfileInv'
  BY <1>1 DEF FileInv, ListfileInv, Keeps
<1> QED BY <1>2, StepKeepsStream, StepKeepsReplay DEF FileInv, WorkerStep

LEMMA SeqOf ==
    ASSUME NEW S, NEW n \in Nat, NEW f, f = [k \in 1 .. n |-> f[k]],
           \A k \in 1 .. n : f[k] \in S
    PROVE  f \in Seq(S) /\ Len(f) = n
<1>1. f \in [1 .. n -> S]
  OBVIOUS
<1> QED BY <1>1, SMT

\* How much of the recording the disk may have when the stream is closed.
LEMMA FlushBounds ==
    ASSUME WorkerInv, FileInv, NEW d \in Flushes, fileOpen
    PROVE  /\ d \in Nat /\ Len(file) \in Nat /\ d <= Len(file) /\ Len(file) <= MaxPackets
           /\ setup.recording
<1>1. /\ disk \in 0 .. Len(file) /\ setup \in Setups
      /\ file \in Seq(Packets) /\ log \in Seq(Deliverable)
  BY DEF WorkerInv, TypeOK, FileInv, StreamInv
<1>2. setup.recording /\ Len(log) <= setup.size
  BY DEF FileInv, StreamInv
<1>3. Len(file) <= Len(log)
  BY <1>2 DEF WorkerInv, DataInv
<1>4. setup.size \in 0 .. MaxPackets /\ Len(log) \in Nat /\ Len(file) \in Nat
  BY <1>1, SetupFacts
<1>5. d \in disk .. Len(file)
  BY DEF Flushes
<1> QED BY <1>1, <1>2, <1>3, <1>4, <1>5, WorkerAssumption

\* The consumers have seen only what is in the listfile.
LEMMA SeenIsInFile ==
    ASSUME WorkerInv, FileInv, fileOpen, NEW k \in consumed[1]
    PROVE  k \in 1 .. Len(file) /\ IsValidDataPacket(FromListfile(file[k]))
<1>1. setup.recording /\ file \in Seq(Packets)
  BY DEF FileInv, StreamInv
<1>2. 1 \in Consumers
  BY DaqAssumption DEF Consumers
<1>3. k \in ValidUpTo(counters.packets) /\ counters.packets <= Len(file)
  BY <1>1, <1>2 DEF WorkerInv, DataInv
<1>4. counters.packets \in Nat /\ Len(file) \in Nat
  BY <1>1 DEF WorkerInv, TypeOK, CountersType
<1>5. k \in 1 .. Len(file) /\ IsValidDataPacket(log[k])
  BY <1>3, <1>4 DEF ValidUpTo
<1>6. file[k] = log[k] /\ file[k] \in Packets
  BY <1>1, <1>5 DEF WorkerInv, DataInv
<1> QED BY <1>5, <1>6, ValidWhenReplayed

LEMMA RecordedType ==
    ASSUME WorkerInv, FileInv, NEW d \in Flushes
    PROVE  Recorded(d) \in Recording
<1>1. CASE ~fileOpen
  BY <1>1 DEF Recorded, FileInv, ListfileInv
<1>2. CASE fileOpen
  <2>1. d \in Nat /\ consumed[1] \in SUBSET Nat
    BY <1>2, FlushBounds, DaqAssumption DEF WorkerInv, TypeOK, Consumers
  <2> QED BY <1>2, <2>1 DEF Recorded, Recording
<1> QED BY <1>1, <1>2

\* What is on disk and known of the recording when the stream is closed.
LEMMA ClosingKeepsListfile ==
    ASSUME WorkerInv, FileInv, NEW d \in Flushes,
           listfile' = Closed(d), recorded' = Recorded(d)
    PROVE  /\ listfile' \in Seq(Packets) /\ Len(listfile') <= MaxPackets
           /\ recorded'.whole =>
                 Len(listfile') = recorded'.records /\ Keeps(listfile', recorded'.seen)
<1>1. CASE ~fileOpen
  BY <1>1 DEF Closed, Recorded, FileInv, ListfileInv, Keeps
<1>2. CASE fileOpen
  <2> DEFINE n == IF d > Len(listfile) THEN d ELSE Len(listfile)
  <2>1. /\ d \in Nat /\ Len(file) \in Nat /\ d <= Len(file) /\ Len(file) <= MaxPackets
        /\ file \in Seq(Packets)
        /\ listfile \in Seq(Packets) /\ Len(listfile) <= MaxPackets /\ Len(listfile) \in Nat
    BY <1>2, FlushBounds DEF FileInv, StreamInv, ListfileInv
  <2>2. listfile' = [k \in 1 .. n |-> IF k <= d THEN file[k] ELSE listfile[k]]
    BY <1>2 DEF Closed, Overlaid
  <2>3. n \in Nat /\ n <= MaxPackets
    BY <2>1, WorkerAssumption
  <2>4. \A k \in 1 .. n : listfile'[k] = IF k <= d THEN file[k] ELSE listfile[k]
    BY <2>2
  <2>5. \A k \in 1 .. n : listfile'[k] \in Packets
    BY <2>1, <2>4
  <2>6. listfile' \in Seq(Packets) /\ Len(listfile') = n
    <3> HIDE DEF n
    <3>1. listfile' = [k \in 1 .. n |-> listfile'[k]]
      BY <2>2
    <3> QED BY <2>3, <2>5, <3>1, SeqOf
  <2>7. recorded' = [records |-> d, seen |-> consumed[1],
                     whole |-> d = Len(file) /\ listfile = << >>]
    BY <1>2 DEF Recorded
  <2>8. ASSUME recorded'.whole
         PROVE  Len(listfile') = recorded'.records /\ Keeps(listfile', recorded'.seen)
    <3>1. d = Len(file) /\ Len(listfile) = 0
      <4> DEFINE whole == d = Len(file) /\ listfile = << >>
      <4>1. recorded' = [records |-> d, seen |-> consumed[1], whole |-> whole]
        BY <2>7
      <4> HIDE DEF whole
      <4>2. recorded'.whole = whole
        BY <4>1
      <4>3. whole
        BY <2>8, <4>2
      <4> QED BY <4>3 DEF whole
    <3>2. n = Len(file)
      BY <2>1, <3>1
    <3>3. \A k \in consumed[1] :
            k \in 1 .. Len(file) /\ IsValidDataPacket(FromListfile(file[k]))
      BY <1>2, SeenIsInFile
    <3>4. \A k \in 1 .. Len(file) : listfile'[k] = file[k]
      BY <2>1, <2>4, <3>1, <3>2
    <3> QED BY <2>6, <2>7, <3>1, <3>2, <3>3, <3>4 DEF Keeps
  <2> QED BY <2>3, <2>6, <2>8
<1> QED BY <1>1, <1>2

\* A file that is truncated while an old stream is open.
LEMMA TruncatingKeepsType ==
    ASSUME WorkerInv, FileInv, NEW d \in Flushes
    PROVE  FlushedInto(d) \in Seq(Packets) /\ Len(FlushedInto(d)) <= MaxPackets
<1> DEFINE L == FlushedInto(d)
<1>1. CASE ~(fileOpen /\ d > disk)
  BY <1>1, WorkerAssumption DEF FlushedInto
<1>2. CASE fileOpen /\ d > disk
  <2>1. /\ d \in Nat /\ d <= Len(file) /\ Len(file) \in Nat /\ Len(file) <= MaxPackets
        /\ file \in Seq(Packets) /\ Hole \in Packets
    BY <1>2, FlushBounds, DaqAssumption DEF FileInv, StreamInv
  <2>2. L = [k \in 1 .. d |-> IF k <= disk THEN Hole ELSE file[k]]
    BY <1>2 DEF FlushedInto
  <2>3. \A k \in 1 .. d : L[k] \in Packets
    BY <2>1, <2>2
  <2> HIDE DEF L
  <2>4. L = [k \in 1 .. d |-> L[k]]
    BY <2>2
  <2>5. L \in Seq(Packets) /\ Len(L) = d
    BY <2>1, <2>3, <2>4, SeqOf
  <2> QED BY <2>1, <2>5, WorkerAssumption DEF L
<1> QED BY <1>1, <1>2

LEMMA StartReadoutKeepsFiles ==
    ASSUME WorkerInv, FileInv, StartReadout
    PROVE  WorkerInv' /\ FileInv'
<1>1. PICK rec \in BOOLEAN, spawned \in BOOLEAN, d \in Flushes :
        /\ StartWorker([kind |-> "udp", recording |-> rec, size |-> MaxPackets], spawned)
        /\ listfile' = IF rec THEN FlushedInto(d) ELSE Closed(d)
        /\ recorded' = Recorded(d)
  BY DEF StartReadout
<1> DEFINE s == [kind |-> "udp", recording |-> rec, size |-> MaxPackets]
<1>2. s \in Setups
  BY DEF Setups
<1>3. WorkerInv'
  BY <1>1, <1>2, NewWorkerInv
<1>4. /\ setup' = s /\ fileOpen' = rec /\ cause' = "none"
      /\ log' = << >> /\ file' = << >>
  BY <1>1 DEF StartWorker
<1>5. StreamInv' /\ ReplayInv'
  BY <1>4, WorkerAssumption DEF StreamInv, ReplayInv
<1>6. ListfileInv'
  <2>1. CASE rec
    BY <1>1, <1>4, <2>1, TruncatingKeepsType, RecordedType DEF ListfileInv
  <2>2. CASE ~rec
    BY <1>1, <1>4, <2>2, ClosingKeepsListfile, RecordedType DEF ListfileInv
  <2> QED BY <2>1, <2>2
<1> QED BY <1>3, <1>5, <1>6 DEF FileInv

LEMMA StartReplayKeepsFiles ==
    ASSUME WorkerInv, FileInv, StartReplay
    PROVE  WorkerInv' /\ FileInv'
<1>1. PICK spawned \in BOOLEAN, d \in Flushes :
        /\ StartWorker([kind |-> "listfile", recording |-> FALSE,
                        size |-> Len(Closed(d))], spawned)
        /\ listfile' = Closed(d)
        /\ recorded' = Recorded(d)
  BY DEF StartReplay
<1> DEFINE s == [kind |-> "listfile", recording |-> FALSE, size |-> Len(listfile')]
<1>2. /\ listfile' \in Seq(Packets) /\ Len(listfile') <= MaxPackets
      /\ recorded'.whole =>
            Len(listfile') = recorded'.records /\ Keeps(listfile', recorded'.seen)
      /\ recorded' \in Recording
  BY <1>1, ClosingKeepsListfile, RecordedType
<1>3. Len(listfile') \in 0 .. MaxPackets
  BY <1>2, WorkerAssumption
<1>4. s \in Setups /\ StartWorker(s, spawned)
  BY <1>1, <1>3 DEF Setups
<1>5. WorkerInv'
  BY <1>4, NewWorkerInv
<1>6. /\ setup' = s /\ fileOpen' = FALSE /\ cause' = "none"
      /\ log' = << >> /\ file' = << >>
  BY <1>4 DEF StartWorker
<1>7. StreamInv' /\ ReplayInv'
  BY <1>3, <1>6 DEF StreamInv, ReplayInv
<1>8. ListfileInv'
  BY <1>2 DEF ListfileInv
<1> QED BY <1>5, <1>7, <1>8 DEF FileInv

LEMMA StopKeepsFiles ==
    ASSUME WorkerInv, FileInv, StopFinishes
    PROVE  FileInv'
<1>1. /\ UNCHANGED <<setup, log, file, cause>> /\ ~fileOpen'
      /\ listfile' = Closed(disk') /\ recorded' = Recorded(disk')
      /\ disk' \in Flushes
  BY DEF StopFinishes, FinishStop, Flushes
<1>2. ListfileInv'
  BY <1>1, ClosingKeepsListfile, RecordedType DEF ListfileInv
<1>3. StreamInv'
  BY <1>1 DEF StreamInv, FileInv
<1>4. ReplayInv'
  <2>1. CASE setup.kind = "listfile"
    <3>1. ~fileOpen
      <4>1. setup \in Setups
        BY DEF WorkerInv, TypeOK
      <4> QED BY <2>1, <4>1, SetupFacts DEF FileInv, StreamInv
    <3> QED BY <1>1, <3>1 DEF Closed, ReplayInv, FileInv
  <2>2. CASE setup.kind # "listfile"
    BY <1>1, <2>2 DEF ReplayInv
  <2> QED BY <2>1, <2>2
<1> QED BY <1>2, <1>3, <1>4 DEF FileInv

\* Any step that changes nothing of worker and listfile but flags.
LEMMA OthersKeepFiles ==
    ASSUME FileInv, UNCHANGED <<setup, fileOpen, log, file, cause, listfile, recorded>>
    PROVE  FileInv'
  BY DEF FileInv, StreamInv, ReplayInv, ListfileInv, Keeps

LEMMA FilesStep ==
    ASSUME WorkerInv, FileInv, [DaqNext]_allVars
    PROVE  WorkerInv' /\ FileInv'
<1> USE DEF vars, allVars, daqVars, accountVars, ctlVars, threadVars, fileVars, consVars
<1>1. CASE StartReadout
  BY <1>1, StartReadoutKeepsFiles
<1>2. CASE StartReplay
  BY <1>2, StartReplayKeepsFiles
<1>3. CASE Stop
  <2>1. RequestStop
    BY <1>3 DEF Stop
  <2>2. WorkerInv'
    BY <2>1, WorkerInvStep DEF Next, Controller
  <2> QED BY <1>3, <2>2, OthersKeepFiles DEF Stop, RequestStop
<1>4. CASE StopFinishes
  <2>1. FinishStop
    BY <1>4 DEF StopFinishes
  <2>2. WorkerInv'
    BY <2>1, WorkerInvStep DEF Next, Controller
  <2> QED BY <1>4, <2>2, StopKeepsFiles
<1>5. CASE Rethrow
  <2>1. RethrowException
    BY <1>5 DEF Rethrow
  <2>2. WorkerInv'
    BY <2>1, WorkerInvStep DEF Next, Controller
  <2> QED BY <1>5, <2>2, OthersKeepFiles DEF Rethrow, RethrowException
<1>6. CASE WorkerStep
  <2>1. WorkerInv'
    BY <1>6, WorkerInvStep DEF WorkerStep, Next
  <2> QED BY <1>6, <2>1, StepKeepsFiles
<1>7. CASE BeginClear \/ Clear \/ UNCHANGED allVars
  <2>1. UNCHANGED <<vars, listfile, recorded>>
    BY <1>7 DEF BeginClear, Clear
  <2>2. WorkerInv'
    BY <2>1, WorkerInvStep
  <2> QED BY <2>1, <2>2, OthersKeepFiles
<1> QED BY <1>1, <1>2, <1>3, <1>4, <1>5, <1>6, <1>7 DEF DaqNext
-----------------------------------------------------------------------------
(* The port.                                                               *)

PortInv == localPort \in BOOLEAN /\ PortFollowsReadout

LEMMA PortStep ==
    ASSUME WorkerInv, PortInv, [DaqNext]_allVars
    PROVE  PortInv'
<1> USE DEF PortInv, PortFollowsReadout, LoopPCs
<1>1. CASE StartReadout
  <2>1. PICK spawned \in BOOLEAN :
          /\ pc' = IF spawned THEN "check" ELSE "none"
          /\ localPort' = (localPort \/ spawned)
    BY <1>1 DEF StartReadout, StartWorker
  <2>2. CASE spawned
    BY <2>1, <2>2
  <2>3. CASE ~spawned
    BY <2>1, <2>3
  <2> QED BY <2>2, <2>3
<1>2. CASE StartReplay
  <2>1. /\ setup'.kind = "listfile" /\ pc' \in {"check", "none"}
        /\ localPort' = localPort
    BY <1>2 DEF StartReplay, StartWorker
  <2> QED BY <2>1
<1>3. CASE Stop
  BY <1>3 DEF Stop, RequestStop, daqVars, threadVars
<1>4. CASE StopFinishes
  BY <1>4 DEF StopFinishes, FinishStop
<1>5. CASE Rethrow
  BY <1>5 DEF Rethrow, RethrowException, daqVars, threadVars
<1>6. CASE WorkerStep
  BY <1>6, WorkerLeaves DEF WorkerStep, ctlVars
<1>7. CASE BeginClear \/ Clear \/ UNCHANGED allVars
  BY <1>7 DEF BeginClear, Clear, allVars, daqVars, vars, ctlVars
<1> QED BY <1>1, <1>2, <1>3, <1>4, <1>5, <1>6, <1>7 DEF DaqNext
-----------------------------------------------------------------------------
(* What the consumers have accumulated.                                    *)

AccountTypes ==
    /\ run \in Nat
    /\ toClear \in Seq(Consumers)
    /\ view \in [Consumers -> SUBSET (Nat \X Nat)]
    /\ archive \in Seq(Run)
    /\ clearedIn \in [Consumers -> Nat]
    /\ Len(archive) = IF run = 0 THEN 0 ELSE run - 1

\* Of the run that goes on, a consumer has what its worker has handed to it;
\* of earlier runs, what was valid in them.
Of(c) ==
    /\ clearedIn[c] <= run
    /\ clearedIn[c] < run => \A k \in consumed[c] : <<run, k>> \in view[c]
    /\ \A r \in 1 .. Len(archive) : archive[r].clean /\ clearedIn[c] < r =>
          \A k \in archive[r].valid : <<r, k>> \in view[c]
    /\ \A e \in view[c] :
          /\ clearedIn[c] <= e[1]
          /\ e[1] \in 1 .. run
          /\ e[2] \in IF e[1] = run THEN consumed[c] ELSE archive[e[1]].valid

AccountInv ==
    /\ AccountTypes
    /\ run = 0 => pc = "none" /\ ctl = "idle"
    /\ \A c \in Consumers : Of(c)

LEMMA SameAccount ==
    ASSUME AccountInv, UNCHANGED <<run, toClear, view, archive, clearedIn, consumed>>,
           run = 0 => pc' = pc /\ ctl' = ctl
    PROVE  AccountInv'
  BY DEF AccountInv, AccountTypes, Of

\* When a run is over without an error, every consumer has all of it.
LEMMA OverIsComplete ==
    ASSUME WorkerInv, ~running, cause # "error", NEW c \in Consumers
    PROVE  consumed[c] = ValidPositions
<1>1. pc \in {"none", "ended", "joined"}
  BY DEF WorkerInv, ControlInv, FlagsInv, TypeOK, PCs, LoopPCs
<1>2. consumed[c] = ValidUpTo(Len(log))
  BY <1>1 DEF WorkerInv, DataInv, Settled, AfterLoopPCs
<1>3. DOMAIN log = 1 .. Len(log)
  BY DEF WorkerInv, TypeOK
<1> QED BY <1>2, <1>3 DEF ValidPositions, ValidUpTo

LEMMA ConsumedIsValid ==
    ASSUME WorkerInv, NEW c \in Consumers
    PROVE  consumed[c] \subseteq ValidPositions /\ ValidPositions \in SUBSET Nat
<1>1. /\ DOMAIN log = 1 .. Len(log) /\ Len(log) \in Nat
      /\ counters.packets \in Nat /\ counters.packets <= Len(log)
  BY DEF WorkerInv, TypeOK, CountersType, DataInv
<1>2. consumed[c] \subseteq ValidUpTo(counters.packets)
  BY DEF WorkerInv, DataInv
<1> QED BY <1>1, <1>2 DEF ValidPositions, ValidUpTo

LEMMA NewRunKeepsAccount ==
    ASSUME WorkerInv, AccountInv, ~IsRunning, UNCHANGED accountVars,
           NEW s \in Setups, NEW spawned \in BOOLEAN, StartWorker(s, spawned)
    PROVE  AccountInv'
<1> DEFINE ended == [valid |-> ValidPositions, clean |-> cause # "error"]
<1>1. /\ run' = run + 1 /\ consumed' = [c \in Consumers |-> {}]
      /\ archive' = IF run = 0 THEN archive ELSE Append(archive, ended)
      /\ UNCHANGED <<toClear, view, clearedIn>>
  BY DEF StartWorker, accountVars
<1>2. run \in Nat /\ archive \in Seq(Run) /\ Len(archive) = IF run = 0 THEN 0 ELSE run - 1
  BY DEF AccountInv, AccountTypes
<1>3. CASE run = 0
  <2>1. AccountTypes'
    BY <1>1, <1>2, <1>3 DEF AccountInv, AccountTypes
  <2>2. ASSUME NEW c \in Consumers PROVE Of(c)'
    <3>1. Of(c)
      BY DEF AccountInv
    <3>2. \A e \in view[c] : FALSE
      BY <1>3, <3>1 DEF Of
    <3>3. Len(archive') = 0 /\ consumed'[c] = {} /\ view'[c] = view[c] /\ run' = 1
      BY <1>1, <1>2, <1>3
    <3>4. clearedIn'[c] <= run'
      BY <1>1, <1>3, <3>1, <3>3 DEF Of, AccountInv, AccountTypes
    <3>5. \A r \in 1 .. Len(archive') : FALSE
      BY <3>3
    <3> QED BY <3>2, <3>3, <3>4, <3>5 DEF Of
  <2> QED BY <1>1, <1>3, <2>1, <2>2 DEF AccountInv
<1>4. CASE run # 0
  <2> DEFINE clean == cause # "error"
  <2>1. ValidPositions \in SUBSET Nat
    BY ConsumedIsValid, DaqAssumption DEF Consumers
  <2>2. ended \in Run
    BY <2>1 DEF Run
  <2>3. archive' = Append(archive, ended) /\ Len(archive') = run
    BY <1>1, <1>2, <1>4, <2>2
  <2>4. /\ archive' \in Seq(Run) /\ archive'[run] = ended
        /\ \A r \in 1 .. Len(archive) : archive'[r] = archive[r]
    BY <1>2, <1>4, <2>2, <2>3
  <2>5. AccountTypes'
    BY <1>1, <1>2, <2>3, <2>4 DEF AccountInv, AccountTypes
  <2>6. ASSUME NEW c \in Consumers PROVE Of(c)'
    <3>1. Of(c) /\ clearedIn[c] \in Nat
      BY DEF AccountInv, AccountTypes
    <3>2. ASSUME NEW r \in 1 .. Len(archive'), archive'[r].clean, clearedIn[c] < r,
                 NEW k \in archive'[r].valid
          PROVE  <<r, k>> \in view[c]
      <4>1. CASE r = run
        <5>1. ended.clean = clean /\ ended.valid = ValidPositions
          OBVIOUS
        <5>2. clean /\ k \in ValidPositions
          <6> HIDE DEF clean, ended
          <6>1. archive'[r] = ended
            BY <2>4, <4>1
          <6>2. ended.clean /\ k \in ended.valid
            BY <3>2, <6>1
          <6> QED BY <5>1, <6>2
        <5>3. consumed[c] = ValidPositions
          BY <1>2, <1>4, <5>2, OverIsComplete DEF IsRunning
        <5> QED BY <3>1, <3>2, <4>1, <5>2, <5>3 DEF Of
      <4>2. CASE r # run
        <5>1. r \in 1 .. Len(archive)
          BY <1>2, <1>4, <2>3, <3>2, <4>2
        <5> QED BY <2>4, <3>1, <3>2, <5>1 DEF Of
      <4> QED BY <4>1, <4>2
    <3>3. ASSUME NEW e \in view[c]
          PROVE  /\ clearedIn[c] <= e[1] /\ e[1] \in 1 .. run'
                 /\ e[2] \in IF e[1] = run' THEN consumed'[c] ELSE archive'[e[1]].valid
      <4>1. /\ clearedIn[c] <= e[1] /\ e[1] \in 1 .. run
            /\ e[2] \in IF e[1] = run THEN consumed[c] ELSE archive[e[1]].valid
        BY <3>1 DEF Of
      <4>2. CASE e[1] = run
        <5>1. e[2] \in ValidPositions
          BY <4>1, <4>2, ConsumedIsValid
        <5>2. ended.valid = ValidPositions
          OBVIOUS
        <5> HIDE DEF ended
        <5> QED BY <1>1, <1>2, <2>4, <4>1, <4>2, <5>1, <5>2
      <4>3. CASE e[1] # run
        <5>1. e[1] \in 1 .. Len(archive)
          BY <1>2, <1>4, <4>1, <4>3
        <5>2. e[1] # run'
          BY <1>1, <1>2, <4>1
        <5> QED BY <1>1, <1>2, <2>4, <4>1, <4>3, <5>1, <5>2
      <4> QED BY <4>2, <4>3
    <3>4. clearedIn'[c] <= run' /\ \A k \in consumed'[c] : FALSE
      BY <1>1, <1>2, <3>1 DEF Of
    <3> QED BY <1>1, <3>2, <3>3, <3>4 DEF Of
  <2> QED BY <1>1, <1>2, <2>5, <2>6 DEF AccountInv
<1> QED BY <1>3, <1>4

LEMMA ConsumedGrows ==
    ASSUME WorkerInv, Worker
    PROVE  consumed' \in [Consumers -> SUBSET Nat]
           /\ \A c \in Consumers : consumed[c] \subseteq consumed'[c]
<1>1. consumed \in [Consumers -> SUBSET Nat] /\ Len(log) \in Nat
  BY DEF WorkerInv, TypeOK
<1>2. CASE consumed' = consumed
  BY <1>1, <1>2
<1>3. CASE consumed' # consumed
  <2>1. Consume
    BY <1>3, ConsumedBy DEF Next
  <2> QED BY <1>1, <2>1 DEF Consume
<1> QED BY <1>2, <1>3

LEMMA WorkerStepKeepsAccount ==
    ASSUME WorkerInv, AccountInv, WorkerStep
    PROVE  AccountInv'
<1>1. /\ UNCHANGED <<run, toClear, archive, clearedIn>> /\ Worker
      /\ view' = [c \in Consumers |->
                    view[c] \cup {<<run, k>> : k \in consumed'[c] \ consumed[c]}]
  BY DEF WorkerStep, Accumulates
<1>2. /\ consumed' \in [Consumers -> SUBSET Nat]
      /\ \A c \in Consumers : consumed[c] \subseteq consumed'[c]
  BY <1>1, ConsumedGrows
<1>3. run \in Nat \ {0}
  <2>1. pc # "none"
    BY <1>1, WorkerLeaves DEF LoopPCs
  <2> QED BY <2>1 DEF AccountInv, AccountTypes
<1>4. AccountTypes'
  BY <1>1, <1>2, <1>3 DEF AccountInv, AccountTypes
<1>5. ASSUME NEW c \in Consumers PROVE Of(c)'
  <2>1. Of(c) /\ clearedIn[c] \in Nat
    BY DEF AccountInv, AccountTypes
  <2>2. view'[c] = view[c] \cup {<<run, k>> : k \in consumed'[c] \ consumed[c]}
    BY <1>1
  <2>3. clearedIn[c] < run => \A k \in consumed'[c] : <<run, k>> \in view'[c]
    BY <1>2, <2>1, <2>2 DEF Of
  <2>4. \A r \in 1 .. Len(archive) : archive[r].clean /\ clearedIn[c] < r =>
          \A k \in archive[r].valid : <<r, k>> \in view'[c]
    BY <2>1, <2>2 DEF Of
  <2>5. ASSUME NEW e \in view'[c]
        PROVE  /\ clearedIn[c] <= e[1] /\ e[1] \in 1 .. run
               /\ e[2] \in IF e[1] = run THEN consumed'[c] ELSE archive[e[1]].valid
    <3>1. CASE e \in view[c]
      BY <1>2, <2>1, <3>1 DEF Of
    <3>2. CASE e \notin view[c]
      <4>1. PICK k \in consumed'[c] : e = <<run, k>>
        BY <2>2, <3>2
      <4> QED BY <1>3, <2>1, <4>1 DEF Of
    <3> QED BY <3>1, <3>2
  <2> QED BY <1>1, <2>1, <2>3, <2>4, <2>5 DEF Of
<1> QED BY <1>1, <1>3, <1>4, <1>5 DEF AccountInv

LEMMA BeginClearKeepsAccount ==
    ASSUME AccountInv, BeginClear
    PROVE  AccountInv'
<1>1. UNCHANGED <<run, view, archive, clearedIn, consumed, pc, ctl>>
  BY DEF BeginClear, vars, ctlVars, consVars
<1>2. toClear' \in Seq(Consumers)
  <2>1. 1 \in Consumers /\ 2 \in Consumers /\ 3 \in Consumers
    BY DaqAssumption DEF Consumers
  <2>2. << 1 >> \in Seq(Consumers) /\ << 2, 3 >> \in Seq(Consumers)
        /\ << 1, 2, 3 >> \in Seq(Consumers)
    BY <2>1
  <2> QED BY <2>2 DEF BeginClear
<1> QED BY <1>1, <1>2 DEF AccountInv, AccountTypes, Of

LEMMA ClearKeepsAccount ==
    ASSUME AccountInv, Clear
    PROVE  AccountInv'
<1> DEFINE cleared == Head(toClear)
<1>1. /\ run \in Nat /\ toClear \in Seq(Consumers) /\ toClear # << >>
      /\ view \in [Consumers -> SUBSET (Nat \X Nat)] /\ clearedIn \in [Consumers -> Nat]
      /\ archive \in Seq(Run) /\ Len(archive) = IF run = 0 THEN 0 ELSE run - 1
  BY DEF Clear, AccountInv, AccountTypes
<1>2. cleared \in Consumers /\ Tail(toClear) \in Seq(Consumers)
  BY <1>1
<1>3. /\ UNCHANGED <<run, archive, consumed, pc, ctl>>
      /\ view' = [view EXCEPT ![cleared] = {}]
      /\ clearedIn' = [clearedIn EXCEPT ![cleared] = run]
      /\ toClear' = Tail(toClear)
  BY DEF Clear, vars, ctlVars, consVars
<1> HIDE DEF cleared
<1>4. AccountTypes'
  BY <1>1, <1>2, <1>3 DEF AccountTypes
<1>5. ASSUME NEW c \in Consumers PROVE Of(c)'
  <2>1. CASE c = cleared
    <3>1. view'[c] = {} /\ clearedIn'[c] = run
      BY <1>1, <1>3, <2>1
    <3>2. \A r \in 1 .. Len(archive) : ~(run < r)
      BY <1>1
    <3> QED BY <1>1, <1>3, <3>1, <3>2 DEF Of
  <2>2. CASE c # cleared
    <3>1. view'[c] = view[c] /\ clearedIn'[c] = clearedIn[c]
      BY <1>1, <1>3, <2>2
    <3> QED BY <1>3, <3>1 DEF Of, AccountInv
  <2> QED BY <2>1, <2>2
<1> QED BY <1>3, <1>4, <1>5 DEF AccountInv

LEMMA AccountStep ==
    ASSUME WorkerInv, FileInv, AccountInv, [DaqNext]_allVars
    PROVE  AccountInv'
<1> USE DEF vars, allVars, daqVars, accountVars, ctlVars, threadVars, consVars
<1>1. CASE StartReadout
  <2>1. PICK rec \in BOOLEAN, spawned \in BOOLEAN :
          StartWorker([kind |-> "udp", recording |-> rec, size |-> MaxPackets], spawned)
    BY <1>1 DEF StartReadout
  <2>2. [kind |-> "udp", recording |-> rec, size |-> MaxPackets] \in Setups
    BY DEF Setups
  <2>3. ~IsRunning /\ UNCHANGED accountVars
    BY <1>1 DEF StartReadout
  <2> QED BY <2>1, <2>2, <2>3, NewRunKeepsAccount
<1>2. CASE StartReplay
  <2>1. PICK spawned \in BOOLEAN, d \in Flushes :
          /\ StartWorker([kind |-> "listfile", recording |-> FALSE,
                          size |-> Len(Closed(d))], spawned)
          /\ listfile' = Closed(d) /\ recorded' = Recorded(d)
    BY <1>2 DEF StartReplay
  <2>2. Len(Closed(d)) \in 0 .. MaxPackets
    BY <2>1, ClosingKeepsListfile, WorkerAssumption
  <2>3. [kind |-> "listfile", recording |-> FALSE, size |-> Len(Closed(d))] \in Setups
    BY <2>2 DEF Setups
  <2>4. ~IsRunning /\ UNCHANGED accountVars
    BY <1>2 DEF StartReplay
  <2> QED BY <2>1, <2>3, <2>4, NewRunKeepsAccount
<1>3. CASE Stop
  BY <1>3, SameAccount DEF Stop, RequestStop
<1>4. CASE StopFinishes
  <2>1. run # 0
    BY <1>4 DEF StopFinishes, FinishStop, AccountInv
  <2> QED BY <1>4, <2>1, SameAccount DEF StopFinishes, FinishStop
<1>5. CASE Rethrow
  BY <1>5, SameAccount DEF Rethrow, RethrowException
<1>6. CASE WorkerStep
  BY <1>6, WorkerStepKeepsAccount
<1>7. CASE BeginClear
  BY <1>7, BeginClearKeepsAccount
<1>8. CASE Clear
  BY <1>8, ClearKeepsAccount
<1>9. CASE UNCHANGED allVars
  BY <1>9, SameAccount
<1> QED BY <1>1, <1>2, <1>3, <1>4, <1>5, <1>6, <1>7, <1>8, <1>9 DEF DaqNext
-----------------------------------------------------------------------------
DaqInv == WorkerInv /\ FileInv /\ PortInv /\ AccountInv

LEMMA DaqInitial == DaqInit => DaqInv
<1> SUFFICES ASSUME DaqInit PROVE DaqInv
  OBVIOUS
<1>1. Init /\ setup = [kind |-> "listfile", recording |-> FALSE, size |-> 0]
  BY DEF DaqInit
<1>2. WorkerInv
  BY <1>1, TypeInit, ControlInit, DataInit DEF WorkerInv
<1>3. /\ ~fileOpen /\ file = << >> /\ log = << >> /\ cause = "none" /\ pc = "none"
      /\ ctl = "idle" /\ consumed = [c \in Consumers |-> {}]
  BY <1>1 DEF Init
<1>4. FileInv
  <2>1. recorded \in Recording /\ ~recorded.whole
    BY DEF DaqInit, NothingRecorded, Recording
  <2> QED BY <1>1, <1>3, <2>1, WorkerAssumption
        DEF DaqInit, FileInv, StreamInv, ReplayInv, ListfileInv
<1>5. PortInv
  BY <1>1, <1>3 DEF DaqInit, PortInv, PortFollowsReadout, LoopPCs
<1>6. AccountInv
  BY <1>3 DEF DaqInit, AccountInv, AccountTypes, Of
<1> QED BY <1>2, <1>4, <1>5, <1>6 DEF DaqInv

LEMMA DaqInvariant == DaqSpec => []DaqInv
<1>1. DaqInv /\ [DaqNext]_allVars => DaqInv'
  BY FilesStep, PortStep, AccountStep DEF DaqInv
<1> QED BY <1>1, DaqInitial, PTL DEF DaqSpec

\* A Daq's state keeps its types through any number of runs, and a replay has a
\* record to read wherever it reads one.
THEOREM DaqTypeCorrect == DaqSpec => []DaqTypeOK
<1>1. DaqInv => DaqTypeOK
  <2> SUFFICES ASSUME DaqInv PROVE DaqTypeOK
    OBVIOUS
  <2>1. setup.kind = "listfile" => setup.size <= Len(listfile)
    BY DEF DaqInv, FileInv, ReplayInv, ListfileInv
  <2> QED BY <2>1 DEF DaqInv, WorkerInv, FileInv, ListfileInv, PortInv, AccountInv,
                      AccountTypes, DaqTypeOK
<1> QED BY <1>1, DaqInvariant, PTL

\* localPort() and the resources of a readout, whatever runs came before.
THEOREM DaqPortFollowsReadout == DaqSpec => []PortFollowsReadout
<1>1. DaqInv => PortFollowsReadout
  BY DEF DaqInv, PortInv
<1> QED BY <1>1, DaqInvariant, PTL

\* Statistics and histograms hold all runs since they were last reset or cleared,
\* and nothing else.
THEOREM DaqRunsAccumulate == DaqSpec => []RunsAccumulate
<1>1. DaqInv => RunsAccumulate
  <2> SUFFICES ASSUME DaqInv, NEW c \in Consumers
               PROVE  /\ \A r \in DOMAIN archive : archive[r].clean /\ clearedIn[c] < r =>
                            \A k \in archive[r].valid : <<r, k>> \in view[c]
                      /\ \A e \in view[c] :
                            /\ clearedIn[c] <= e[1]
                            /\ e[2] \in IF e[1] = run THEN ValidPositions
                                        ELSE archive[e[1]].valid
    BY DEF RunsAccumulate
  <2>1. Of(c) /\ DOMAIN archive = 1 .. Len(archive)
    BY DEF DaqInv, AccountInv, AccountTypes
  <2>2. consumed[c] \subseteq ValidPositions
    BY ConsumedIsValid DEF DaqInv
  <2> QED BY <2>1, <2>2 DEF Of
<1> QED BY <1>1, DaqInvariant, PTL

\* A whole recording is reproduced by every replay of it.
THEOREM DaqReplayReproduces == DaqSpec => []ReplayReproduces
<1>1. DaqInv => ReplayReproduces
  <2> SUFFICES ASSUME DaqInv, cause = "end", pc \in {"ended", "joined"}, recorded.whole
               PROVE  /\ Len(log) = recorded.records
                      /\ \A c \in Consumers : recorded.seen \subseteq consumed[c]
    BY DEF ReplayReproduces
  <2>1. setup \in Setups /\ setup.kind = "listfile" /\ ~fileOpen
    <3>1. setup \in Setups /\ setup.kind = "listfile"
      BY DEF DaqInv, WorkerInv, TypeOK, FileInv, StreamInv
    <3> QED BY <3>1, SetupFacts DEF DaqInv, FileInv, StreamInv
  <2>2. Len(log) = setup.size /\ setup.size = Len(listfile)
    BY <2>1 DEF DaqInv, WorkerInv, DataInv, FileInv, ReplayInv
  <2>3. Len(listfile) = recorded.records /\ Keeps(listfile, recorded.seen)
    BY <2>1 DEF DaqInv, FileInv, ListfileInv
  <2>4. \A k \in 1 .. Len(log) : log[k] = FromListfile(listfile[k])
    BY <2>1 DEF DaqInv, FileInv, ReplayInv
  <2>5. recorded.seen \subseteq ValidPositions
    <3>1. DOMAIN log = 1 .. Len(log)
      BY DEF DaqInv, WorkerInv, TypeOK
    <3> QED BY <2>2, <2>3, <2>4, <3>1 DEF Keeps, ValidPositions
  <2>6. ~running
    BY DEF DaqInv, WorkerInv, ControlInv, FlagsInv
  <2>7. \A c \in Consumers : consumed[c] = ValidPositions
    BY <2>6, OverIsComplete DEF DaqInv
  <2> QED BY <2>2, <2>3, <2>5, <2>7
<1> QED BY <1>1, DaqInvariant, PTL
=============================================================================
