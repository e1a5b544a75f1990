--------------------------- MODULE DeviceWorkers ---------------------------
(***************************************************************************)
(* src/gui/device_worker.py: one thread per device that executes jobs on a *)
(* connection of its own, and the GUI thread that submits them.            *)
(*                                                                         *)
(* An item is a job with the target its device had when it was submitted.  *)
(* Jobs reach a worker, and results reach the GUI thread, as posted Qt     *)
(* events: queue[d] and posted are the event queues.  A thread that was    *)
(* told to quit may still execute any number of the jobs that are already  *)
(* posted, because one pass of its event loop delivers several events; the *)
(* rest is dropped with the worker.  While the GUI thread waits for        *)
(* threads it does nothing else.  What a job does to a device, and what    *)
(* the GUI does with a result, is left to the modules that extend this one. *)
(***************************************************************************)
EXTENDS Sequences

CONSTANTS Devices,  \* DeviceConfig objects
          Targets,  \* what target() may return: address, id and port
          Jobs,     \* labels with their callables
          None      \* no connection, no item

ASSUME WorkersAssumption ==
    /\ None \notin Targets
    /\ None \notin [job : Jobs, target : Targets]

VARIABLES
    target,     \* cfg.target() of each device
    threads,    \* the devices whose thread exists
    queue,      \* items posted to each worker
    active,     \* the item that each worker is executing
    conn,       \* the target of _conn
    quitting,   \* the threads whose quit() was called
    waiting,    \* the threads that the GUI thread has still to wait for
    closing,    \* "no", or shutdown() was called: "drain" or "drop"
    posted      \* results posted to the GUI thread

guiVars == <<target, waiting, closing>>
workerVars == <<guiVars, threads, queue, active, conn, quitting, posted>>

Items == [job : Jobs, target : Targets]

Results == [device : Devices, item : Items, ok : BOOLEAN]

WorkersInit ==
    /\ target \in [Devices -> Targets]
    /\ threads = {}
    /\ queue = [d \in Devices |-> << >>]
    /\ active = [d \in Devices |-> None]
    /\ conn = [d \in Devices |-> None]
    /\ quitting = {}
    /\ waiting = {}
    /\ closing = "no"
    /\ posted = << >>
-----------------------------------------------------------------------------
(* The GUI thread.                                                         *)

GuiIsFree == waiting = {} /\ closing = "no"

\* The target is captured when the job is submitted.
Addressed(d, jobs) == [i \in DOMAIN jobs |-> [job |-> jobs[i], target |-> target[d]]]

\* jobs[d] is what is submitted for d, in order.  The first job of a device
\* creates its thread.
Submitted(jobs) ==
    /\ queue' = [d \in Devices |-> queue[d] \o Addressed(d, jobs[d])]
    /\ threads' = threads \cup {d \in Devices : jobs[d] # << >>}

Submit(jobs) ==
    /\ GuiIsFree
    /\ Submitted(jobs)
    /\ UNCHANGED <<guiVars, active, conn, quitting, posted>>

\* remove() of one device after the other, after jobs were submitted.
SubmitAndRemove(jobs, ds) ==
    /\ GuiIsFree
    /\ Submitted(jobs)
    /\ waiting' = threads' \cap ds
    /\ UNCHANGED <<target, closing, active, conn, quitting, posted>>

\* Mutation: waits for the thread without telling it to quit.
RemoveNextWithoutQuit(d) ==
    /\ closing = "no"
    /\ d \in waiting \cap threads
    /\ quitting = {}
    /\ UNCHANGED workerVars

RemoveNext(d) ==
    /\ closing = "no"
    /\ d \in waiting \cap threads
    /\ quitting = {}
    /\ quitting' = {d}
    /\ UNCHANGED <<guiVars, threads, queue, active, conn, posted>>

\* shutdown(): with drain the quit is posted behind the jobs.
SubmitAndShutdown(jobs, drain) ==
    /\ GuiIsFree
    /\ Submitted(jobs)
    /\ waiting' = threads'
    /\ closing' = IF drain THEN "drain" ELSE "drop"
    /\ quitting' = IF drain THEN {} ELSE threads'
    /\ UNCHANGED <<target, active, conn, posted>>

WaitReturns ==
    /\ waiting # {}
    /\ waiting \cap threads = {}
    /\ waiting' = {}
    /\ UNCHANGED <<target, closing, threads, queue, active, conn, quitting, posted>>

\* The next result in the GUI thread's event queue.
Deliver ==
    /\ GuiIsFree
    /\ posted # << >>
    /\ posted' = Tail(posted)
    /\ UNCHANGED <<guiVars, threads, queue, active, conn, quitting>>

\* The user, or a command that succeeded, changes address, id or port.
EditTarget(d, t) ==
    /\ GuiIsFree
    /\ target' = [target EXCEPT ![d] = t]
    /\ UNCHANGED <<waiting, closing, threads, queue, active, conn, quitting, posted>>
-----------------------------------------------------------------------------
(* The thread of one worker.                                               *)

\* Mutation: a connection is kept although the target has changed.
ConnectionKept(d, t) == IF conn[d] = None THEN t ELSE conn[d]

\* The connection that a job for target t is executed on.
Connection(d, t) == IF conn[d] = None \/ conn[d] # t THEN t ELSE conn[d]

CanRun(d) == d \in threads /\ active[d] = None /\ queue[d] # << >>

BeginJob(d) ==
    /\ CanRun(d)
    /\ active' = [active EXCEPT ![d] = Head(queue[d])]
    /\ conn' = [conn EXCEPT ![d] = Connection(d, Head(queue[d]).target)]
    /\ queue' = [queue EXCEPT ![d] = Tail(@)]
    /\ UNCHANGED <<guiVars, threads, quitting, posted>>

Result(d, item, ok) == [device |-> d, item |-> item, ok |-> ok]

\* The old connection is closed and the new one cannot be opened.
ConnectThrows(d) ==
    /\ CanRun(d)
    /\ Head(queue[d]).target # conn[d]
    /\ conn' = [conn EXCEPT ![d] = None]
    /\ posted' = Append(posted, Result(d, Head(queue[d]), FALSE))
    /\ queue' = [queue EXCEPT ![d] = Tail(@)]
    /\ UNCHANGED <<guiVars, threads, active, quitting>>

\* The job returns, or throws; either way there is a result.
EndJob(d, ok) ==
    /\ active[d] # None
    /\ posted' = Append(posted, Result(d, active[d], ok))
    /\ active' = [active EXCEPT ![d] = None]
    /\ UNCHANGED <<guiVars, threads, queue, conn, quitting>>

\* Mutation: quits before the jobs are done.
OnQuitAtOnce(d) ==
    /\ closing = "drain"
    /\ d \in threads \ quitting
    /\ active[d] = None
    /\ quitting' = quitting \cup {d}
    /\ UNCHANGED <<guiVars, threads, queue, active, conn, posted>>

\* The quit that shutdown(drain=True) posted behind the jobs.
OnQuit(d) ==
    /\ closing = "drain"
    /\ d \in threads \ quitting
    /\ active[d] = None
    /\ queue[d] = << >>
    /\ quitting' = quitting \cup {d}
    /\ UNCHANGED <<guiVars, threads, queue, active, conn, posted>>

\* The event loop exits, the connection is closed, posted jobs are dropped.
ThreadEnds(d) ==
    /\ d \in quitting
    /\ active[d] = None
    /\ threads' = threads \ {d}
    /\ quitting' = quitting \ {d}
    /\ queue' = [queue EXCEPT ![d] = << >>]
    /\ conn' = [conn EXCEPT ![d] = None]
    /\ UNCHANGED <<guiVars, active, posted>>
-----------------------------------------------------------------------------
(* The component alone, under any use of it.                               *)

WorkersNext ==
    \/ \E jobs \in [Devices -> Seq(Jobs)] :
          \/ Submit(jobs)
          \/ \E ds \in SUBSET Devices : SubmitAndRemove(jobs, ds)
          \/ \E drain \in BOOLEAN : SubmitAndShutdown(jobs, drain)
    \/ WaitReturns
    \/ Deliver
    \/ \E d \in Devices :
          \/ \E t \in Targets : EditTarget(d, t)
          \/ RemoveNext(d)
          \/ BeginJob(d)
          \/ ConnectThrows(d)
          \/ \E ok \in BOOLEAN : EndJob(d, ok)
          \/ OnQuit(d)
          \/ ThreadEnds(d)

WorkersSpec == WorkersInit /\ [][WorkersNext]_workerVars
-----------------------------------------------------------------------------
WorkersTypeOK ==
    /\ target \in [Devices -> Targets]
    /\ threads \subseteq Devices
    /\ queue \in [Devices -> Seq(Items)]
    /\ active \in [Devices -> Items \cup {None}]
    /\ conn \in [Devices -> Targets \cup {None}]
    /\ quitting \subseteq threads
    /\ waiting \subseteq Devices
    /\ closing \in {"no", "drain", "drop"}
    /\ posted \in Seq(Results)

\* A job is executed on a connection to the target its device had when the job
\* was submitted, however targets are edited and connections reused meanwhile.
JobReachesItsTarget ==
    \A d \in Devices : active[d] # None => conn[d] = active[d].target

\* What a worker has still to do, the item that it is executing first.
Executing(d) == IF active[d] = None THEN << >> ELSE <<active[d]>>

Pending == [d \in Devices |-> Executing(d) \o queue[d]]

\* The devices whose jobs may be dropped.
Leaving ==
    CASE closing = "no" -> waiting
      [] closing = "drain" -> {}
      [] closing = "drop" -> Devices

Service ==
    INSTANCE JobService
        WITH Requests <- Items,
             pending <- Pending,
             answers <- posted,
             leaving <- Leaving,
             open <- closing = "no"

\* Answers come in submission order, once each; only remove() and a shutdown
\* without drain lose jobs (comments at device_worker.py:3-5 and 100).
ImplementsJobService == Service!Spec
=============================================================================
