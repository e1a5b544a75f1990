---------------------------- MODULE RunControl ----------------------------
(***************************************************************************)
(* src/gui/main_window.py on top of DeviceWorkers: readouts, runs and      *)
(* replays started and stopped by the user, by the console of the GUI, by  *)
(* an error or by the end of a listfile, and the commands they send to the *)
(* timing master and the other devices; with StatsTracker of stats.py as   *)
(* far as it remembers something.                                          *)
(*                                                                         *)
(* The Daq is abstracted to what the GUI can see of it (module Daq has it  *)
(* in detail).  start_run() goes on step by step in todo, because packets  *)
(* arrive and worker threads run in between; all other slots are one step: *)
(* they call the Daq once, or what they do between two calls is private.   *)
(* The run id that the user has chosen is the number of the readout.       *)
(*                                                                         *)
(* A device can be redirected while its commands are queued.  The hardware *)
(* it is redirected to is not that of another device: the setup has one    *)
(* entry for each MCPD.                                                    *)
(***************************************************************************)
EXTENDS DeviceWorkers, Naturals, FiniteSets

CONSTANT MaxClicks  \* bound: what the user does in the GUI and its console

Commands == {"set_run_id", "start_daq", "stop_daq", "continue_daq"}

RunJobs == [cmd : Commands, run : 0 .. MaxClicks]

ASSUME RunAssumption ==
    /\ MaxClicks \in Nat
    /\ Jobs = RunJobs

VARIABLES
    role,         \* timing role of each device; "off" if disabled or removed
    state,        \* MainWindow.state
    daq,          \* what the GUI sees of its Daq
    run,          \* number of readouts and replays so far
    todo,         \* calls that start_run() has still to make
    pendingStop,  \* _pending_stop
    drains,       \* single shot timers that will call stop_readout(), in order
    portChanged,  \* setup.data_port is not the listen port of the Daq
    prev,         \* StatsTracker._prev: a snapshot of counts that still go on
                  \* ("current"), that the console has reset ("behind"), that
                  \* the GUI has reset or of another Daq ("stale"), or "none"
    clicks        \* number of clicks so far

VARIABLES
    runId,        \* hardware: the run id of what each device is at each target
    startedBy,    \* history: where the last start_daq was carried out, and its run
    fresh,        \* history: packets of the current run were counted
    forgotten,    \* history: start_run() has cleared packets of its own run
    idLost,       \* history: set_run_id commands that failed or were dropped
    stopFor,      \* history: the readout that the last stop_daq was sent for
    stopLost,     \* history: a stop_daq was dropped
    ended         \* history: a timer's readout and the one it has ended

guiStateVars == <<role, state, run, todo, pendingStop, drains, portChanged, prev, clicks>>
deviceVars == <<runId, startedBy, idLost, stopLost>>
dataVars == <<fresh, forgotten>>
stopVars == <<stopFor, ended>>
vars == <<workerVars, guiStateVars, daq, deviceVars, dataVars, stopVars>>

NoDaq == [kind |-> "none", running |-> FALSE, exception |-> FALSE, port |-> FALSE]

Init ==
    /\ WorkersInit
    /\ role \in [Devices -> {"Master", "Slave", "off"}]
    /\ state = "idle"
    /\ daq = NoDaq
    /\ run = 0
    /\ todo = << >>
    /\ pendingStop = {}
    /\ drains = << >>
    /\ portChanged = FALSE
    /\ prev = "none"
    /\ clicks \in 0 .. MaxClicks
    /\ runId = [d \in Devices |-> [t \in Targets |-> 0]]
    /\ startedBy = [device |-> None, target |-> None, run |-> 0]
    /\ fresh = FALSE
    /\ forgotten = FALSE
    /\ idLost = {}
    /\ stopFor = 0
    /\ stopLost = FALSE
    /\ ended = [timer |-> 0, readout |-> 0]
-----------------------------------------------------------------------------
(* Sending commands.                                                       *)

EnabledDevices == {d \in Devices : role[d] # "off"}

\* _master_device(): it exists if exactly one enabled device is the master.
Masters == {d \in EnabledDevices : role[d] = "Master"}

HasMaster == Cardinality(Masters) = 1

\* _send_to_enabled() and _send_to_master().
SendTo(ds, cmd, r) ==
    Submit([d \in Devices |-> IF d \in ds THEN <<[cmd |-> cmd, run |-> r]>> ELSE << >>])

GuiIsIdle == GuiIsFree /\ todo = << >>

Click ==
    /\ GuiIsIdle
    /\ clicks < MaxClicks
    /\ clicks' = clicks + 1
-----------------------------------------------------------------------------
(* The Daq.                                                                *)

\* Daq.stop() of a Daq d, and Daq.start_readout() or start_replay().  A replay
\* does not change the port.
DaqStopped(d) == [d EXCEPT !.running = FALSE, !.port = FALSE]

DaqReading == [kind |-> "readout", running |-> TRUE, exception |-> FALSE, port |-> TRUE]

DaqReplaying(d) == [d EXCEPT !.kind = "replay", !.running = TRUE, !.exception = FALSE]

\* A new worker; it has handed out no packet yet.
NewWorker ==
    /\ run' = run + 1
    /\ fresh' = FALSE
    /\ forgotten' = FALSE

\* What becomes of a snapshot when the statistics start again at zero.
Outdated(snapshot) == IF snapshot = "none" THEN "none" ELSE "stale"

\* Mutation: the tracker keeps the snapshot of the old Daq.
EnsureDaqPortKeepsTracker ==
    /\ portChanged' = FALSE
    /\ prev' = IF portChanged THEN Outdated(prev) ELSE prev

\* _ensure_daq_port(): a new Daq, if the setup has another port.
EnsureDaqPort ==
    /\ portChanged' = FALSE
    /\ prev' = IF portChanged THEN "none" ELSE prev

\* start_readout() throws while the Daq is running, unless it is a new one.
CanRead == portChanged \/ ~daq.running

StartReadout ==
    /\ CanRead
    /\ EnsureDaqPort
    /\ daq' = DaqReading
    /\ NewWorker
    /\ state' = "readout"

\* start_readout() fails, for this reason or because the port or the listfile
\* cannot be opened.  A new Daq stays.
ReadoutFails ==
    /\ EnsureDaqPort
    /\ daq' = IF portChanged THEN NoDaq ELSE daq
    /\ UNCHANGED <<state, run, dataVars>>

\* Mutation: the state follows only an exception.
ShownStateOnError(d) == IF d.exception THEN "idle" ELSE state

\* What _update_stats() shows for a Daq d.
ShownState(d) ==
    IF d.exception \/ ~d.running THEN "idle"
    ELSE IF state # "idle" THEN state
    ELSE IF d.port THEN "readout" ELSE "replay"

\* _update_stats() with a Daq d: an error is taken and the Daq stopped, the state
\* follows the Daq, and the tracker takes a snapshot.
UpdateStats(d) ==
    /\ state' = ShownState(d)
    /\ daq' = IF d.exception \/ (state # "idle" /\ ~d.running)
              THEN [DaqStopped(d) EXCEPT !.exception = FALSE] ELSE d
    /\ prev' = "current"

StatsTick ==
    /\ GuiIsIdle
    /\ UpdateStats(daq)
    /\ UNCHANGED <<workerVars, role, run, todo, pendingStop, drains, portChanged, clicks,
                   deviceVars, dataVars, stopVars>>

\* stop_readout(), which also updates the statistics.
StopReadout ==
    /\ GuiIsIdle
    /\ UpdateStats(DaqStopped(daq))
    /\ UNCHANGED <<role, run, todo, portChanged, deviceVars, dataVars>>
-----------------------------------------------------------------------------
(* Buttons.                                                                *)

StartReadoutOnly ==
    /\ Click
    /\ state = "idle"
    /\ StartReadout \/ ReadoutFails
    /\ UNCHANGED <<workerVars, role, todo, pendingStop, drains, deviceVars, stopVars>>

\* Mutation: the counters are reset when the run has been started.
CallsOfStartRunLateReset(clear) ==
    <<"clear_tracker">> \o (IF clear THEN <<"clear_histograms">> ELSE << >>)
        \o <<"set_run_id", "start_daq", "reset_stats">>

\* Mutation: the master is started before it is told the id.
CallsOfStartRunStartFirst(clear) ==
    <<"reset_stats", "clear_tracker">> \o (IF clear THEN <<"clear_histograms">> ELSE << >>)
        \o <<"start_daq", "set_run_id">>

\* What start_run() calls once the readout runs; clear is a checkbox.
CallsOfStartRun(clear) ==
    IF clear
    THEN <<"reset_stats", "clear_tracker", "clear_histograms", "set_run_id", "start_daq">>
    ELSE <<"reset_stats", "clear_tracker", "set_run_id", "start_daq">>

StartRun ==
    /\ Click
    /\ state = "idle"
    /\ HasMaster
    /\ \/ StartReadout /\ \E clear \in BOOLEAN : todo' = CallsOfStartRun(clear)
       \/ ReadoutFails /\ UNCHANGED todo
    /\ UNCHANGED <<workerVars, role, pendingStop, drains, deviceVars, stopVars>>

NextCall(call) ==
    /\ GuiIsFree
    /\ todo # << >>
    /\ Head(todo) = call
    /\ todo' = Tail(todo)
    /\ UNCHANGED <<role, state, run, pendingStop, drains, portChanged, clicks, daq, deviceVars, stopVars>>

\* Packets of this run that were counted already are forgotten.
ResetStats ==
    /\ NextCall("reset_stats")
    /\ prev' = Outdated(prev)
    /\ forgotten' = (forgotten \/ fresh)
    /\ UNCHANGED <<workerVars, fresh>>

ClearTracker ==
    /\ NextCall("clear_tracker")
    /\ prev' = "none"
    /\ UNCHANGED <<workerVars, dataVars>>

ClearHistograms ==
    /\ NextCall("clear_histograms")
    /\ forgotten' = (forgotten \/ fresh)
    /\ UNCHANGED <<workerVars, prev, fresh>>

\* Mutation: the id in the window is advanced before it is sent.
SendRunIdAdvanced ==
    /\ NextCall("set_run_id")
    /\ SendTo(EnabledDevices, "set_run_id", run + 1)
    /\ UNCHANGED <<prev, dataVars>>

SendRunId ==
    /\ NextCall("set_run_id")
    /\ SendTo(EnabledDevices, "set_run_id", run)
    /\ UNCHANGED <<prev, dataVars>>

SendStart ==
    /\ NextCall("start_daq")
    /\ SendTo(Masters, "start_daq", run)
    /\ UNCHANGED <<prev, dataVars>>

\* Continue is enabled in every state, also during a replay.
ContinueRun ==
    /\ Click
    /\ HasMaster
    /\ \/ /\ IF state = "idle"
             THEN StartReadout
             ELSE UNCHANGED <<state, daq, run, portChanged, prev, dataVars>>
          /\ SendTo(Masters, "continue_daq", run')
       \/ state = "idle" /\ ReadoutFails /\ UNCHANGED workerVars
    /\ UNCHANGED <<role, todo, pendingStop, drains, deviceVars, stopVars>>

StopRun ==
    /\ Click
    /\ state = "readout"
    /\ HasMaster
    /\ SendTo(Masters, "stop_daq", run)
    /\ pendingStop' = Masters
    /\ stopFor' = run
    /\ UNCHANGED <<role, state, run, todo, drains, portChanged, prev, daq, deviceVars,
                   dataVars, ended>>

\* Stop Run without a master to tell, and Stop Readout.
StopReadoutClicked ==
    /\ Click
    /\ state # "idle"
    /\ \/ UNCHANGED pendingStop
       \/ state = "readout" /\ ~HasMaster /\ pendingStop' = {}
    /\ StopReadout
    /\ UNCHANGED <<workerVars, drains, stopVars>>

\* _start_replay() clears and resets first, then the file may fail to open.
StartReplay ==
    /\ Click
    /\ state = "idle"
    /\ prev' = "none"
    /\ \/ /\ ~daq.running
          /\ daq' = DaqReplaying(daq)
          /\ NewWorker
          /\ state' = "replay"
       \/ UNCHANGED <<daq, run, state, dataVars>>
    /\ UNCHANGED <<workerVars, role, todo, pendingStop, drains, portChanged, deviceVars, stopVars>>

\* Edits of the setup: a role, the check mark "enabled", or the port.
EditRole(d, r) ==
    /\ Click
    /\ r # role[d]
    /\ role' = [role EXCEPT ![d] = r]
    /\ UNCHANGED <<workerVars, state, run, todo, pendingStop, drains, portChanged, prev,
                   daq, deviceVars, dataVars, stopVars>>

EditPort ==
    /\ Click
    /\ state = "idle"
    /\ portChanged' = ~portChanged
    /\ UNCHANGED <<workerVars, role, state, run, todo, pendingStop, drains, prev,
                   daq, deviceVars, dataVars, stopVars>>

RemoveDevice(d) ==
    /\ Click
    /\ SubmitAndRemove([e \in Devices |-> << >>], {d})
    /\ role' = [role EXCEPT ![d] = "off"]
    /\ UNCHANGED <<state, run, todo, pendingStop, drains, portChanged, prev,
                   daq, deviceVars, dataVars, stopVars>>

\* Another address, id or port; jobs that are queued keep the one they have.
Redirect(d, t) ==
    /\ Click
    /\ t # target[d]
    /\ EditTarget(d, t)
    /\ UNCHANGED <<role, state, run, todo, pendingStop, drains, portChanged, prev,
                   daq, deviceVars, dataVars, stopVars>>

\* daq.stop(), daq.start_readout(), daq.start_replay(), and daq.reset_stats() or
\* daq.clear_sources(), typed in the console.  The tracker is not told of a reset.
Console ==
    /\ Click
    /\ \/ daq' = DaqStopped(daq) /\ UNCHANGED <<run, prev, dataVars>>
       \/ ~daq.running /\ daq' = DaqReading /\ NewWorker /\ UNCHANGED prev
       \/ ~daq.running /\ daq' = DaqReplaying(daq) /\ NewWorker /\ UNCHANGED prev
       \/ prev = "current" /\ prev' = "behind" /\ UNCHANGED <<daq, run, dataVars>>
    /\ UNCHANGED <<workerVars, role, state, todo, pendingStop, drains, portChanged,
                   deviceVars, stopVars>>
-----------------------------------------------------------------------------
(* Events.                                                                 *)

\* Mutation: an error is not an answer.
IsStopAnswerIfOk(result) ==
    result.ok /\ result.item.job.cmd = "stop_daq" /\ result.device \in pendingStop

\* A result of the stop that is waited for, also if it is an error.
IsStopAnswer(result) ==
    result.item.job.cmd = "stop_daq" /\ result.device \in pendingStop

\* _on_command_finished(): the last answer starts the timer that ends the readout.
OnCommandFinished ==
    /\ GuiIsIdle
    /\ Deliver
    /\ pendingStop' = IF IsStopAnswer(Head(posted))
                      THEN pendingStop \ {Head(posted).device} ELSE pendingStop
    /\ drains' = IF IsStopAnswer(Head(posted)) /\ pendingStop' = {} /\ state = "readout"
                 THEN Append(drains, stopFor) ELSE drains
    /\ UNCHANGED <<role, state, run, todo, portChanged, prev, clicks, daq, deviceVars,
                   dataVars, stopVars>>

\* After DrainDelay_ms; nothing takes the timer back.
DrainEnds ==
    /\ drains # << >>
    /\ drains' = Tail(drains)
    /\ StopReadout
    /\ ended' = IF daq.running THEN [timer |-> Head(drains), readout |-> run] ELSE ended
    /\ UNCHANGED <<workerVars, pendingStop, clicks, stopFor>>

\* The thread of the Daq: an error, the end of a listfile, a packet of the run.
DaqThread ==
    /\ daq.running
    /\ \/ daq' = [daq EXCEPT !.running = FALSE, !.exception = TRUE] /\ UNCHANGED fresh
       \/ daq.kind = "replay" /\ daq' = [daq EXCEPT !.running = FALSE] /\ UNCHANGED fresh
       \/ daq.kind = "readout" /\ startedBy.run = run /\ fresh' = TRUE /\ UNCHANGED daq
    /\ UNCHANGED <<workerVars, guiStateVars, deviceVars, forgotten, stopVars>>

\* What a command does at the other end of the connection.
Carried(d, job) ==
    /\ runId' = IF job.cmd = "set_run_id" THEN [runId EXCEPT ![d][conn[d]] = job.run] ELSE runId
    /\ startedBy' = IF job.cmd = "start_daq"
                    THEN [device |-> d, target |-> conn[d], run |-> job.run] ELSE startedBy

\* History: commands that were not carried out.
Missed(d, jobs) ==
    idLost' = idLost \cup {<<d, j.run>> : j \in {k \in jobs : k.cmd = "set_run_id"}}

JobBegins(d) ==
    /\ BeginJob(d)
    /\ UNCHANGED <<guiStateVars, daq, deviceVars, dataVars, stopVars>>

JobCannotBegin(d) ==
    /\ ConnectThrows(d)
    /\ Missed(d, {Head(queue[d]).job})
    /\ UNCHANGED <<guiStateVars, daq, runId, startedBy, stopLost, dataVars, stopVars>>

JobEnds(d, ok) ==
    /\ EndJob(d, ok)
    /\ \/ Carried(d, active[d].job) /\ UNCHANGED idLost
       \/ ~ok /\ Missed(d, {active[d].job}) /\ UNCHANGED <<runId, startedBy>>
    /\ UNCHANGED <<guiStateVars, daq, stopLost, dataVars, stopVars>>

WorkerEnds(d) ==
    /\ ThreadEnds(d)
    /\ LET dropped == {queue[d][i].job : i \in DOMAIN queue[d]}
       IN  /\ Missed(d, dropped)
           /\ stopLost' = (stopLost \/ \E j \in dropped : j.cmd = "stop_daq")
    /\ UNCHANGED <<guiStateVars, daq, runId, startedBy, dataVars, stopVars>>

GuiGoesOn ==
    /\ WaitReturns \/ \E d \in Devices : RemoveNext(d)
    /\ UNCHANGED <<guiStateVars, daq, deviceVars, dataVars, stopVars>>

Worker(d) ==
    \/ JobBegins(d)
    \/ JobCannotBegin(d)
    \/ \E ok \in BOOLEAN : JobEnds(d, ok)
    \/ WorkerEnds(d)

StartRunGoesOn == ResetStats \/ ClearTracker \/ ClearHistograms \/ SendRunId \/ SendStart

User ==
    \/ StartReadoutOnly
    \/ StartRun
    \/ ContinueRun
    \/ StopRun
    \/ StopReadoutClicked
    \/ StartReplay
    \/ EditPort
    \/ Console
    \/ \E d \in Devices :
          \/ RemoveDevice(d)
          \/ \E t \in Targets : Redirect(d, t)
          \/ \E r \in {"Master", "Slave", "off"} : EditRole(d, r)

Next ==
    \/ User
    \/ StartRunGoesOn
    \/ StatsTick
    \/ OnCommandFinished
    \/ DrainEnds
    \/ DaqThread
    \/ GuiGoesOn
    \/ \E d \in Devices : Worker(d)

\* Transactions return and threads are scheduled; the GUI's event loop runs its
\* timers and delivers events.  No fairness of the user, the network or DaqThread.
Fairness ==
    /\ \A d \in Devices : WF_vars(Worker(d))
    /\ WF_vars(StartRunGoesOn)
    /\ WF_vars(StatsTick)
    /\ WF_vars(OnCommandFinished)
    /\ WF_vars(DrainEnds)
    /\ WF_vars(GuiGoesOn)

Spec == Init /\ [][Next]_vars

FairSpec == Spec /\ Fairness
-----------------------------------------------------------------------------
TypeOK ==
    /\ WorkersTypeOK
    /\ role \in [Devices -> {"Master", "Slave", "off"}]
    /\ state \in {"idle", "readout", "replay"}
    /\ daq \in [kind : {"none", "readout", "replay"}, running : BOOLEAN,
                exception : BOOLEAN, port : BOOLEAN]
    /\ run \in 0 .. MaxClicks
    /\ todo \in Seq({"reset_stats", "clear_tracker", "clear_histograms", "set_run_id", "start_daq"})
    /\ pendingStop \subseteq Devices
    /\ drains \in Seq(1 .. MaxClicks)
    /\ portChanged \in BOOLEAN
    /\ prev \in {"none", "current", "behind", "stale"}
    /\ clicks \in 0 .. MaxClicks
    /\ runId \in [Devices -> [Targets -> 0 .. run]]
    /\ startedBy \in [device : Devices \cup {None}, target : Targets \cup {None}, run : 0 .. run]
    /\ fresh \in BOOLEAN /\ forgotten \in BOOLEAN /\ stopLost \in BOOLEAN
    /\ idLost \subseteq Devices \X (1 .. run)
    /\ stopFor \in 0 .. run
    /\ ended \in [timer : 0 .. run, readout : 0 .. run]

\* The master starts taking data with the id of that run, unless its set_run_id
\* failed or was dropped, however slow its connection is, whatever was sent to it
\* before and wherever it is redirected to: the hardware that was started is the
\* hardware that was told.  (Slaves have connections and queues of their own.)
MasterKnowsRunId ==
    startedBy.run > 0 =>
        \/ runId[startedBy.device][startedBy.target] >= startedBy.run
        \/ <<startedBy.device, startedBy.run>> \in idLost

\* Packets that the devices send because start_run() has started them are in the
\* statistics and histograms: none arrives before the last reset of that call.
RunIsCounted == ~forgotten

\* Rates are computed from two snapshots of the same count: whenever the timer may
\* take the next snapshot, the last one is of the current count, or is gone, or the
\* console has reset the count.  (The tracker does not know of that; stats.py:101
\* then only keeps the difference of the packets from being negative.)
RatesOfOneCount == GuiIsIdle => prev # "stale"

\* README.md:398-399: what happens to the Daq, by the console or by an error, is
\* reflected in the GUI: the two agree again and again.
GuiFollowsDaq == []<>((state = "idle") <=> ~daq.running)

\* A run that was stopped ends, even if the master answers with an error, unless
\* its stop_daq was dropped with the device.
StopRunEnds ==
    (pendingStop # {} /\ stopFor = run) ~> (~daq.running \/ stopFor # run \/ stopLost)

\* The tooltip of Stop Run at main_window.py:80: "Send stop_daq to the timing
\* master, then stop the readout".  The readout that is stopped should be the one
\* for which stop_daq was sent.
StopEndsItsReadout == ended.timer = ended.readout
=============================================================================
