-------------------------- MODULE RunControlProofs --------------------------
(***************************************************************************)
(* Proofs about RunControl, for any devices and targets and any number of  *)
(* clicks, on top of the types of the command threads.                     *)
(***************************************************************************)
EXTENDS RunControl, DeviceWorkersProofs, FiniteSetTheorems

\* What start_run() may have still to do.
RestsOfStartRun ==
    { << >>, <<"start_daq">>, <<"set_run_id", "start_daq">>,
      <<"clear_histograms", "set_run_id", "start_daq">>,
      <<"clear_tracker", "set_run_id", "start_daq">>,
      <<"clear_tracker", "clear_histograms", "set_run_id", "start_daq">>,
      <<"reset_stats", "clear_tracker", "set_run_id", "start_daq">>,
      <<"reset_stats", "clear_tracker", "clear_histograms", "set_run_id", "start_daq">> }

DaqType ==
    [kind : {"none", "readout", "replay"}, running : BOOLEAN, exception : BOOLEAN, port : BOOLEAN]

\* The run control alone: its types, runs are not more than clicks, and something
\* is running, pending or to be done only if there has been a run.
GuiInv ==
    /\ role \in [Devices -> {"Master", "Slave", "off"}]
    /\ state \in {"idle", "readout", "replay"}
    /\ daq \in DaqType
    /\ clicks \in Nat /\ clicks <= MaxClicks /\ run \in Nat /\ run <= clicks
    /\ todo \in RestsOfStartRun
    /\ portChanged \in BOOLEAN
    /\ prev \in {"none", "current", "behind", "stale"}
    /\ state # "idle" \/ daq.running \/ todo # << >> => run > 0

\* The stop of a run.
StopInv ==
    /\ pendingStop \subseteq Devices
    /\ drains \in Seq(1 .. run)
    /\ stopFor \in 0 .. run
    /\ pendingStop # {} => stopFor > 0
    /\ ended \in [timer : 0 .. run, readout : 0 .. run]

LEMMA DaqTypes ==
    ASSUME NEW d \in DaqType
    PROVE  /\ DaqStopped(d) \in DaqType /\ ~DaqStopped(d).running
           /\ [DaqStopped(d) EXCEPT !.exception = FALSE] \in DaqType
           /\ ~[DaqStopped(d) EXCEPT !.exception = FALSE].running
           /\ DaqReading \in DaqType /\ DaqReplaying(d) \in DaqType
           /\ NoDaq \in DaqType /\ ~NoDaq.running
           /\ [d EXCEPT !.running = FALSE, !.exception = TRUE] \in DaqType
           /\ [d EXCEPT !.running = FALSE] \in DaqType
  BY DEF DaqType, DaqStopped, DaqReading, DaqReplaying, NoDaq

LEMMA TailsOfStartRun ==
    ASSUME NEW r \in RestsOfStartRun, r # << >>
    PROVE  /\ Tail(r) \in RestsOfStartRun
           /\ Head(r) = "reset_stats" => Tail(r) # << >> /\ Head(Tail(r)) = "clear_tracker"
           /\ Head(r) = "set_run_id" => Tail(r) = <<"start_daq">>
           /\ Head(r) = "start_daq" => r = <<"start_daq">> /\ Tail(r) = << >>
           /\ Tail(r) = <<"start_daq">> => Head(r) = "set_run_id"
           /\ Tail(r) = << >> => Head(r) = "start_daq"
<1>1. CASE r = <<"start_daq">>
  <2>1. Tail(r) = << >> /\ Head(r) = "start_daq"
    BY <1>1
  <2> QED BY <2>1 DEF RestsOfStartRun
<1>2. CASE r = <<"set_run_id", "start_daq">>
  <2>1. Tail(r) = <<"start_daq">> /\ Head(r) = "set_run_id" /\ Tail(r) # << >>
    BY <1>2
  <2>2. <<"start_daq">> \in RestsOfStartRun
    BY DEF RestsOfStartRun
  <2> QED BY <2>1, <2>2
<1>3. CASE r = <<"clear_histograms", "set_run_id", "start_daq">>
  <2>1. Tail(r) = <<"set_run_id", "start_daq">> /\ Head(r) = "clear_histograms"
    BY <1>3
  <2> QED BY <2>1 DEF RestsOfStartRun
<1>4. CASE r = <<"clear_tracker", "set_run_id", "start_daq">>
  <2>1. Tail(r) = <<"set_run_id", "start_daq">> /\ Head(r) = "clear_tracker"
    BY <1>4
  <2> QED BY <2>1 DEF RestsOfStartRun
<1>5. CASE r = <<"clear_tracker", "clear_histograms", "set_run_id", "start_daq">>
  <2>1. Tail(r) = <<"clear_histograms", "set_run_id", "start_daq">> /\ Head(r) = "clear_tracker"
    BY <1>5
  <2> QED BY <2>1 DEF RestsOfStartRun
<1>6. CASE r = <<"reset_stats", "clear_tracker", "set_run_id", "start_daq">>
  <2>1. Tail(r) = <<"clear_tracker", "set_run_id", "start_daq">> /\ Head(r) = "reset_stats"
    BY <1>6
  <2> DEFINE t == <<"clear_tracker", "set_run_id", "start_daq">>
  <2>2. t # << >> /\ Head(t) = "clear_tracker" /\ t # <<"start_daq">>
    OBVIOUS
  <2>3. Tail(r) # << >> /\ Head(Tail(r)) = "clear_tracker" /\ Tail(r) # <<"start_daq">>
    <3> HIDE DEF t
    <3>1. Tail(r) = t
      BY <2>1 DEF t
    <3> QED BY <2>2, <3>1
  <2>4. Tail(r) \in RestsOfStartRun
    BY <2>1 DEF RestsOfStartRun
  <2> QED BY <2>1, <2>3, <2>4
<1>7. CASE r = <<"reset_stats", "clear_tracker", "clear_histograms", "set_run_id", "start_daq">>
  <2>1. /\ Tail(r) = <<"clear_tracker", "clear_histograms", "set_run_id", "start_daq">>
        /\ Head(r) = "reset_stats"
    BY <1>7
  <2> DEFINE t == <<"clear_tracker", "clear_histograms", "set_run_id", "start_daq">>
  <2>2. t # << >> /\ Head(t) = "clear_tracker" /\ t # <<"start_daq">>
    OBVIOUS
  <2>3. Tail(r) # << >> /\ Head(Tail(r)) = "clear_tracker" /\ Tail(r) # <<"start_daq">>
    <3> HIDE DEF t
    <3>1. Tail(r) = t
      BY <2>1 DEF t
    <3> QED BY <2>2, <3>1
  <2>4. Tail(r) \in RestsOfStartRun
    BY <2>1 DEF RestsOfStartRun
  <2> QED BY <2>1, <2>3, <2>4
<1> QED BY <1>1, <1>2, <1>3, <1>4, <1>5, <1>6, <1>7 DEF RestsOfStartRun

LEMMA CallsAreRests ==
    ASSUME NEW clear \in BOOLEAN
    PROVE  /\ CallsOfStartRun(clear) \in RestsOfStartRun
           /\ CallsOfStartRun(clear) # << >> /\ CallsOfStartRun(clear) # <<"start_daq">>
           /\ Head(CallsOfStartRun(clear)) = "reset_stats"
  BY DEF CallsOfStartRun, RestsOfStartRun
-----------------------------------------------------------------------------
(* The state of the GUI.                                                   *)

\* One of the calls that start_run() makes.
CallStep ==
    \E call \in {"reset_stats", "clear_tracker", "clear_histograms", "set_run_id", "start_daq"} :
        NextCall(call)

LEMMA GoesOnIsCall ==
    StartRunGoesOn => CallStep
  BY DEF StartRunGoesOn, ResetStats, ClearTracker, ClearHistograms, SendRunId, SendStart, CallStep

\* The user edits the setup.
Edits ==
    \/ EditPort
    \/ \E d \in Devices :
          \/ RemoveDevice(d)
          \/ \E t \in Targets : Redirect(d, t)
          \/ \E r \in {"Master", "Slave", "off"} : EditRole(d, r)

LEMMA EditsIn ==
    ASSUME Edits
    PROVE  /\ todo = << >> /\ clicks < MaxClicks /\ clicks' = clicks + 1
           /\ UNCHANGED <<state, daq, run, todo, pendingStop, drains, prev>>
           /\ UNCHANGED <<deviceVars, dataVars, stopVars>>
<1>1. CASE EditPort
  BY <1>1 DEF EditPort, Click, GuiIsIdle
<1>2. CASE \E d \in Devices : RemoveDevice(d)
  BY <1>2 DEF RemoveDevice, Click, GuiIsIdle
<1>3. CASE \E d \in Devices, t \in Targets : Redirect(d, t)
  BY <1>3 DEF Redirect, Click, GuiIsIdle
<1>4. CASE \E d \in Devices, r \in {"Master", "Slave", "off"} : EditRole(d, r)
  BY <1>4 DEF EditRole, Click, GuiIsIdle
<1> QED BY <1>1, <1>2, <1>3, <1>4 DEF Edits

LEMMA UpdateKeeps ==
    ASSUME GuiInv, NEW d \in DaqType, UpdateStats(d), d.running => daq.running
    PROVE  /\ state' \in {"idle", "readout", "replay"} /\ daq' \in DaqType
           /\ prev' = "current"
           /\ state' # "idle" \/ daq'.running => run > 0
<1>1. /\ state' = ShownState(d) /\ prev' = "current"
      /\ daq' = IF d.exception \/ (state # "idle" /\ ~d.running)
                THEN [DaqStopped(d) EXCEPT !.exception = FALSE] ELSE d
  BY DEF UpdateStats
<1>2. state' \in {"idle", "readout", "replay"} /\ (state' # "idle" => d.running)
  BY <1>1 DEF ShownState, GuiInv
<1>3. daq' \in DaqType /\ (daq'.running => d.running)
  BY <1>1, DaqTypes
<1> QED BY <1>1, <1>2, <1>3 DEF GuiInv

LEMMA ReadoutBegins ==
    ASSUME GuiInv, clicks' = clicks + 1, StartReadout \/ ReadoutFails
    PROVE  /\ state' \in {"idle", "readout", "replay"} /\ daq' \in DaqType
           /\ run' \in {run, run + 1} /\ run' \in Nat /\ run' <= clicks'
           /\ portChanged' = FALSE /\ prev' \in {"none", prev}
           /\ state' # "idle" \/ daq'.running => run' > 0
<1>1. DaqReading \in DaqType /\ NoDaq \in DaqType /\ ~NoDaq.running
  BY DaqTypes DEF GuiInv
<1>2. EnsureDaqPort => portChanged' = FALSE /\ prev' \in {"none", prev}
  BY DEF EnsureDaqPort
<1>3. CASE StartReadout
  BY <1>1, <1>2, <1>3 DEF StartReadout, NewWorker, GuiInv
<1>4. CASE ReadoutFails
  <2>1. daq' \in {NoDaq, daq} /\ UNCHANGED <<state, run>> /\ EnsureDaqPort
    BY <1>4 DEF ReadoutFails
  <2> QED BY <1>1, <1>2, <2>1 DEF GuiInv
<1> QED BY <1>3, <1>4

LEMMA ReadoutKeeps ==
    ASSUME GuiInv, clicks < MaxClicks, clicks' = clicks + 1, role' = role,
           todo' \in RestsOfStartRun, StartReadout \/ (ReadoutFails /\ todo' = todo)
    PROVE  GuiInv'
<1>1. /\ state' \in {"idle", "readout", "replay"} /\ daq' \in DaqType
      /\ run' \in Nat /\ run' <= clicks'
      /\ portChanged' = FALSE /\ prev' \in {"none", prev}
      /\ state' # "idle" \/ daq'.running => run' > 0
  BY ReadoutBegins
<1>2. todo' # << >> => run' > 0
  BY DEF StartReadout, ReadoutFails, NewWorker, GuiInv
<1>3. clicks' \in Nat /\ clicks' <= MaxClicks
  BY RunAssumption DEF GuiInv
<1> QED BY <1>1, <1>2, <1>3 DEF GuiInv

LEMMA GuiStep ==
    ASSUME GuiInv, [Next]_vars
    PROVE  GuiInv'
<1> USE RunAssumption
<1>1. /\ DaqReading \in DaqType /\ DaqReplaying(daq) \in DaqType
      /\ NoDaq \in DaqType /\ ~NoDaq.running
      /\ DaqStopped(daq) \in DaqType /\ ~DaqStopped(daq).running
      /\ [daq EXCEPT !.running = FALSE, !.exception = TRUE] \in DaqType
      /\ [daq EXCEPT !.running = FALSE] \in DaqType
  BY DaqTypes DEF GuiInv
<1>2. CASE StartReadoutOnly \/ StartRun
  <2>1. /\ role' = role /\ clicks' = clicks + 1 /\ clicks < MaxClicks
        /\ todo' \in RestsOfStartRun
        /\ StartReadout \/ (ReadoutFails /\ todo' = todo)
    BY <1>2, CallsAreRests DEF StartReadoutOnly, StartRun, Click, GuiIsIdle, GuiInv
  <2> QED BY <2>1, ReadoutKeeps
<1>3. CASE ContinueRun
  <2>1. /\ role' = role /\ clicks' = clicks + 1 /\ clicks < MaxClicks /\ todo' = todo
        /\ \/ StartReadout
           \/ ReadoutFails
           \/ UNCHANGED <<state, daq, run, portChanged, prev, dataVars>>
    BY <1>3 DEF ContinueRun, Click
  <2>2. CASE StartReadout \/ ReadoutFails
    BY <2>1, <2>2, ReadoutKeeps DEF GuiInv
  <2>3. CASE UNCHANGED <<state, daq, run, portChanged, prev, dataVars>>
    BY <2>1, <2>3, RunAssumption DEF GuiInv
  <2> QED BY <2>1, <2>2, <2>3
<1>4. CASE StopRun
  BY <1>4 DEF StopRun, Click, GuiInv
<1>5. CASE Edits
  <2>1. /\ clicks' = clicks + 1 /\ clicks < MaxClicks
        /\ UNCHANGED <<state, run, todo, prev, daq>>
    BY <1>5, EditsIn
  <2>2. portChanged' \in BOOLEAN
    BY <1>5 DEF Edits, EditPort, RemoveDevice, Redirect, EditRole, GuiInv
  <2>3. role' \in [Devices -> {"Master", "Slave", "off"}]
    BY <1>5 DEF Edits, EditPort, RemoveDevice, Redirect, EditRole, GuiInv
  <2> QED BY <2>1, <2>2, <2>3 DEF GuiInv
<1>6. CASE StopReadoutClicked \/ DrainEnds \/ StatsTick
  <2>1. PICK d \in {daq, DaqStopped(daq)} : UpdateStats(d)
    BY <1>6 DEF StopReadoutClicked, DrainEnds, StopReadout, StatsTick
  <2>2. d \in DaqType /\ (d.running => daq.running)
    BY <1>1 DEF GuiInv
  <2>3. /\ UNCHANGED <<role, run, todo, portChanged>>
        /\ clicks' = clicks \/ (clicks < MaxClicks /\ clicks' = clicks + 1)
        /\ todo = << >>
    BY <1>6 DEF StopReadoutClicked, DrainEnds, StopReadout, StatsTick, Click, GuiIsIdle
  <2>4. /\ state' \in {"idle", "readout", "replay"} /\ daq' \in DaqType
        /\ prev' = "current" /\ (state' # "idle" \/ daq'.running => run > 0)
    BY <2>1, <2>2, UpdateKeeps
  <2> QED BY <2>3, <2>4 DEF GuiInv
<1>7. CASE StartReplay
  BY <1>7, <1>1 DEF StartReplay, Click, NewWorker, GuiInv
<1>8. CASE Console
  BY <1>8, <1>1 DEF Console, Click, NewWorker, GuiInv
<1>9. CASE StartRunGoesOn
  <2>1. /\ todo # << >> /\ todo' = Tail(todo)
        /\ UNCHANGED <<role, state, run, portChanged, clicks, daq>>
    BY <1>9, GoesOnIsCall DEF CallStep, NextCall
  <2>2. prev' \in {"none", "current", "behind", "stale"}
    BY <1>9 DEF StartRunGoesOn, ResetStats, ClearTracker, ClearHistograms, SendRunId, SendStart,
                Outdated, GuiInv
  <2> QED BY <2>1, <2>2, TailsOfStartRun DEF GuiInv
<1>10. CASE OnCommandFinished
  BY <1>10 DEF OnCommandFinished, GuiInv
<1>11. CASE DaqThread
  BY <1>11, <1>1 DEF DaqThread, guiStateVars, GuiInv
<1>12. CASE GuiGoesOn \/ (\E d \in Devices : Worker(d)) \/ UNCHANGED vars
  BY <1>12 DEF GuiGoesOn, Worker, JobBegins, JobCannotBegin, JobEnds, WorkerEnds, vars,
               guiStateVars, GuiInv
<1> QED BY <1>2, <1>3, <1>4, <1>5, <1>6, <1>7, <1>8, <1>9, <1>10, <1>11, <1>12 DEF Next, User, Edits
-----------------------------------------------------------------------------
(* Snapshots.                                                              *)

\* A snapshot of counts that were reset is cleared by the next call.
RatesInv == prev = "stale" => todo # << >> /\ Head(todo) = "clear_tracker"

LEMMA RatesStep ==
    ASSUME GuiInv, RatesInv, [Next]_vars
    PROVE  RatesInv'
<1> USE DEF RatesInv
<1>1. EnsureDaqPort => prev' \in {"none", prev}
  BY DEF EnsureDaqPort
<1>2. CASE StartReadoutOnly \/ StartRun \/ ContinueRun
  <2>1. todo = << >> /\ prev' \in {"none", prev}
    BY <1>1, <1>2 DEF StartReadoutOnly, StartRun, ContinueRun, Click, GuiIsIdle, StartReadout,
                      ReadoutFails
  <2> QED BY <2>1
<1>3. CASE StopReadoutClicked \/ DrainEnds \/ StatsTick
  BY <1>3 DEF StopReadoutClicked, DrainEnds, StatsTick, StopReadout, UpdateStats
<1>4. CASE StartReplay
  BY <1>4 DEF StartReplay
<1>5. CASE ResetStats
  <2>1. todo \in RestsOfStartRun /\ todo # << >> /\ Head(todo) = "reset_stats" /\ todo' = Tail(todo)
    BY <1>5 DEF ResetStats, NextCall, GuiInv
  <2> QED BY <2>1, TailsOfStartRun
<1>6. CASE ClearTracker
  BY <1>6 DEF ClearTracker
<1>7. CASE ClearHistograms \/ SendRunId \/ SendStart
  BY <1>7 DEF ClearHistograms, SendRunId, SendStart, NextCall
<1>8. CASE StopRun \/ Edits \/ Console
  BY <1>8, EditsIn DEF StopRun, Console
<1>9. CASE OnCommandFinished \/ DaqThread \/ GuiGoesOn \/ (\E d \in Devices : Worker(d))
           \/ UNCHANGED vars
  BY <1>9 DEF OnCommandFinished, DaqThread, GuiGoesOn, Worker, JobBegins, JobCannotBegin, JobEnds,
              WorkerEnds, vars, guiStateVars
<1> QED BY <1>2, <1>3, <1>4, <1>5, <1>6, <1>7, <1>8, <1>9
         DEF Next, User, StartRunGoesOn, Edits
-----------------------------------------------------------------------------
(* The stop of a run.                                                      *)

LEMMA RunGrows ==
    ASSUME GuiInv, [Next]_vars
    PROVE  run' \in {run, run + 1} /\ run \in Nat
<1>1. run \in Nat
  BY DEF GuiInv
<1>2. CASE StartReadoutOnly \/ StartRun \/ ContinueRun \/ StartReplay \/ Console
  BY <1>1, <1>2 DEF StartReadoutOnly, StartRun, ContinueRun, StartReplay, Console, StartReadout,
              ReadoutFails, NewWorker
<1>3. CASE StopReadoutClicked \/ DrainEnds \/ StatsTick \/ StopRun \/ Edits
  BY <1>1, <1>3, EditsIn DEF StopReadoutClicked, DrainEnds, StatsTick, StopReadout, StopRun
<1>4. CASE StartRunGoesOn
  BY <1>1, <1>4, GoesOnIsCall DEF CallStep, NextCall
<1>5. CASE OnCommandFinished \/ DaqThread \/ GuiGoesOn \/ (\E d \in Devices : Worker(d))
           \/ UNCHANGED vars
  BY <1>1, <1>5 DEF OnCommandFinished, DaqThread, GuiGoesOn, Worker, JobBegins, JobCannotBegin,
              JobEnds, WorkerEnds, vars, guiStateVars
<1> QED BY <1>1, <1>2, <1>3, <1>4, <1>5 DEF Next, User, Edits

LEMMA StopStep ==
    ASSUME WorkersTypeOK, GuiInv, StopInv, [Next]_vars
    PROVE  StopInv'
<1>1. run' \in {run, run + 1} /\ run \in Nat
  BY RunGrows
<1>2. Seq(1 .. run) \subseteq Seq(1 .. run')
  BY <1>1, SeqMonotonic
<1>3. CASE UNCHANGED <<pendingStop, drains, stopVars>>
  BY <1>1, <1>2, <1>3 DEF StopInv, stopVars
<1>4. CASE StopRun
  <2>1. pendingStop' \subseteq Devices /\ stopFor' = run /\ run' = run
        /\ UNCHANGED <<drains, ended>> /\ run > 0
    BY <1>4 DEF StopRun, Masters, EnabledDevices, GuiInv
  <2> QED BY <1>1, <2>1 DEF StopInv
<1>5. CASE StopReadoutClicked
  BY <1>1, <1>2, <1>5 DEF StopReadoutClicked, StopReadout, StopInv, stopVars
<1>6. CASE OnCommandFinished
  <2>1. /\ pendingStop' \in {pendingStop, pendingStop \ {Head(posted).device}}
        /\ run' = run /\ UNCHANGED stopVars
        /\ \/ drains' = drains
           \/ pendingStop # {} /\ drains' = Append(drains, stopFor)
    BY <1>6 DEF OnCommandFinished, IsStopAnswer
  <2>2. stopFor' = stopFor /\ ended' = ended /\ pendingStop' \subseteq pendingStop
    BY <2>1 DEF stopVars
  <2>3. drains' \in Seq(1 .. run)
    BY <1>1, <2>1 DEF StopInv
  <2> QED BY <2>1, <2>2, <2>3 DEF StopInv
<1>7. CASE DrainEnds
  <2>1. /\ drains # << >> /\ drains' = Tail(drains) /\ run' = run
        /\ UNCHANGED <<pendingStop, stopFor>>
        /\ ended' \in {ended, [timer |-> Head(drains), readout |-> run]}
    BY <1>7 DEF DrainEnds, StopReadout
  <2>2. Head(drains) \in 1 .. run /\ Tail(drains) \in Seq(1 .. run)
    BY <2>1, HeadTailProperties DEF StopInv
  <2> QED BY <1>1, <2>1, <2>2 DEF StopInv
<1>8. CASE StartReadoutOnly \/ StartRun \/ ContinueRun \/ StartReplay \/ Console \/ StatsTick
           \/ Edits
  BY <1>3, <1>8, EditsIn DEF StartReadoutOnly, StartRun, ContinueRun, StartReplay, Console,
              StatsTick
<1>9. CASE StartRunGoesOn
  BY <1>3, <1>9, GoesOnIsCall DEF CallStep, NextCall
<1>10. CASE DaqThread \/ GuiGoesOn \/ (\E d \in Devices : Worker(d)) \/ UNCHANGED vars
  BY <1>3, <1>10 DEF DaqThread, GuiGoesOn, Worker, JobBegins, JobCannotBegin, JobEnds, WorkerEnds,
              vars, guiStateVars
<1> QED BY <1>4, <1>5, <1>6, <1>7, <1>8, <1>9, <1>10 DEF Next, User, Edits
-----------------------------------------------------------------------------
(* The workers.                                                            *)

JobsOf(ds, cmd, r) ==
    [d \in Devices |-> IF d \in ds THEN <<[cmd |-> cmd, run |-> r]>> ELSE << >>]

NoJobs == [d \in Devices |-> << >>]

LEMMA JobsAreLists ==
    ASSUME NEW ds, NEW cmd \in Commands, NEW r \in 0 .. MaxClicks
    PROVE  JobsOf(ds, cmd, r) \in JobLists /\ NoJobs \in JobLists
<1>1. [cmd |-> cmd, run |-> r] \in Jobs
  BY RunAssumption DEF RunJobs
<1>2. <<[cmd |-> cmd, run |-> r]>> \in Seq(Jobs) /\ << >> \in Seq(Jobs)
  BY <1>1
<1> QED BY <1>2 DEF JobsOf, NoJobs, JobLists

\* What is sent has the number of the current run, and starting is the last call.
Sends ==
    \/ /\ SendRunId
       /\ Submit(JobsOf(EnabledDevices, "set_run_id", run)) /\ run' = run
    \/ SendStart /\ Submit(JobsOf(Masters, "start_daq", run)) /\ run' = run
    \/ /\ ContinueRun /\ (IF state = "idle" THEN StartReadout ELSE run' = run)
       /\ Submit(JobsOf(Masters, "continue_daq", run'))
    \/ StopRun /\ Submit(JobsOf(Masters, "stop_daq", run)) /\ run' = run

LEMMA SendsIn ==
    SendRunId \/ SendStart \/ StopRun \/ ContinueRun
       => Sends \/ (ContinueRun /\ UNCHANGED workerVars)
<1>1. SendRunId \/ SendStart \/ StopRun => Sends
  BY DEF SendRunId, SendStart, StopRun, NextCall, Sends, SendTo, JobsOf
<1>2. ContinueRun => Sends \/ UNCHANGED workerVars
  BY DEF ContinueRun, Sends, SendTo, JobsOf
<1> QED BY <1>1, <1>2

LEMMA StepKinds ==
    ASSUME [Next]_vars
    PROVE  \/ Sends
           \/ \E d \in Devices : RemoveDevice(d) /\ SubmitAndRemove(NoJobs, {d})
           \/ \E d \in Devices, t \in Targets : Redirect(d, t) /\ EditTarget(d, t)
           \/ OnCommandFinished /\ Deliver
           \/ GuiGoesOn
           \/ \E d \in Devices : Worker(d)
           \/ UNCHANGED workerVars
<1>1. CASE SendRunId \/ SendStart \/ StopRun \/ ContinueRun
  BY <1>1, SendsIn
<1>2. CASE \E d \in Devices : RemoveDevice(d)
  BY <1>2 DEF RemoveDevice, NoJobs
<1>3. CASE OnCommandFinished
  BY <1>3 DEF OnCommandFinished
<1>4. CASE GuiGoesOn \/ \E d \in Devices : Worker(d)
  BY <1>4
<1>5. CASE ResetStats \/ ClearTracker \/ ClearHistograms
  BY <1>5 DEF ResetStats, ClearTracker, ClearHistograms
<1>6. CASE StartReadoutOnly \/ StartRun \/ StartReplay \/ Console \/ StatsTick \/ EditPort
           \/ StopReadoutClicked \/ DrainEnds
           \/ (\E d \in Devices, r \in {"Master", "Slave", "off"} : EditRole(d, r))
  BY <1>6 DEF StartReadoutOnly, StartRun, StartReplay, Console, StatsTick, EditPort,
              StopReadoutClicked, DrainEnds, EditRole
<1>7. CASE DaqThread \/ UNCHANGED vars
  BY <1>7 DEF DaqThread, vars
<1>8. CASE \E d \in Devices, t \in Targets : Redirect(d, t)
  BY <1>8 DEF Redirect
<1> QED BY <1>1, <1>2, <1>3, <1>4, <1>5, <1>6, <1>7, <1>8 DEF Next, User, StartRunGoesOn

LEMMA StepIsWorkersStep ==
    ASSUME GuiInv, GuiInv', [Next]_vars
    PROVE  [WorkersNext]_workerVars
<1>1. run \in 0 .. MaxClicks /\ run' \in 0 .. MaxClicks
  BY RunAssumption DEF GuiInv
<1>2. CASE Sends
  <2>1. PICK ds \in {EnabledDevices, Masters}, cmd \in Commands, r \in {run, run'} :
           Submit(JobsOf(ds, cmd, r))
    BY <1>2 DEF Sends, Commands
  <2>2. JobsOf(ds, cmd, r) \in JobLists
    BY <1>1, JobsAreLists
  <2> QED BY <2>1, <2>2 DEF WorkersNext, JobLists
<1>3. ASSUME NEW d \in Devices, SubmitAndRemove(NoJobs, {d}) PROVE WorkersNext
  <2>1. NoJobs \in [Devices -> Seq(Jobs)] /\ {d} \in SUBSET Devices
    BY <1>1, JobsAreLists DEF JobLists, Commands
  <2> QED BY <1>3, <2>1 DEF WorkersNext
<1>4. CASE Deliver \/ GuiGoesOn
  BY <1>4 DEF WorkersNext, GuiGoesOn
<1>5. ASSUME NEW d \in Devices, Worker(d) PROVE WorkersNext
  BY <1>5 DEF WorkersNext, Worker, JobBegins, JobCannotBegin, JobEnds, WorkerEnds
<1>6. ASSUME NEW d \in Devices, NEW t \in Targets, EditTarget(d, t) PROVE WorkersNext
  BY <1>6 DEF WorkersNext
<1> QED BY <1>2, <1>3, <1>4, <1>5, <1>6, StepKinds
-----------------------------------------------------------------------------
(* What a device will be told at target t, from the items that its worker  *)
(* has still to carry out, p, the id it has there and the ids that were    *)
(* lost.                                                                   *)

\* The ids in p do not fall, neither below the one the device has.
InOrder(p, id) ==
    /\ \A i \in 1 .. Len(p) : id <= p[i].job.run
    /\ \A i, j \in 1 .. Len(p) : i <= j => p[i].job.run <= p[j].job.run

NotAbove(p, top) == \A i \in 1 .. Len(p) : p[i].job.run > 0 /\ p[i].job.run <= top

\* The command cmd, sent to target t.
IsAt(item, t, cmd) == item.job.cmd = cmd /\ item.target = t

\* When the first i items of p are done the device knows r, or r was lost.
Told(p, t, i, r, id, lost) ==
    \/ id >= r
    \/ r \in lost
    \/ \E k \in 1 .. i : IsAt(p[k], t, "set_run_id") /\ p[k].job.run = r

ToldBeforeStart(p, t, id, lost) ==
    \A i \in 1 .. Len(p) :
        IsAt(p[i], t, "start_daq") => Told(p, t, i - 1, p[i].job.run, id, lost)

NotStarted(p, r) == \A i \in 1 .. Len(p) : p[i].job.cmd = "start_daq" => p[i].job.run < r

LEMMA ItemJob ==
    ASSUME NEW item \in Items
    PROVE  item.job.cmd \in Commands /\ item.job.run \in Nat
  BY RunAssumption DEF Items, RunJobs

LEMMA AppendKeeps ==
    ASSUME NEW p \in Seq(Items), NEW t, NEW item \in Items, NEW id \in Nat, NEW lost,
           NEW top \in Nat, NEW r \in Nat,
           InOrder(p, id), NotAbove(p, top), ToldBeforeStart(p, t, id, lost),
           item.job.run > 0, top <= item.job.run, id <= top
    PROVE  /\ InOrder(Append(p, item), id) /\ NotAbove(Append(p, item), item.job.run)
           /\ (IsAt(item, t, "start_daq") => Told(p, t, Len(p), item.job.run, id, lost))
                => ToldBeforeStart(Append(p, item), t, id, lost)
           /\ IsAt(item, t, "set_run_id")
                => Told(Append(p, item), t, Len(Append(p, item)), item.job.run, id, lost)
           /\ NotStarted(p, r) /\ item.job.cmd # "start_daq" => NotStarted(Append(p, item), r)
<1> DEFINE q == Append(p, item)
<1>1. /\ Len(p) \in Nat /\ Len(q) = Len(p) + 1 /\ q[Len(p) + 1] = item
      /\ \A i \in 1 .. Len(p) : q[i] = p[i]
  BY AppendProperties, LenProperties
<1>2. \A i \in 1 .. Len(p) : p[i].job.run \in Nat
  BY ElementOfSeq, ItemJob
<1>3. item.job.run \in Nat
  BY ItemJob
<1> HIDE DEF q
<1>4. InOrder(q, id)
  <2>1. \A i \in 1 .. Len(q) : i \in 1 .. Len(p) \/ (i = Len(p) + 1 /\ q[i] = item)
    BY <1>1
  <2>2. \A i \in 1 .. Len(p) : p[i].job.run <= top
    BY DEF NotAbove
  <2>3. \A i \in 1 .. Len(p) : p[i].job.run <= item.job.run
    BY <1>2, <1>3, <2>2
  <2>4. id <= item.job.run
    BY <1>3
  <2>5. ASSUME NEW i \in 1 .. Len(q)
        PROVE  id <= q[i].job.run
    <3>1. CASE i \in 1 .. Len(p)
      <4>1. q[i] = p[i] /\ id <= p[i].job.run
        BY <1>1, <3>1 DEF InOrder
      <4> QED BY <4>1
    <3>2. CASE q[i] = item
      BY <2>4, <3>2
    <3> QED BY <2>1, <3>1, <3>2
  <2>6. ASSUME NEW i \in 1 .. Len(q), NEW j \in 1 .. Len(q), i <= j
        PROVE  q[i].job.run <= q[j].job.run
    <3>1. CASE j \in 1 .. Len(p)
      <4>1. i \in 1 .. Len(p)
        BY <1>1, <2>6, <3>1
      <4>2. q[i] = p[i] /\ q[j] = p[j]
        BY <1>1, <3>1, <4>1
      <4>3. p[i].job.run <= p[j].job.run
        BY <2>6, <3>1, <4>1 DEF InOrder
      <4> QED BY <4>2, <4>3
    <3>2. CASE q[j] = item
      <4>1. CASE i \in 1 .. Len(p)
        <5>1. q[i] = p[i]
          BY <1>1, <4>1
        <5> QED BY <2>3, <3>2, <4>1, <5>1
      <4>2. CASE q[i] = item
        BY <1>3, <3>2, <4>2
      <4> QED BY <2>1, <4>1, <4>2
    <3> QED BY <2>1, <3>1, <3>2
  <2> QED BY <2>5, <2>6 DEF InOrder
<1>5. NotAbove(q, item.job.run)
  BY <1>1, <1>2, <1>3 DEF NotAbove
<1>6. ASSUME IsAt(item, t, "start_daq") => Told(p, t, Len(p), item.job.run, id, lost)
      PROVE  ToldBeforeStart(q, t, id, lost)
  <2> SUFFICES ASSUME NEW i \in 1 .. Len(q), IsAt(q[i], t, "start_daq")
               PROVE  Told(q, t, i - 1, q[i].job.run, id, lost)
    BY DEF ToldBeforeStart
  <2>1. Told(p, t, i - 1, q[i].job.run, id, lost)
    BY <1>1, <1>6 DEF ToldBeforeStart
  <2>2. \A k \in 1 .. i - 1 : q[k] = p[k]
    BY <1>1
  <2> QED BY <2>1, <2>2 DEF Told
<1>7. ASSUME IsAt(item, t, "set_run_id") PROVE Told(q, t, Len(q), item.job.run, id, lost)
  BY <1>1, <1>7 DEF Told
<1>8. ASSUME NotStarted(p, r), item.job.cmd # "start_daq" PROVE NotStarted(q, r)
  BY <1>1, <1>8 DEF NotStarted
<1> QED BY <1>4, <1>5, <1>6, <1>7, <1>8 DEF q

\* The first item of p is done: it has changed the id at t to id2, or it has not and
\* was for another target or the id in it is in lost2.
FirstDone(p, t, id, lost, id2, lost2, top) ==
    /\ p \in Seq(Items) /\ p # << >> /\ id \in Nat /\ id2 \in Nat /\ top \in Nat
    /\ InOrder(p, id) /\ NotAbove(p, top) /\ ToldBeforeStart(p, t, id, lost)
    /\ lost \subseteq lost2 /\ id <= top
    /\ \/ id2 = id
       \/ IsAt(Head(p), t, "set_run_id") /\ id2 = Head(p).job.run
    /\ IsAt(Head(p), t, "set_run_id") => id2 = Head(p).job.run \/ Head(p).job.run \in lost2

LEMMA TailKeeps ==
    ASSUME NEW p, NEW t, NEW id, NEW lost, NEW id2, NEW lost2, NEW r,
           FirstDone(p, t, id, lost, id2, lost2, r)
    PROVE  /\ InOrder(Tail(p), id2) /\ NotAbove(Tail(p), r)
           /\ ToldBeforeStart(Tail(p), t, id2, lost2)
           /\ Told(p, t, Len(p), r, id, lost) => Told(Tail(p), t, Len(Tail(p)), r, id2, lost2)
           /\ NotStarted(p, r) => NotStarted(Tail(p), r)
           /\ id <= id2 /\ id2 <= r
           /\ Head(p).job.run > 0 /\ Head(p).job.run <= r
           /\ IsAt(Head(p), t, "start_daq")
                => (id >= Head(p).job.run \/ Head(p).job.run \in lost)
           /\ Head(p).job.cmd = "start_daq" /\ NotStarted(p, r) => Head(p).job.run < r
<1>0. /\ p \in Seq(Items) /\ p # << >> /\ id \in Nat /\ id2 \in Nat /\ r \in Nat
      /\ InOrder(p, id) /\ NotAbove(p, r) /\ ToldBeforeStart(p, t, id, lost)
      /\ lost \subseteq lost2 /\ id <= r
      /\ \/ id2 = id
         \/ IsAt(Head(p), t, "set_run_id") /\ id2 = Head(p).job.run
      /\ IsAt(Head(p), t, "set_run_id") => id2 = Head(p).job.run \/ Head(p).job.run \in lost2
  BY DEF FirstDone
<1> DEFINE q == Tail(p)
<1>1. /\ Len(p) \in Nat /\ Len(p) > 0 /\ Head(p) = p[1] /\ Len(q) = Len(p) - 1
      /\ \A i \in 1 .. Len(q) : q[i] = p[i + 1]
  BY <1>0, HeadTailProperties, LenProperties, EmptySeq
<1>2. \A i \in 1 .. Len(p) : p[i].job.run \in Nat
  BY <1>0, ElementOfSeq, ItemJob
<1> HIDE DEF q
<1>3. id <= p[1].job.run /\ p[1].job.run > 0 /\ p[1].job.run <= r
  BY <1>0, <1>1, <1>2 DEF InOrder, NotAbove
<1>4. id <= id2 /\ id2 <= r
  BY <1>0, <1>1, <1>2, <1>3
<1>5. InOrder(q, id2)
  <2>1. ASSUME NEW i \in 1 .. Len(q)
        PROVE  id <= q[i].job.run /\ p[1].job.run <= q[i].job.run
    <3>1. i + 1 \in 1 .. Len(p) /\ 1 \in 1 .. Len(p) /\ 1 <= i + 1
      BY <1>1
    <3>2. id <= p[i + 1].job.run /\ p[1].job.run <= p[i + 1].job.run
      BY <1>0, <3>1 DEF InOrder
    <3> QED BY <1>1, <3>2
  <2>2. ASSUME NEW i \in 1 .. Len(q), NEW j \in 1 .. Len(q), i <= j
        PROVE  q[i].job.run <= q[j].job.run
    <3>1. i + 1 \in 1 .. Len(p) /\ j + 1 \in 1 .. Len(p) /\ i + 1 <= j + 1
      BY <1>0, <1>1, <2>2
    <3> QED BY <1>0, <1>1, <3>1 DEF InOrder
  <2> QED BY <1>0, <1>1, <2>1, <2>2 DEF InOrder
<1>6. NotAbove(q, r) /\ (NotStarted(p, r) => NotStarted(q, r))
  BY <1>0, <1>1 DEF NotAbove, NotStarted
<1>7. ASSUME NEW i \in 0 .. Len(q), NEW s \in Nat, Told(p, t, i + 1, s, id, lost)
      PROVE  Told(q, t, i, s, id2, lost2)
  <2>1. CASE id >= s \/ s \in lost
    BY <1>0, <1>4, <2>1 DEF Told
  <2>2. CASE IsAt(p[1], t, "set_run_id") /\ p[1].job.run = s
    BY <1>0, <1>1, <2>2 DEF Told
  <2>3. CASE \E k \in 2 .. i + 1 : IsAt(p[k], t, "set_run_id") /\ p[k].job.run = s
    <3>1. PICK k \in 2 .. i + 1 : IsAt(p[k], t, "set_run_id") /\ p[k].job.run = s
      BY <2>3
    <3>2. k - 1 \in 1 .. i /\ q[k - 1] = p[k]
      BY <1>0, <1>1
    <3> QED BY <3>1, <3>2 DEF Told
  <2> QED BY <1>7, <2>1, <2>2, <2>3 DEF Told
<1>8. ToldBeforeStart(q, t, id2, lost2)
  <2> SUFFICES ASSUME NEW i \in 1 .. Len(q), IsAt(q[i], t, "start_daq")
               PROVE  Told(q, t, i - 1, q[i].job.run, id2, lost2)
    BY DEF ToldBeforeStart
  <2>1. q[i] = p[i + 1] /\ i + 1 \in 1 .. Len(p) /\ q[i].job.run \in Nat /\ (i + 1) - 1 = i
    BY <1>0, <1>1, <1>2
  <2>2. Told(p, t, i, q[i].job.run, id, lost)
    BY <1>0, <2>1 DEF ToldBeforeStart
  <2>3. i - 1 \in 0 .. Len(q) /\ (i - 1) + 1 = i
    BY <1>0, <1>1
  <2> QED BY <1>7, <2>1, <2>2, <2>3
<1>9. Told(p, t, Len(p), r, id, lost) => Told(q, t, Len(q), r, id2, lost2)
  <2>1. Len(q) \in 0 .. Len(q) /\ Len(p) = Len(q) + 1 /\ r \in Nat
    BY <1>0, <1>1
  <2> QED BY <1>7, <2>1
<1>10. IsAt(Head(p), t, "start_daq") => (id >= Head(p).job.run \/ Head(p).job.run \in lost)
  BY <1>0, <1>1 DEF ToldBeforeStart, Told
<1>11. Head(p).job.cmd = "start_daq" /\ NotStarted(p, r) => Head(p).job.run < r
  BY <1>0, <1>1 DEF NotStarted
<1> QED BY <1>0, <1>1, <1>3, <1>4, <1>5, <1>6, <1>8, <1>9, <1>10, <1>11 DEF q

\* What was known stays known, and what is dropped is lost.
LEMMA MoreIsLost ==
    ASSUME NEW p \in Seq(Items), NEW t, NEW id \in Nat, NEW lost, NEW lost2, NEW r \in Nat,
           lost \subseteq lost2, NEW i \in 0 .. Len(p)
    PROVE  /\ Told(p, t, i, r, id, lost) => Told(p, t, i, r, id, lost2)
           /\ ToldBeforeStart(p, t, id, lost) => ToldBeforeStart(p, t, id, lost2)
  BY DEF Told, ToldBeforeStart

LEMMA NothingPending ==
    ASSUME NEW t, NEW id \in Nat, NEW lost, NEW top \in Nat
    PROVE  /\ InOrder(<< >>, id) /\ NotAbove(<< >>, top) /\ ToldBeforeStart(<< >>, t, id, lost)
           /\ NotStarted(<< >>, top)
<1>1. Len(<< >>) = 0
  BY EmptySeq
<1> QED BY <1>1 DEF InOrder, NotAbove, ToldBeforeStart, NotStarted
-----------------------------------------------------------------------------
(* What a step does to the items of each device.                           *)

LEMMA PendingSubmitted ==
    ASSUME WorkersTypeOK, WorkersTypeOK', NEW ds, NEW cmd \in Commands, NEW r \in 0 .. MaxClicks,
           Submitted(JobsOf(ds, cmd, r)), UNCHANGED active, NEW d \in Devices
    PROVE  /\ d \notin ds => Pending'[d] = Pending[d]
           /\ [job |-> [cmd |-> cmd, run |-> r], target |-> target[d]] \in Items
           /\ d \in ds => Pending'[d] = Append(Pending[d],
                            [job |-> [cmd |-> cmd, run |-> r], target |-> target[d]])
<1> DEFINE item == [job |-> [cmd |-> cmd, run |-> r], target |-> target[d]]
           js == JobsOf(ds, cmd, r)[d]
           e == Executing(d)
           q == queue[d]
<1>1. item \in Items
  BY RunAssumption DEF Items, RunJobs, WorkersTypeOK
<1>2. /\ e \in Seq(Items) /\ q \in Seq(Items) /\ Pending[d] = e \o q
  BY PendingIsSeq
<1>3. Pending'[d] = e \o queue'[d]
  BY DEF Pending, Executing
<1>4. queue'[d] = q \o Addressed(d, js)
  BY DEF Submitted
<1>5. ASSUME d \notin ds PROVE Pending'[d] = Pending[d]
  <2>1. js = << >>
    BY <1>5 DEF JobsOf
  <2>2. Addressed(d, js) = << >>
    BY <2>1, EmptySeq DEF Addressed
  <2>3. queue'[d] = q
    BY <1>2, <1>4, <2>2, ConcatEmptySeq
  <2> QED BY <1>2, <1>3, <2>3
<1>6. ASSUME d \in ds PROVE Pending'[d] = Append(Pending[d], item)
  <2>1. js = <<[cmd |-> cmd, run |-> r]>>
    BY <1>6 DEF JobsOf
  <2>2. Addressed(d, js) = <<item>>
    BY <2>1 DEF Addressed
  <2>3. queue'[d] = q \o <<item>>
    BY <1>4, <2>2
  <2> HIDE DEF item, e, q
  <2>4. <<item>> \in Seq(Items)
    BY <1>1
  <2>5. e \o (q \o <<item>>) = (e \o q) \o <<item>> /\ e \o q \in Seq(Items)
    BY <1>2, <2>4, ConcatAssociative, ConcatProperties
  <2>6. Append(e \o q, item) = (e \o q) \o <<item>>
    BY <1>1, <2>5, AppendIsConcat
  <2> QED BY <1>2, <1>3, <2>3, <2>5, <2>6
<1> QED BY <1>1, <1>5, <1>6

LEMMA PendingOfNoJobs ==
    ASSUME WorkersTypeOK, Submitted(NoJobs), UNCHANGED active
    PROVE  Pending' = Pending
<1>1. \A d \in Devices : NoJobs[d] = << >>
  BY DEF NoJobs
<1> QED BY <1>1, PendingOfNothing
-----------------------------------------------------------------------------
(* Run ids.                                                                *)

Lost(d) == {r \in Nat : <<d, r>> \in idLost}

\* What a device knows and will be told of run ids at a target, and that no start of
\* the current run is pending before start_run() has sent it.  Between set_run_id and
\* start_daq the device is not redirected.
DeviceInv(d, t) ==
    /\ runId[d][t] \in Nat /\ runId[d][t] <= run
    /\ InOrder(Pending[d], runId[d][t])
    /\ NotAbove(Pending[d], run)
    /\ ToldBeforeStart(Pending[d], t, runId[d][t], Lost(d))
    /\ todo # << >> => NotStarted(Pending[d], run)
    /\ todo = <<"start_daq">> /\ d \in Masters /\ target[d] = t
          => Told(Pending[d], t, Len(Pending[d]), run, runId[d][t], Lost(d))

LEMMA LengthsOfPending ==
    ASSUME WorkersTypeOK, NEW d \in Devices
    PROVE  Pending[d] \in Seq(Items) /\ Len(Pending[d]) \in Nat
           /\ \A i \in 1 .. Len(Pending[d]) : Pending[d][i].job.run \in Nat
  BY PendingIsSeq, LenProperties, ElementOfSeq, ItemJob

\* A step that does nothing to the items of d.
LEMMA DeviceUntouched ==
    ASSUME WorkersTypeOK, NEW d \in Devices, NEW t \in Targets, DeviceInv(d, t), run \in Nat,
           Pending'[d] = Pending[d], runId'[d][t] = runId[d][t], Lost(d) \subseteq Lost(d)',
           run' \in {run, run + 1},
           todo' # << >> => run' = run + 1 \/ (run' = run /\ todo # << >>),
           todo' = <<"start_daq">> /\ d \in Masters' /\ target'[d] = t
              => todo = <<"start_daq">> /\ d \in Masters /\ target[d] = t /\ run' = run
    PROVE  DeviceInv(d, t)'
<1> DEFINE p == Pending[d]
           lost == Lost(d)
           lost2 == Lost(d)'
<1>1. p \in Seq(Items) /\ Len(p) \in Nat /\ \A i \in 1 .. Len(p) : p[i].job.run \in Nat
  BY LengthsOfPending
<1>2. runId'[d][t] \in Nat /\ runId'[d][t] <= run' /\ InOrder(p, runId'[d][t])
  BY DEF DeviceInv
<1>3. NotAbove(p, run')
  BY <1>1 DEF DeviceInv, NotAbove
<1>4. ToldBeforeStart(p, t, runId'[d][t], lost2)
  <2>1. ToldBeforeStart(p, t, runId[d][t], lost) /\ runId[d][t] \in Nat /\ 0 \in 0 .. Len(p)
    BY <1>1 DEF DeviceInv
  <2>2. lost \subseteq lost2 /\ runId'[d][t] = runId[d][t]
    OBVIOUS
  <2> HIDE DEF p, lost, lost2
  <2> QED BY <1>1, <2>1, <2>2, MoreIsLost
<1>5. todo' # << >> => NotStarted(p, run')
  BY <1>1 DEF DeviceInv, NotAbove, NotStarted
<1>6. todo' = <<"start_daq">> /\ d \in Masters' /\ target'[d] = t
        => Told(p, t, Len(p), run', runId'[d][t], lost2)
  <2> SUFFICES ASSUME todo' = <<"start_daq">>, d \in Masters', target'[d] = t
               PROVE  Told(p, t, Len(p), run', runId'[d][t], lost2)
    OBVIOUS
  <2>1. Told(p, t, Len(p), run, runId[d][t], lost) /\ run' = run
    BY DEF DeviceInv
  <2>2. Len(p) \in 0 .. Len(p) /\ runId[d][t] \in Nat
    BY <1>1 DEF DeviceInv
  <2> HIDE DEF p, lost, lost2
  <2>3. lost \subseteq lost2
    BY DEF lost, lost2
  <2> QED BY <1>1, <2>1, <2>2, <2>3, MoreIsLost
<1>7. Pending'[d] = p
  OBVIOUS
<1> HIDE DEF p, lost2
<1> QED BY <1>2, <1>3, <1>4, <1>5, <1>6, <1>7 DEF DeviceInv, lost2

\* An item of the current run is sent to d.
LEMMA DeviceSent ==
    ASSUME WorkersTypeOK, NEW d \in Devices, NEW t \in Targets, DeviceInv(d, t), run \in Nat,
           NEW item \in Items, Pending'[d] = Append(Pending[d], item), item.job.run = run',
           UNCHANGED <<runId, idLost>>, run' \in {run, run + 1}, run' > 0,
           IsAt(item, t, "start_daq")
              => Told(Pending[d], t, Len(Pending[d]), run', runId[d][t], Lost(d)),
           todo' # << >> => run' = run /\ todo # << >> /\ item.job.cmd # "start_daq",
           todo' = <<"start_daq">> => IsAt(item, target'[d], "set_run_id")
    PROVE  DeviceInv(d, t)'
<1> DEFINE p == Pending[d]
           id == runId[d][t]
           lost == Lost(d)
<1>1. /\ p \in Seq(Items) /\ id \in Nat /\ id <= run
      /\ InOrder(p, id) /\ NotAbove(p, run) /\ ToldBeforeStart(p, t, id, lost)
      /\ todo # << >> => NotStarted(p, run)
  BY PendingIsSeq DEF DeviceInv
<1>2. /\ Pending'[d] = Append(p, item) /\ runId'[d][t] = id /\ Lost(d)' = lost
      /\ IsAt(item, t, "start_daq") => Told(p, t, Len(p), run', id, lost)
  BY DEF Lost
<1> HIDE DEF p, id, lost
<1>3. item.job.run > 0 /\ run <= item.job.run
  OBVIOUS
<1>4. /\ InOrder(Append(p, item), id) /\ NotAbove(Append(p, item), run')
      /\ ToldBeforeStart(Append(p, item), t, id, lost)
      /\ IsAt(item, t, "set_run_id")
           => Told(Append(p, item), t, Len(Append(p, item)), run', id, lost)
      /\ NotStarted(p, run) /\ item.job.cmd # "start_daq" => NotStarted(Append(p, item), run)
  BY <1>1, <1>2, <1>3, AppendKeeps
<1>5. id <= run'
  BY <1>1
<1> QED BY <1>1, <1>2, <1>4, <1>5 DEF DeviceInv

\* The first item of d is done: it has changed the id of the device, or it has
\* not and the id in it is lost.
LEMMA DeviceDone ==
    ASSUME WorkersTypeOK, NEW d \in Devices, NEW t \in Targets, DeviceInv(d, t), run \in Nat,
           Pending[d] # << >>, Pending'[d] = Tail(Pending[d]),
           UNCHANGED <<run, todo, role, target>>,
           Lost(d) \subseteq Lost(d)', NEW item, item = Head(Pending[d]),
           \/ runId'[d][t] = runId[d][t]
           \/ IsAt(item, t, "set_run_id") /\ runId'[d][t] = item.job.run,
           IsAt(item, t, "set_run_id")
              => runId'[d][t] = item.job.run \/ item.job.run \in Lost(d)'
    PROVE  /\ DeviceInv(d, t)'
           /\ runId[d][t] <= runId'[d][t]
           /\ item.job.run > 0 /\ item.job.run <= run /\ item.job.run \in Nat
           /\ IsAt(item, t, "start_daq")
                => runId[d][t] >= item.job.run \/ item.job.run \in Lost(d)
           /\ item.job.cmd = "start_daq" /\ todo # << >> => item.job.run < run
<1> DEFINE p == Pending[d]
           id == runId[d][t]
           lost == Lost(d)
           id2 == runId'[d][t]
           lost2 == Lost(d)'
<1>1. /\ p \in Seq(Items) /\ id \in Nat /\ id <= run
      /\ InOrder(p, id) /\ NotAbove(p, run) /\ ToldBeforeStart(p, t, id, lost)
      /\ todo # << >> => NotStarted(p, run)
      /\ todo = <<"start_daq">> /\ d \in Masters /\ target[d] = t
           => Told(p, t, Len(p), run, id, lost)
  BY PendingIsSeq DEF DeviceInv
<1>2. /\ p # << >> /\ Pending'[d] = Tail(p) /\ item = Head(p) /\ lost \subseteq lost2
      /\ id2 = id \/ (IsAt(Head(p), t, "set_run_id") /\ id2 = Head(p).job.run)
      /\ IsAt(Head(p), t, "set_run_id") => id2 = Head(p).job.run \/ Head(p).job.run \in lost2
      /\ Masters' = Masters
  BY DEF Masters, EnabledDevices
<1> HIDE DEF p, id, lost, id2, lost2
<1>3. Head(p).job.run \in Nat /\ id2 \in Nat
  BY <1>1, <1>2, HeadTailProperties, ItemJob
<1>4. /\ InOrder(Tail(p), id2) /\ NotAbove(Tail(p), run) /\ ToldBeforeStart(Tail(p), t, id2, lost2)
      /\ Told(p, t, Len(p), run, id, lost) => Told(Tail(p), t, Len(Tail(p)), run, id2, lost2)
      /\ NotStarted(p, run) => NotStarted(Tail(p), run)
      /\ id <= id2 /\ id2 <= run
      /\ Head(p).job.run > 0 /\ Head(p).job.run <= run
      /\ IsAt(Head(p), t, "start_daq")
           => (id >= Head(p).job.run \/ Head(p).job.run \in lost)
      /\ Head(p).job.cmd = "start_daq" /\ NotStarted(p, run) => Head(p).job.run < run
  <2>1. FirstDone(p, t, id, lost, id2, lost2, run)
    BY <1>1, <1>2, <1>3 DEF FirstDone
  <2> QED BY <2>1, TailKeeps
<1>5. /\ id2 \in Nat /\ id2 <= run' /\ InOrder(Tail(p), id2) /\ NotAbove(Tail(p), run')
      /\ ToldBeforeStart(Tail(p), t, id2, lost2)
      /\ todo' # << >> => NotStarted(Tail(p), run')
      /\ todo' = <<"start_daq">> /\ d \in Masters' /\ target'[d] = t
           => Told(Tail(p), t, Len(Tail(p)), run', id2, lost2)
  BY <1>1, <1>2, <1>3, <1>4
<1>6. DeviceInv(d, t)'
  BY <1>2, <1>5 DEF DeviceInv, id2, lost2
<1> QED BY <1>1, <1>2, <1>3, <1>4, <1>6 DEF id, id2, lost

\* The items of d are dropped, and the ids in them are lost.
LEMMA DeviceDropped ==
    ASSUME WorkersTypeOK, NEW d \in Devices, NEW t \in Targets, DeviceInv(d, t), run \in Nat,
           Pending'[d] = << >>, UNCHANGED <<run, todo, role, target, runId>>,
           Lost(d) \subseteq Lost(d)',
           \A i \in 1 .. Len(Pending[d]) :
              Pending[d][i].job.cmd = "set_run_id" => Pending[d][i].job.run \in Lost(d)'
    PROVE  DeviceInv(d, t)'
<1> DEFINE p == Pending[d]
           id == runId[d][t]
           lost == Lost(d)
           lost2 == Lost(d)'
<1>1. /\ id \in Nat /\ id <= run /\ Masters' = Masters /\ Len(<< >>) = 0
      /\ todo = <<"start_daq">> /\ d \in Masters /\ target[d] = t
           => Told(p, t, Len(p), run, id, lost)
  BY EmptySeq DEF DeviceInv, Masters, EnabledDevices
<1>2. Told(p, t, Len(p), run, id, lost) => Told(<< >>, t, 0, run, id, lost2)
  BY DEF Told, IsAt
<1> HIDE DEF p, id, lost, lost2
<1>3. /\ InOrder(<< >>, id) /\ NotAbove(<< >>, run) /\ ToldBeforeStart(<< >>, t, id, lost2)
      /\ NotStarted(<< >>, run)
  BY <1>1, NothingPending
<1> QED BY <1>1, <1>2, <1>3 DEF DeviceInv, id, lost2
-----------------------------------------------------------------------------
(* The devices and the data of the run.                                    *)

DevicesInv == \A d \in Devices, t \in Targets : DeviceInv(d, t)

\* Starts that were carried out were known, and belong to earlier runs as long
\* as start_run() goes on: no packet can have come in.
StartedInv ==
    /\ startedBy \in [device : Devices \cup {None}, target : Targets \cup {None}, run : 0 .. run]
    /\ startedBy.run > 0 => startedBy.device \in Devices /\ startedBy.target \in Targets
    /\ MasterKnowsRunId
    /\ todo # << >> => startedBy.run < run /\ ~fresh
    /\ forgotten = FALSE

HardwareInv ==
    /\ runId \in [Devices -> [Targets -> Nat]]
    /\ fresh \in BOOLEAN /\ stopLost \in BOOLEAN
    /\ idLost \subseteq Devices \X (1 .. run)

\* The steps that leave items and devices alone, and how start_run() moves on.
LEMMA CallsGoOn ==
    ASSUME GuiInv, [Next]_vars
    PROVE  \/ Sends
           \/ \E d \in Devices : Worker(d)
           \/ /\ UNCHANGED deviceVars
              /\ \/ UNCHANGED <<todo, run, role, target>>
                 \/ todo = << >> /\ todo' = << >>
                 \/ todo = << >> /\ run' = run + 1 /\ todo' # <<"start_daq">>
                 \/ todo # << >> /\ todo' # <<"start_daq">> /\ run' = run
<1>1. CASE SendRunId \/ SendStart \/ StopRun \/ ContinueRun
  BY <1>1, SendsIn DEF ContinueRun, Click, GuiIsIdle
<1>2. CASE StartReadoutOnly \/ StartRun
  <2>1. todo = << >> /\ UNCHANGED deviceVars
    BY <1>2 DEF StartReadoutOnly, StartRun, Click, GuiIsIdle
  <2>2. CASE todo' = << >>
    BY <2>1, <2>2
  <2>3. CASE todo' # << >>
    <3>1. run' = run + 1 /\ \E clear \in BOOLEAN : todo' = CallsOfStartRun(clear)
      BY <1>2, <2>1, <2>3 DEF StartReadoutOnly, StartRun, StartReadout, NewWorker
    <3>2. todo' # <<"start_daq">>
      BY <3>1, CallsAreRests
    <3> QED BY <2>1, <3>1, <3>2
  <2> QED BY <2>2, <2>3
<1>3. CASE StartReplay \/ Console \/ Edits
  BY <1>3, EditsIn DEF StartReplay, Console, Click, GuiIsIdle
<1>4. CASE StopReadoutClicked \/ DrainEnds \/ StatsTick \/ OnCommandFinished
  BY <1>4 DEF StopReadoutClicked, DrainEnds, StopReadout, StatsTick, OnCommandFinished, GuiIsIdle
<1>5. CASE ResetStats \/ ClearTracker \/ ClearHistograms
  <2>1. /\ todo \in RestsOfStartRun /\ todo # << >> /\ Head(todo) # "set_run_id"
        /\ todo' = Tail(todo) /\ run' = run /\ UNCHANGED deviceVars
    BY <1>5 DEF ResetStats, ClearTracker, ClearHistograms, NextCall, GuiInv
  <2>2. todo' # <<"start_daq">>
    BY <2>1, TailsOfStartRun
  <2> QED BY <2>1, <2>2
<1>6. CASE DaqThread \/ GuiGoesOn \/ UNCHANGED vars
  BY <1>6 DEF DaqThread, GuiGoesOn, WaitReturns, RemoveNext, vars, guiStateVars, workerVars, guiVars
<1>7. CASE \E d \in Devices : Worker(d)
  BY <1>7
<1> QED BY <1>1, <1>2, <1>3, <1>4, <1>5, <1>6, <1>7 DEF Next, User, StartRunGoesOn, Edits

LEMMA QuietPending ==
    ASSUME WorkersTypeOK, [Next]_vars
    PROVE  Sends \/ (\E d \in Devices : Worker(d)) \/ Pending' = Pending
<1>1. CASE \E d \in Devices : SubmitAndRemove(NoJobs, {d})
  BY <1>1, PendingOfNoJobs DEF SubmitAndRemove
<1>2. CASE Deliver \/ GuiGoesOn \/ UNCHANGED workerVars
  BY <1>2, PendingUntouched DEF Deliver, GuiGoesOn, WaitReturns, RemoveNext, workerVars, guiVars
<1>3. CASE \E d \in Devices, t \in Targets : EditTarget(d, t)
  BY <1>3, PendingUntouched DEF EditTarget
<1> QED BY <1>1, <1>2, <1>3, StepKinds

LEMMA SendsKeep ==
    ASSUME WorkersTypeOK, WorkersTypeOK', GuiInv, GuiInv', [Next]_vars, DevicesInv, Sends
    PROVE  DevicesInv' /\ UNCHANGED deviceVars
<1>1. run \in Nat /\ run' \in {run, run + 1} /\ run' \in 0 .. MaxClicks
  BY RunGrows, RunAssumption DEF GuiInv
<1>2. UNCHANGED deviceVars
  BY DEF Sends, SendRunId, SendStart, ContinueRun, StopRun, NextCall
<1>3. UNCHANGED <<runId, idLost>>
  BY <1>2 DEF deviceVars
<1> DEFINE item(d, cmd) == [job |-> [cmd |-> cmd, run |-> run'], target |-> target[d]]
<1>4. ASSUME NEW ds, NEW cmd \in Commands, Submit(JobsOf(ds, cmd, run')), NEW d \in Devices
      PROVE  /\ d \notin ds => Pending'[d] = Pending[d]
             /\ item(d, cmd) \in Items
             /\ d \in ds => Pending'[d] = Append(Pending[d], item(d, cmd))
  <2>1. Submitted(JobsOf(ds, cmd, run')) /\ UNCHANGED active
    BY <1>4 DEF Submit
  <2> QED BY <1>1, <2>1, PendingSubmitted
<1>5. \A d \in Devices, cmd \in Commands :
         /\ item(d, cmd).job.cmd = cmd /\ item(d, cmd).job.run = run'
         /\ item(d, cmd).target = target[d]
  OBVIOUS
<1> HIDE DEF item
<1>13. target' = target
  BY DEF Sends, Submit, guiVars
<1> SUFFICES ASSUME NEW d \in Devices, NEW t \in Targets PROVE DeviceInv(d, t)'
  BY <1>2 DEF DevicesInv
<1>6. Lost(d)' = Lost(d)
  BY <1>3 DEF Lost
<1>7. DeviceInv(d, t)
  BY DEF DevicesInv
<1>8. CASE SendRunId /\ Submit(JobsOf(EnabledDevices, "set_run_id", run)) /\ run' = run
  <2>1. todo # << >> /\ Head(todo) = "set_run_id" /\ todo' = Tail(todo) /\ Masters' = Masters
    BY <1>8 DEF SendRunId, NextCall, Masters, EnabledDevices
  <2>2. run > 0
    BY <2>1 DEF GuiInv
  <2>3. CASE d \in EnabledDevices
    <3>1. /\ item(d, "set_run_id") \in Items
          /\ Pending'[d] = Append(Pending[d], item(d, "set_run_id"))
      BY <1>4, <1>8, <2>3 DEF Commands
    <3>2. IsAt(item(d, "set_run_id"), target'[d], "set_run_id")
      BY <1>5, <1>13 DEF IsAt, Commands
    <3> QED BY <1>1, <1>3, <1>5, <1>7, <1>8, <2>1, <2>2, <3>1, <3>2, DeviceSent DEF Commands, IsAt
  <2>4. CASE d \notin EnabledDevices
    <3>1. Pending'[d] = Pending[d] /\ d \notin Masters'
      BY <1>4, <1>8, <2>1, <2>4 DEF Commands, Masters
    <3> QED BY <1>1, <1>3, <1>6, <1>7, <1>8, <2>1, <3>1, DeviceUntouched
  <2> QED BY <2>3, <2>4
<1>9. CASE SendStart /\ Submit(JobsOf(Masters, "start_daq", run)) /\ run' = run
  <2>1. todo \in RestsOfStartRun /\ todo # << >> /\ Head(todo) = "start_daq" /\ todo' = Tail(todo)
    BY <1>9 DEF SendStart, NextCall, GuiInv
  <2>2. run > 0 /\ todo = <<"start_daq">> /\ todo' = << >>
    BY <2>1, TailsOfStartRun DEF GuiInv
  <2>3. CASE d \in Masters
    <3>1. /\ item(d, "start_daq") \in Items
          /\ Pending'[d] = Append(Pending[d], item(d, "start_daq"))
      BY <1>4, <1>9, <2>3 DEF Commands
    <3>2. IsAt(item(d, "start_daq"), t, "start_daq")
            => Told(Pending[d], t, Len(Pending[d]), run', runId[d][t], Lost(d))
      BY <1>5, <1>7, <1>9, <2>2, <2>3 DEF DeviceInv, IsAt, Commands
    <3> QED BY <1>1, <1>3, <1>5, <1>7, <1>9, <2>2, <3>1, <3>2, DeviceSent DEF Commands
  <2>4. CASE d \notin Masters
    <3>1. Pending'[d] = Pending[d]
      BY <1>4, <1>9, <2>4 DEF Commands
    <3> QED BY <1>1, <1>3, <1>6, <1>7, <1>9, <2>2, <3>1, DeviceUntouched
  <2> QED BY <2>3, <2>4
<1>10. ASSUME NEW cmd \in {"continue_daq", "stop_daq"}, Submit(JobsOf(Masters, cmd, run')),
              todo' = << >>, run' > 0
       PROVE  DeviceInv(d, t)'
  <2>1. cmd \in Commands
    BY DEF Commands
  <2>2. CASE d \in Masters
    <3>1. item(d, cmd) \in Items /\ Pending'[d] = Append(Pending[d], item(d, cmd))
      BY <1>4, <1>10, <2>1, <2>2
    <3> QED BY <1>1, <1>3, <1>5, <1>7, <1>10, <2>1, <3>1, DeviceSent DEF IsAt
  <2>3. CASE d \notin Masters
    <3>1. Pending'[d] = Pending[d]
      BY <1>4, <1>10, <2>1, <2>3
    <3> QED BY <1>1, <1>3, <1>6, <1>7, <1>10, <3>1, DeviceUntouched
  <2> QED BY <2>2, <2>3
<1>11. CASE /\ ContinueRun /\ (IF state = "idle" THEN StartReadout ELSE run' = run)
             /\ Submit(JobsOf(Masters, "continue_daq", run'))
  <2>1. todo' = << >>
    BY <1>11 DEF ContinueRun, Click, GuiIsIdle
  <2>2. run' > 0
    BY <1>1, <1>11 DEF StartReadout, NewWorker, GuiInv
  <2> QED BY <1>10, <1>11, <2>1, <2>2
<1>12. CASE StopRun /\ Submit(JobsOf(Masters, "stop_daq", run)) /\ run' = run
  <2>1. todo' = << >> /\ run' > 0
    BY <1>12 DEF StopRun, Click, GuiIsIdle, GuiInv
  <2> QED BY <1>10, <1>12, <2>1
<1> QED BY <1>8, <1>9, <1>11, <1>12 DEF Sends

\* Devices keep or gain what they know, and no start is carried out.
LEMMA StartedKept ==
    ASSUME HardwareInv, StartedInv, HardwareInv', run \in Nat,
           \A d \in Devices, t \in Targets : runId[d][t] <= runId'[d][t],
           idLost \subseteq idLost', UNCHANGED <<startedBy, run, todo, fresh, forgotten>>
    PROVE  StartedInv'
<1>1. MasterKnowsRunId'
  <2> SUFFICES ASSUME startedBy.run > 0
               PROVE  \/ runId'[startedBy.device][startedBy.target] >= startedBy.run
                      \/ <<startedBy.device, startedBy.run>> \in idLost'
    BY DEF MasterKnowsRunId
  <2>1. /\ startedBy.device \in Devices /\ startedBy.target \in Targets /\ startedBy.run \in Nat
        /\ \/ runId[startedBy.device][startedBy.target] >= startedBy.run
           \/ <<startedBy.device, startedBy.run>> \in idLost
    BY DEF StartedInv, MasterKnowsRunId
  <2>2. /\ runId[startedBy.device][startedBy.target] \in Nat
        /\ runId'[startedBy.device][startedBy.target] \in Nat
    BY <2>1 DEF HardwareInv
  <2> QED BY <2>1, <2>2
<1> QED BY <1>1 DEF StartedInv

LEMMA WorkerKeeps ==
    ASSUME WorkersTypeOK, WorkersTypeOK', JobReachesItsTarget, GuiInv, DevicesInv,
           HardwareInv, StartedInv, NEW e \in Devices, Worker(e)
    PROVE  DevicesInv' /\ HardwareInv' /\ StartedInv'
<1>1. run \in Nat /\ UNCHANGED <<run, todo, role, target, fresh, forgotten>>
  BY DEF Worker, JobBegins, JobCannotBegin, JobEnds, WorkerEnds, BeginJob, ConnectThrows, EndJob,
         ThreadEnds, guiVars, guiStateVars, dataVars, GuiInv
<1>2. Masters' = Masters
  BY <1>1 DEF Masters, EnabledDevices
<1>3. ASSUME idLost \subseteq idLost', NEW d \in Devices, Pending'[d] = Pending[d],
             runId'[d] = runId[d], NEW t \in Targets
      PROVE  DeviceInv(d, t)'
  <2>1. Lost(d) \subseteq Lost(d)'
    BY <1>3 DEF Lost
  <2> QED BY <1>1, <1>2, <1>3, <2>1, DeviceUntouched DEF DevicesInv
<1>4. CASE JobBegins(e)
  <2>1. UNCHANGED deviceVars /\ Pending' = Pending
    BY <1>4, PendingBegins DEF JobBegins
  <2>2. UNCHANGED <<runId, startedBy, idLost, stopLost>>
    BY <2>1 DEF deviceVars
  <2>3. DevicesInv'
    BY <1>3, <2>1, <2>2 DEF DevicesInv
  <2>4. HardwareInv'
    BY <1>1, <2>2 DEF HardwareInv
  <2>5. \A d \in Devices, t \in Targets : runId[d][t] <= runId'[d][t]
    BY <2>2 DEF HardwareInv
  <2> QED BY <1>1, <2>2, <2>3, <2>4, <2>5, StartedKept
\* The item that is done leaves the queue; it was carried out or it was not.
<1>5. ASSUME NEW item, Pending[e] # << >>, item = Head(Pending[e]),
             Pending' = [Pending EXCEPT ![e] = Tail(Pending[e])],
             \/ Carried(e, item.job) /\ conn[e] = item.target /\ UNCHANGED idLost
             \/ Missed(e, {item.job}) /\ UNCHANGED <<runId, startedBy>>,
             UNCHANGED stopLost
      PROVE  DevicesInv' /\ HardwareInv' /\ StartedInv'
  <2>1. idLost \subseteq idLost'
    BY <1>5 DEF Missed
  <2>2. \A d \in Devices \ {e} : runId'[d] = runId[d] /\ Pending'[d] = Pending[d]
    BY <1>5 DEF Carried, Pending, HardwareInv
  <2>4. /\ Pending[e] \in Seq(Items) /\ Pending'[e] = Tail(Pending[e])
        /\ item.target \in Targets /\ item.job.run \in Nat /\ item.job.cmd \in Commands
    <3>1. Pending[e] \in Seq(Items) /\ Pending'[e] = Tail(Pending[e])
      BY <1>5, PendingIsSeq DEF Pending
    <3>2. item \in Items
      BY <1>5, <3>1, HeadTailProperties
    <3> QED BY <3>1, <3>2, ItemJob DEF Items
  <2>3. ASSUME NEW t \in Targets
        PROVE  /\ \/ runId'[e][t] = runId[e][t]
                  \/ IsAt(item, t, "set_run_id") /\ runId'[e][t] = item.job.run
               /\ IsAt(item, t, "set_run_id")
                    => runId'[e][t] = item.job.run \/ item.job.run \in Lost(e)'
    <3>1. CASE Carried(e, item.job) /\ conn[e] = item.target
      BY <2>4, <3>1 DEF Carried, HardwareInv, IsAt
    <3>2. CASE Missed(e, {item.job}) /\ UNCHANGED runId
      BY <2>4, <3>2 DEF Missed, Lost, IsAt
    <3> QED BY <1>5, <3>1, <3>2
  <2>6. Lost(e) \subseteq Lost(e)' /\ \A t \in Targets : DeviceInv(e, t)
    BY <2>1 DEF Lost, DevicesInv
  <2>7. ASSUME NEW t \in Targets
        PROVE  /\ DeviceInv(e, t)'
               /\ runId[e][t] <= runId'[e][t]
               /\ item.job.run > 0 /\ item.job.run <= run
               /\ IsAt(item, t, "start_daq")
                    => runId[e][t] >= item.job.run \/ item.job.run \in Lost(e)
               /\ item.job.cmd = "start_daq" /\ todo # << >> => item.job.run < run
    BY <1>1, <1>5, <2>3, <2>4, <2>6, DeviceDone
  <2>8. DevicesInv'
    BY <1>3, <2>1, <2>2, <2>7 DEF DevicesInv
  <2>9. HardwareInv'
    <3>1. runId' \in [Devices -> [Targets -> Nat]]
      <4>1. runId \in [Devices -> [Targets -> Nat]] /\ item.job.run \in Nat
        BY <2>4 DEF HardwareInv
      <4>2. \/ runId' = runId
            \/ runId' = [runId EXCEPT ![e] = [@ EXCEPT ![item.target] = item.job.run]]
        BY <1>5 DEF Carried
      <4> QED BY <4>1, <4>2
    <3>2. fresh' \in BOOLEAN /\ stopLost' \in BOOLEAN
      BY <1>1, <1>5 DEF HardwareInv
    <3>3. idLost' \subseteq Devices \X (1 .. run')
      <4>1. item.job.run \in 1 .. run
        BY <1>1, <2>4, <2>7
      <4> QED BY <1>1, <1>5, <4>1 DEF Missed, HardwareInv
    <3> QED BY <3>1, <3>2, <3>3 DEF HardwareInv
  <2>10. CASE startedBy' = startedBy
    <3>1. \A d \in Devices, t \in Targets : runId[d][t] <= runId'[d][t]
      BY <2>2, <2>7 DEF HardwareInv
    <3> QED BY <1>1, <2>1, <2>8, <2>9, <2>10, <3>1, StartedKept
  <2>11. CASE startedBy' # startedBy
    <3>1. /\ item.job.cmd = "start_daq"
          /\ startedBy' = [device |-> e, target |-> item.target, run |-> item.job.run]
          /\ UNCHANGED <<runId, idLost>>
      BY <1>5, <2>11 DEF Carried
    <3>2. runId'[e][item.target] >= item.job.run \/ <<e, item.job.run>> \in idLost'
      BY <2>4, <2>7, <3>1 DEF Lost, IsAt
    <3>3. MasterKnowsRunId'
      BY <3>1, <3>2 DEF MasterKnowsRunId
    <3>4. /\ item.job.run \in 0 .. run
          /\ item.job.cmd = "start_daq" /\ todo # << >> => item.job.run < run
      BY <1>1, <2>4, <2>7
    <3> QED BY <1>1, <2>4, <2>8, <2>9, <3>1, <3>3, <3>4 DEF StartedInv
  <2> QED BY <2>10, <2>11
<1>6. CASE JobCannotBegin(e)
  <2>1. /\ Pending[e] # << >> /\ Head(Pending[e]) = Head(queue[e])
        /\ Pending' = [Pending EXCEPT ![e] = Tail(Pending[e])]
    BY <1>6, PendingThrows DEF JobCannotBegin
  <2>2. Missed(e, {Head(queue[e]).job}) /\ UNCHANGED <<runId, startedBy, stopLost>>
    BY <1>6 DEF JobCannotBegin
  <2> QED BY <1>5, <2>1, <2>2
<1>7. ASSUME NEW ok \in BOOLEAN, JobEnds(e, ok) PROVE DevicesInv' /\ HardwareInv' /\ StartedInv'
  <2>1. /\ Pending[e] # << >> /\ Head(Pending[e]) = active[e]
        /\ Pending' = [Pending EXCEPT ![e] = Tail(Pending[e])]
    BY <1>7, PendingEnds DEF JobEnds
  <2>2. /\ \/ Carried(e, active[e].job) /\ conn[e] = active[e].target /\ UNCHANGED idLost
           \/ Missed(e, {active[e].job}) /\ UNCHANGED <<runId, startedBy>>
        /\ UNCHANGED stopLost
    BY <1>7 DEF JobEnds, EndJob, JobReachesItsTarget
  <2> QED BY <1>5, <2>1, <2>2
<1>8. CASE WorkerEnds(e)
  <2> DEFINE dropped == {queue[e][i].job : i \in DOMAIN queue[e]}
  <2>1. /\ Pending[e] = queue[e] /\ Pending' = [Pending EXCEPT ![e] = << >>]
        /\ Missed(e, dropped) /\ UNCHANGED <<runId, startedBy>>
        /\ stopLost' = (stopLost \/ \E j \in dropped : j.cmd = "stop_daq")
    BY <1>8, PendingDropped DEF WorkerEnds
  <2>2. queue[e] \in Seq(Items) /\ DOMAIN queue[e] = 1 .. Len(queue[e])
    BY LenProperties DEF WorkersTypeOK
  <2>3. \A i \in 1 .. Len(queue[e]) :
           queue[e][i].job.run \in Nat /\ queue[e][i].job.run > 0 /\ queue[e][i].job.run <= run
    <3> SUFFICES ASSUME NEW i \in 1 .. Len(queue[e])
                 PROVE  /\ queue[e][i].job.run \in Nat
                        /\ queue[e][i].job.run > 0 /\ queue[e][i].job.run <= run
      OBVIOUS
    <3>1. queue[e][i] \in Items
      BY <2>2, ElementOfSeq
    <3>2. queue[e][i].target \in Targets /\ queue[e][i].job.run \in Nat
      BY <3>1, ItemJob DEF Items
    <3>3. DeviceInv(e, queue[e][i].target)
      BY <3>2 DEF DevicesInv
    <3>4. NotAbove(queue[e], run)
      BY <2>1, <3>3 DEF DeviceInv
    <3> QED BY <3>2, <3>4 DEF NotAbove
  <2>4. idLost \subseteq idLost' /\ idLost' \subseteq Devices \X (1 .. run)
    BY <1>1, <2>1, <2>2, <2>3 DEF Missed, HardwareInv
  <2>5. \A i \in 1 .. Len(Pending[e]) :
           Pending[e][i].job.cmd = "set_run_id" => Pending[e][i].job.run \in Lost(e)'
    BY <2>1, <2>2, <2>3 DEF Missed, Lost
  <2>6. ASSUME NEW t \in Targets PROVE DeviceInv(e, t)'
    <3>1. Lost(e) \subseteq Lost(e)' /\ DeviceInv(e, t) /\ Pending'[e] = << >>
      BY <2>1, <2>4 DEF Lost, DevicesInv, Pending
    <3> QED BY <1>1, <2>1, <2>5, <3>1, DeviceDropped
  <2>7. \A d \in Devices \ {e}, t \in Targets : DeviceInv(d, t)'
    <3>1. \A d \in Devices \ {e} : Pending'[d] = Pending[d] /\ runId'[d] = runId[d]
      BY <2>1 DEF Pending
    <3> QED BY <1>3, <2>4, <3>1
  <2>8. stopLost' \in BOOLEAN
    BY <2>1 DEF HardwareInv
  <2>9. HardwareInv'
    BY <1>1, <2>1, <2>4, <2>8 DEF HardwareInv
  <2>10. \A d \in Devices, t \in Targets : runId[d][t] <= runId'[d][t]
    BY <2>1 DEF HardwareInv
  <2>11. StartedInv'
    BY <1>1, <2>1, <2>4, <2>9, <2>10, StartedKept
  <2> QED BY <2>6, <2>7, <2>9, <2>11 DEF DevicesInv
<1> QED BY <1>4, <1>6, <1>7, <1>8 DEF Worker

\* Packets of the run come in only after its start, which is sent last.
LEMMA DataStep ==
    ASSUME GuiInv, HardwareInv, StartedInv, [Next]_vars
    PROVE  \/ \E d \in Devices : Worker(d)
           \/ /\ UNCHANGED deviceVars
              /\ todo' # << >> => startedBy.run < run' /\ ~fresh'
              /\ forgotten' = FALSE /\ fresh' \in BOOLEAN
<1>1. run \in Nat /\ run' \in Nat /\ run <= run' /\ startedBy.run \in 0 .. run
      /\ (todo # << >> => startedBy.run < run /\ ~fresh)
      /\ forgotten = FALSE /\ fresh \in BOOLEAN
  BY RunGrows DEF StartedInv, HardwareInv
<1>2. ASSUME UNCHANGED <<deviceVars, dataVars>>, todo' # << >> => todo # << >>
      PROVE  /\ UNCHANGED deviceVars
             /\ todo' # << >> => startedBy.run < run' /\ ~fresh'
             /\ forgotten' = FALSE /\ fresh' \in BOOLEAN
  BY <1>1, <1>2 DEF dataVars
<1>3. ASSUME UNCHANGED deviceVars, NewWorker
      PROVE  /\ UNCHANGED deviceVars
             /\ todo' # << >> => startedBy.run < run' /\ ~fresh'
             /\ forgotten' = FALSE /\ fresh' \in BOOLEAN
  <2>1. fresh' = FALSE /\ forgotten' = FALSE
    BY <1>3 DEF NewWorker
  <2>2. startedBy.run < run'
    BY <1>1, <1>3 DEF NewWorker
  <2> QED BY <1>3, <2>1, <2>2
<1>4. CASE StartReadoutOnly \/ StartRun
  <2>1. todo = << >> /\ UNCHANGED deviceVars
        /\ (NewWorker \/ UNCHANGED <<todo, dataVars>>)
    BY <1>4 DEF StartReadoutOnly, StartRun, StartReadout, ReadoutFails, Click, GuiIsIdle
  <2> QED BY <1>2, <1>3, <2>1
<1>5. CASE ContinueRun \/ StartReplay \/ Console
  <2>1. todo' = todo /\ UNCHANGED deviceVars /\ (NewWorker \/ UNCHANGED dataVars)
    BY <1>5 DEF ContinueRun, StartReplay, Console, StartReadout, ReadoutFails
  <2> QED BY <1>2, <1>3, <2>1
<1>6. CASE StopRun \/ Edits \/ StopReadoutClicked \/ DrainEnds \/ StatsTick
           \/ OnCommandFinished \/ GuiGoesOn \/ UNCHANGED vars
  <2>1. todo' = todo /\ UNCHANGED <<deviceVars, dataVars>>
    BY <1>6, EditsIn DEF StopRun, StopReadoutClicked, DrainEnds, StopReadout, StatsTick,
                OnCommandFinished, GuiGoesOn, vars, guiStateVars
  <2> QED BY <1>2, <2>1
<1>7. CASE StartRunGoesOn
  <2>1. todo # << >> /\ run' = run /\ UNCHANGED deviceVars
    BY <1>7, GoesOnIsCall DEF CallStep, NextCall
  <2>2. fresh' = fresh /\ (forgotten' = forgotten \/ forgotten' = (forgotten \/ fresh))
    BY <1>7 DEF StartRunGoesOn, ResetStats, ClearTracker, ClearHistograms, SendRunId, SendStart,
                dataVars
  <2> QED BY <1>1, <2>1, <2>2
<1>8. CASE DaqThread
  <2>1. /\ todo' = todo /\ run' = run /\ UNCHANGED <<deviceVars, forgotten>>
        /\ fresh' = fresh \/ (startedBy.run = run /\ fresh' = TRUE)
    BY <1>8 DEF DaqThread, guiStateVars
  <2>2. todo # << >> => startedBy.run # run
    BY <1>1
  <2>3. todo # << >> => fresh' = fresh
    BY <2>1, <2>2
  <2>4. fresh' \in BOOLEAN
    BY <1>1, <2>1
  <2> QED BY <1>1, <2>1, <2>3, <2>4
<1>9. CASE \E d \in Devices : Worker(d)
  BY <1>9
<1> QED BY <1>4, <1>5, <1>6, <1>7, <1>8, <1>9 DEF Next, User, Edits

LEMMA DevicesStep ==
    ASSUME WorkersTypeOK, WorkersTypeOK', JobReachesItsTarget, GuiInv, GuiInv', DevicesInv,
           HardwareInv, StartedInv, [Next]_vars
    PROVE  DevicesInv' /\ HardwareInv' /\ StartedInv'
<1>1. CASE \E d \in Devices : Worker(d)
  BY <1>1, WorkerKeeps
<1>2. CASE ~\E d \in Devices : Worker(d)
  <2>1. /\ UNCHANGED deviceVars
        /\ todo' # << >> => startedBy.run < run' /\ ~fresh'
        /\ forgotten' = FALSE /\ fresh' \in BOOLEAN
    BY <1>2, DataStep
  <2>2. UNCHANGED <<runId, startedBy, idLost, stopLost>>
    BY <2>1 DEF deviceVars
  <2>3. run \in Nat /\ run' \in {run, run + 1}
    BY RunGrows
  <2>4. HardwareInv'
    BY <2>1, <2>2, <2>3 DEF HardwareInv
  <2>5. StartedInv'
    <3>1. MasterKnowsRunId'
      BY <2>2 DEF MasterKnowsRunId, StartedInv
    <3>2. startedBy' \in [device : Devices \cup {None}, target : Targets \cup {None},
                          run : 0 .. run']
      BY <2>2, <2>3 DEF StartedInv
    <3>3. startedBy'.run > 0 => startedBy'.device \in Devices /\ startedBy'.target \in Targets
      BY <2>2 DEF StartedInv
    <3> QED BY <2>1, <2>2, <3>1, <3>2, <3>3 DEF StartedInv
  <2>6. CASE Sends
    BY <2>4, <2>5, <2>6, SendsKeep
  <2>7. CASE ~Sends
    <3>1. Pending' = Pending
      BY <1>2, <2>7, QuietPending
    <3>2. \/ UNCHANGED <<todo, run, role, target>>
          \/ todo = << >> /\ todo' = << >>
          \/ todo = << >> /\ run' = run + 1 /\ todo' # <<"start_daq">>
          \/ todo # << >> /\ todo' # <<"start_daq">> /\ run' = run
      BY <1>2, <2>7, CallsGoOn
    <3>3. role' = role => Masters' = Masters
      BY DEF Masters, EnabledDevices
    <3>4. << >> # <<"start_daq">>
      OBVIOUS
    <3>5. ASSUME NEW d \in Devices, NEW t \in Targets PROVE DeviceInv(d, t)'
      <4>1. DeviceInv(d, t) /\ Lost(d) \subseteq Lost(d)' /\ Pending'[d] = Pending[d]
        BY <2>2, <3>1 DEF DevicesInv, Lost
      <4>2. todo' # << >> => run' = run + 1 \/ (run' = run /\ todo # << >>)
        BY <3>2
      <4>3. todo' = <<"start_daq">> /\ d \in Masters' /\ target'[d] = t
              => todo = <<"start_daq">> /\ d \in Masters /\ target[d] = t /\ run' = run
        BY <3>2, <3>3, <3>4
      <4> QED BY <2>2, <2>3, <4>1, <4>2, <4>3, DeviceUntouched
    <3> QED BY <2>4, <2>5, <3>5 DEF DevicesInv
  <2> QED BY <2>6, <2>7
<1> QED BY <1>1, <1>2
-----------------------------------------------------------------------------
(* The theorems.                                                           *)

RunInv ==
    /\ WorkersTypeOK /\ WorkersInv
    /\ GuiInv /\ RatesInv /\ StopInv
    /\ DevicesInv /\ HardwareInv /\ StartedInv

LEMMA RunInit == Init => RunInv
<1> SUFFICES ASSUME Init PROVE RunInv
  OBVIOUS
<1>1. WorkersInit
  BY DEF Init
<1>2. WorkersTypeOK
  BY <1>1 DEF WorkersInit, WorkersTypeOK
<1>3. GuiInv
  <2>1. NoDaq \in DaqType /\ ~NoDaq.running
    BY DEF DaqType, NoDaq
  <2>2. /\ clicks \in Nat /\ clicks <= MaxClicks /\ run = 0
        /\ state = "idle" /\ daq = NoDaq /\ todo = << >> /\ portChanged = FALSE /\ prev = "none"
        /\ role \in [Devices -> {"Master", "Slave", "off"}]
    BY RunAssumption DEF Init
  <2>3. << >> \in RestsOfStartRun
    BY DEF RestsOfStartRun
  <2>4. ~(state # "idle" \/ daq.running \/ todo # << >>)
    BY <2>1, <2>2
  <2>5. clicks \in Nat /\ clicks <= MaxClicks /\ run \in Nat /\ run <= clicks
    BY <2>2
  <2>6. /\ daq \in DaqType /\ todo \in RestsOfStartRun /\ portChanged \in BOOLEAN
        /\ prev \in {"none", "current", "behind", "stale"}
        /\ state \in {"idle", "readout", "replay"}
    BY <2>1, <2>2, <2>3
  <2> QED BY <2>2, <2>4, <2>5, <2>6 DEF GuiInv
<1>4. RatesInv
  BY DEF Init, RatesInv
<1>5. StopInv
  BY DEF Init, StopInv
<1>6. HardwareInv /\ StartedInv
  <2>1. fresh \in BOOLEAN /\ stopLost \in BOOLEAN /\ forgotten = FALSE
    BY DEF Init
  <2>2. run = 0 /\ startedBy = [device |-> None, target |-> None, run |-> 0] /\ todo = << >>
        /\ runId = [d \in Devices |-> [t \in Targets |-> 0]] /\ idLost = {}
    BY DEF Init
  <2>3. HardwareInv
    BY <2>1, <2>2 DEF HardwareInv
  <2>4. StartedInv
    BY <2>1, <2>2 DEF StartedInv, MasterKnowsRunId
  <2> QED BY <2>3, <2>4
<1>7. DevicesInv
  <2>1. \A d \in Devices : Executing(d) \o queue[d] = << >>
    BY <1>1, EmptySeq, ConcatEmptySeq DEF WorkersInit, Executing
  <2>2. \A d \in Devices : Pending[d] = << >>
    BY <2>1 DEF Pending
  <2>3. todo = << >> /\ run = 0 /\ \A d \in Devices, t \in Targets : runId[d][t] = 0
    BY DEF Init
  <2>4. ASSUME NEW d \in Devices, NEW t \in Targets PROVE DeviceInv(d, t)
    <3>1. /\ InOrder(<< >>, 0) /\ NotAbove(<< >>, 0) /\ ToldBeforeStart(<< >>, t, 0, Lost(d))
          /\ << >> # <<"start_daq">>
      BY NothingPending
    <3> QED BY <2>2, <2>3, <3>1 DEF DeviceInv
  <2> QED BY <2>4 DEF DevicesInv
<1>8. WorkersInv
  BY <1>1 DEF WorkersInit, WorkersInv, NothingWithoutThread, QuitIsAsked, JobReachesItsTarget
<1> QED BY <1>2, <1>3, <1>4, <1>5, <1>6, <1>7, <1>8 DEF RunInv

LEMMA RunStep ==
    ASSUME RunInv, [Next]_vars
    PROVE  RunInv'
<1>1. GuiInv'
  BY GuiStep DEF RunInv
<1>2. WorkersTypeOK' /\ WorkersInv'
  BY <1>1, StepIsWorkersStep, TypeStep, InvStep DEF RunInv
<1>3. RatesInv' /\ StopInv'
  BY RatesStep, StopStep DEF RunInv
<1>4. DevicesInv' /\ HardwareInv' /\ StartedInv'
  BY <1>1, <1>2, DevicesStep DEF RunInv, WorkersInv
<1> QED BY <1>1, <1>2, <1>3, <1>4 DEF RunInv

LEMMA RunInvariant == Spec => []RunInv
  BY RunInit, RunStep, PTL DEF Spec

LEMMA TypesFromInv ==
    ASSUME RunInv
    PROVE  TypeOK
<1>1. run \in 0 .. MaxClicks /\ clicks \in 0 .. MaxClicks /\ MaxClicks \in Nat
  BY RunAssumption DEF RunInv, GuiInv
<1>2. todo \in Seq({"reset_stats", "clear_tracker", "clear_histograms", "set_run_id", "start_daq"})
  <2> DEFINE calls == {"reset_stats", "clear_tracker", "clear_histograms", "set_run_id",
                       "start_daq"}
  <2>1. todo \in RestsOfStartRun
    BY DEF RunInv, GuiInv
  <2>2. /\ << >> \in Seq(calls) /\ <<"start_daq">> \in Seq(calls)
        /\ <<"set_run_id", "start_daq">> \in Seq(calls)
        /\ <<"clear_histograms", "set_run_id", "start_daq">> \in Seq(calls)
    OBVIOUS
  <2>3. /\ <<"clear_tracker", "set_run_id", "start_daq">> \in Seq(calls)
        /\ <<"clear_tracker", "clear_histograms", "set_run_id", "start_daq">> \in Seq(calls)
    OBVIOUS
  <2>4. <<"reset_stats", "clear_tracker", "set_run_id", "start_daq">> \in Seq(calls)
    OBVIOUS
  <2>5. <<"reset_stats", "clear_tracker", "clear_histograms", "set_run_id", "start_daq">>
           \in Seq(calls)
    OBVIOUS
  <2> QED BY <2>1, <2>2, <2>3, <2>4, <2>5, Zenon DEF RestsOfStartRun
<1>3. drains \in Seq(1 .. MaxClicks)
  <2>1. 1 .. run \subseteq 1 .. MaxClicks
    BY <1>1
  <2> QED BY <2>1, SeqMonotonic DEF RunInv, StopInv
<1>4. runId \in [Devices -> [Targets -> 0 .. run]]
  <2>1. runId \in [Devices -> [Targets -> Nat]]
    BY DEF RunInv, HardwareInv
  <2>2. \A d \in Devices, t \in Targets : runId[d][t] \in 0 .. run
    BY <1>1 DEF RunInv, DevicesInv, DeviceInv
  <2> QED BY <2>1, <2>2
<1>5. /\ role \in [Devices -> {"Master", "Slave", "off"}] /\ state \in {"idle", "readout", "replay"}
      /\ portChanged \in BOOLEAN /\ prev \in {"none", "current", "behind", "stale"}
      /\ daq \in [kind : {"none", "readout", "replay"}, running : BOOLEAN,
                  exception : BOOLEAN, port : BOOLEAN]
  BY DEF RunInv, GuiInv, DaqType
<1>6. /\ fresh \in BOOLEAN /\ stopLost \in BOOLEAN /\ forgotten \in BOOLEAN
      /\ idLost \subseteq Devices \X (1 .. run)
  BY DEF RunInv, HardwareInv, StartedInv
<1>7. /\ pendingStop \subseteq Devices /\ stopFor \in 0 .. run
      /\ ended \in [timer : 0 .. run, readout : 0 .. run]
      /\ startedBy \in [device : Devices \cup {None}, target : Targets \cup {None}, run : 0 .. run]
  BY DEF RunInv, StopInv, StartedInv
<1> QED BY <1>1, <1>2, <1>3, <1>4, <1>5, <1>6, <1>7 DEF RunInv, TypeOK

\* Types of the run control, of the workers it uses and of its devices.
THEOREM RunControlTypeCorrect == Spec => []TypeOK
  BY RunInvariant, TypesFromInv, PTL

\* Whatever is queued, slow, edited or removed: a device that has carried out a
\* start knows the id of that run, or a set_run_id was lost.
THEOREM StartedDeviceKnowsRunId == Spec => []MasterKnowsRunId
<1>1. RunInv => MasterKnowsRunId
  BY DEF RunInv, StartedInv
<1> QED BY <1>1, RunInvariant, PTL

\* start_run() never clears packets that its own start has brought in.
THEOREM RunsAreCounted == Spec => []RunIsCounted
<1>1. RunInv => RunIsCounted
  BY DEF RunInv, StartedInv, RunIsCounted
<1> QED BY <1>1, RunInvariant, PTL

\* When the statistics timer may run, the last snapshot is of the current count.
THEOREM RatesAreOfOneCount == Spec => []RatesOfOneCount
<1>1. RunInv => RatesOfOneCount
  BY DEF RunInv, RatesInv, RatesOfOneCount, GuiIsIdle
<1> QED BY <1>1, RunInvariant, PTL
-----------------------------------------------------------------------------
(* What the command threads promise, they promise the run control.         *)

LEMMA RunControlUsesWorkers == Spec => WorkersSpec
<1>1. Init => WorkersInit
  BY DEF Init
<1>2. RunInv /\ RunInv' /\ [Next]_vars => [WorkersNext]_workerVars
  BY StepIsWorkersStep DEF RunInv
<1> QED BY <1>1, <1>2, RunInvariant, PTL DEF Spec, WorkersSpec

\* set_run_id, start_daq and stop_daq are executed on a connection to the target
\* their device had when start_run() or stop_run() submitted them, however the user
\* redirects the device while they are queued or executed.
THEOREM RunCommandsReachTheirTarget == Spec => []JobReachesItsTarget
  BY RunControlUsesWorkers, WorkersUseTheirTarget, PTL

\* The answers that the run control waits for come in the order of its commands,
\* once each; none is lost but those of a device that is removed.
THEOREM RunControlImplementsJobService == Spec => ImplementsJobService
  BY RunControlUsesWorkers, WorkersImplementJobService, PTL
-----------------------------------------------------------------------------
(* A run that was stopped ends: the part of StopRunEnds that needs no      *)
(* fairness.                                                               *)

\* A stop_daq is among the items p, and among the results s of device d.
StopIn(p) == \E i \in 1 .. Len(p) : p[i].job.cmd = "stop_daq"

AnsweredIn(s, d) == \E i \in 1 .. Len(s) : s[i].device = d /\ s[i].item.job.cmd = "stop_daq"

\* A stop_daq of d is queued, executed, or its result is posted.
StopUnderWay(d) == StopIn(Pending[d]) \/ AnsweredIn(posted, d)

\* While the readout that stop_daq was sent for is still running, its timer runs, or
\* the GUI waits for an answer that is still to come from every device it names.
StopIsOnItsWay ==
    daq.running /\ stopFor = run /\ ~stopLost =>
        \/ drains # << >>
        \/ pendingStop # {} /\ \A d \in pendingStop : StopUnderWay(d)

\* This readout is shown as one: otherwise the last answer would start no timer.
StoppedIsShown ==
    /\ daq.running => ~daq.exception
    /\ daq.running /\ stopFor = run => state = "readout"

LEMMA AppendedStop ==
    ASSUME NEW p \in Seq(Items), NEW x \in Items
    PROVE  /\ StopIn(p) => StopIn(Append(p, x))
           /\ x.job.cmd = "stop_daq" => StopIn(Append(p, x))
<1>1. /\ Len(p) \in Nat /\ Len(Append(p, x)) = Len(p) + 1
      /\ \A i \in 1 .. Len(p) : Append(p, x)[i] = p[i]
      /\ Append(p, x)[Len(p) + 1] = x
  BY AppendProperties, LenProperties
<1>2. 1 .. Len(p) \subseteq 1 .. Len(p) + 1 /\ Len(p) + 1 \in 1 .. Len(p) + 1
  BY <1>1
<1> QED BY <1>1, <1>2 DEF StopIn

LEMMA FirstOrLaterStop ==
    ASSUME NEW p \in Seq(Items), p # << >>, StopIn(p)
    PROVE  Head(p).job.cmd = "stop_daq" \/ StopIn(Tail(p))
<1>1. /\ Len(p) \in Nat /\ Len(Tail(p)) = Len(p) - 1 /\ Head(p) = p[1]
      /\ \A i \in 1 .. Len(Tail(p)) : Tail(p)[i] = p[i + 1]
  BY HeadTailProperties, LenProperties
<1>2. PICK i \in 1 .. Len(p) : p[i].job.cmd = "stop_daq"
  BY DEF StopIn
<1>3. CASE i = 1
  BY <1>1, <1>2, <1>3
<1>4. CASE i # 1
  <2>1. i - 1 \in 1 .. Len(Tail(p)) /\ (i - 1) + 1 = i
    BY <1>1, <1>4
  <2> QED BY <1>1, <1>2, <2>1 DEF StopIn
<1> QED BY <1>3, <1>4

LEMMA AppendedAnswer ==
    ASSUME NEW s \in Seq(Results), NEW x \in Results, NEW d \in Devices
    PROVE  /\ AnsweredIn(s, d) => AnsweredIn(Append(s, x), d)
           /\ x.device = d /\ x.item.job.cmd = "stop_daq" => AnsweredIn(Append(s, x), d)
<1>1. /\ Len(s) \in Nat /\ Len(Append(s, x)) = Len(s) + 1
      /\ \A i \in 1 .. Len(s) : Append(s, x)[i] = s[i]
      /\ Append(s, x)[Len(s) + 1] = x
  BY AppendProperties, LenProperties
<1>2. 1 .. Len(s) \subseteq 1 .. Len(s) + 1 /\ Len(s) + 1 \in 1 .. Len(s) + 1
  BY <1>1
<1> QED BY <1>1, <1>2 DEF AnsweredIn

LEMMA FirstOrLaterAnswer ==
    ASSUME NEW s \in Seq(Results), s # << >>, NEW d \in Devices, AnsweredIn(s, d)
    PROVE  \/ Head(s).device = d /\ Head(s).item.job.cmd = "stop_daq"
           \/ AnsweredIn(Tail(s), d)
<1>1. /\ Len(s) \in Nat /\ Len(Tail(s)) = Len(s) - 1 /\ Head(s) = s[1]
      /\ \A i \in 1 .. Len(Tail(s)) : Tail(s)[i] = s[i + 1]
  BY HeadTailProperties, LenProperties
<1>2. PICK i \in 1 .. Len(s) : s[i].device = d /\ s[i].item.job.cmd = "stop_daq"
  BY DEF AnsweredIn
<1>3. CASE i = 1
  BY <1>1, <1>2, <1>3
<1>4. CASE i # 1
  <2>1. i - 1 \in 1 .. Len(Tail(s)) /\ (i - 1) + 1 = i
    BY <1>1, <1>4
  <2> QED BY <1>1, <1>2, <2>1 DEF AnsweredIn
<1> QED BY <1>3, <1>4

\* If the stopped readout still runs after a step, it ran before, or the step is
\* the one in which it is stopped.
LEMMA StillRuns ==
    ASSUME GuiInv, StopInv, StoppedIsShown, [Next]_vars
    PROVE  /\ daq'.running => ~daq'.exception
           /\ daq'.running /\ stopFor' = run' =>
                 /\ state' = "readout"
                 /\ \/ StopRun
                    \/ /\ daq.running /\ stopFor = run
                       /\ OnCommandFinished \/ UNCHANGED <<pendingStop, drains>>
<1> DEFINE Clean == daq'.running => ~daq'.exception
           Goes == daq'.running /\ stopFor' = run' =>
                     /\ state' = "readout"
                     /\ \/ StopRun
                        \/ /\ daq.running /\ stopFor = run
                           /\ OnCommandFinished \/ UNCHANGED <<pendingStop, drains>>
<1>1. /\ daq \in DaqType /\ run \in Nat /\ stopFor \in 0 .. run
      /\ ~DaqStopped(daq).running /\ ~NoDaq.running
      /\ ~DaqReading.exception /\ ~DaqReplaying(daq).exception
      /\ ~[daq EXCEPT !.running = FALSE, !.exception = TRUE].running
      /\ ~[daq EXCEPT !.running = FALSE].running
      /\ ~[DaqStopped(daq) EXCEPT !.exception = FALSE].running
  BY DaqTypes DEF GuiInv, StopInv, DaqReading, DaqReplaying, DaqType
<1>2. ASSUME run' = run + 1, stopFor' = stopFor PROVE Goes
  BY <1>1, <1>2
<1>3. ASSUME daq' = daq, run' = run, stopFor' = stopFor, state' = state,
             OnCommandFinished \/ UNCHANGED <<pendingStop, drains>>
      PROVE  Clean /\ Goes
  BY <1>3 DEF StoppedIsShown
<1>4. CASE StartReadoutOnly \/ StartRun \/ ContinueRun
  <2>1. UNCHANGED stopVars
    BY <1>4 DEF StartReadoutOnly, StartRun, ContinueRun
  <2>2. CASE StartReadout
    <3>1. run' = run + 1 /\ daq' = DaqReading
      BY <2>2 DEF StartReadout, NewWorker
    <3> QED BY <1>1, <1>2, <2>1, <3>1 DEF stopVars
  <2>3. CASE ReadoutFails /\ state = "idle"
    <3>1. daq' \in {NoDaq, daq} /\ run' = run /\ state' = state
      BY <2>3 DEF ReadoutFails
    <3> QED BY <1>1, <2>1, <2>3, <3>1 DEF StoppedIsShown, stopVars
  <2>4. CASE ContinueRun /\ UNCHANGED <<state, daq, run, portChanged, prev, dataVars>>
    BY <1>3, <2>1, <2>4 DEF ContinueRun, stopVars
  <2> QED BY <1>4, <2>2, <2>3, <2>4 DEF StartReadoutOnly, StartRun, ContinueRun
<1>5. CASE StopRun
  BY <1>5 DEF StopRun, StoppedIsShown
<1>6. CASE StopReadoutClicked \/ DrainEnds
  <2>1. UpdateStats(DaqStopped(daq))
    BY <1>6 DEF StopReadoutClicked, DrainEnds, StopReadout
  <2>2. /\ ~DaqStopped(daq).running
        /\ ~[DaqStopped(DaqStopped(daq)) EXCEPT !.exception = FALSE].running
    BY <1>1, DaqTypes
  <2>3. ~daq'.running
    BY <2>1, <2>2 DEF UpdateStats
  <2> QED BY <2>3
<1>7. CASE StatsTick
  <2>1. /\ state' = ShownState(daq)
        /\ daq' = IF daq.exception \/ (state # "idle" /\ ~daq.running)
                  THEN [DaqStopped(daq) EXCEPT !.exception = FALSE] ELSE daq
        /\ UNCHANGED <<run, pendingStop, drains, stopVars>>
    BY <1>7 DEF StatsTick, UpdateStats
  <2>2. daq'.running => daq' = daq /\ daq.running /\ ~daq.exception
    BY <1>1, <2>1
  <2>3. daq'.running /\ stopFor' = run' => state = "readout"
    BY <2>1, <2>2 DEF StoppedIsShown, stopVars
  <2> QED BY <2>1, <2>2, <2>3 DEF ShownState, stopVars
<1>8. CASE StartReplay
  <2>1. state = "idle" /\ UNCHANGED stopVars
    BY <1>8 DEF StartReplay
  <2>2. CASE daq' = DaqReplaying(daq) /\ NewWorker
    BY <1>1, <1>2, <2>1, <2>2 DEF NewWorker, stopVars
  <2>3. CASE UNCHANGED <<daq, run, state, dataVars>>
    BY <2>1, <2>3 DEF StoppedIsShown, stopVars
  <2> QED BY <1>8, <2>2, <2>3 DEF StartReplay
<1>9. CASE Console
  <2>1. UNCHANGED stopVars
    BY <1>9 DEF Console
  <2>2. CASE daq' = DaqStopped(daq)
    BY <1>1, <2>2
  <2>3. CASE NewWorker /\ daq' \in {DaqReading, DaqReplaying(daq)}
    BY <1>1, <1>2, <2>1, <2>3 DEF NewWorker, stopVars
  <2>4. CASE UNCHANGED <<daq, run, dataVars>>
    BY <1>3, <1>9, <2>4 DEF Console, stopVars
  <2> QED BY <1>9, <2>2, <2>3, <2>4 DEF Console
<1>10. CASE OnCommandFinished
  BY <1>3, <1>10 DEF OnCommandFinished, stopVars
<1>11. CASE DaqThread
  <2>1. UNCHANGED <<state, run, pendingStop, drains, stopVars>>
    BY <1>11 DEF DaqThread, guiStateVars
  <2>2. daq'.running => daq' = daq
    BY <1>1, <1>11 DEF DaqThread
  <2> QED BY <1>3, <2>1, <2>2 DEF stopVars
<1>12. CASE StartRunGoesOn
  BY <1>3, <1>12, GoesOnIsCall DEF CallStep, NextCall, stopVars
<1>13. CASE Edits
  BY <1>3, <1>13, EditsIn DEF stopVars
<1>14. CASE GuiGoesOn \/ (\E d \in Devices : Worker(d)) \/ UNCHANGED vars
  BY <1>3, <1>14 DEF GuiGoesOn, Worker, JobBegins, JobCannotBegin, JobEnds, WorkerEnds, vars,
              guiStateVars, stopVars
<1> QED BY <1>4, <1>5, <1>6, <1>7, <1>8, <1>9, <1>10, <1>11, <1>12, <1>13, <1>14
         DEF Next, User, Edits

\* A stop_daq stays under way until its result is delivered or it is dropped.
LEMMA StopStaysUnderWay ==
    ASSUME WorkersTypeOK, WorkersTypeOK', GuiInv, GuiInv', [Next]_vars,
           NEW d \in Devices, StopUnderWay(d), ~stopLost'
    PROVE  \/ StopUnderWay(d)'
           \/ /\ OnCommandFinished
              /\ Head(posted).device = d /\ Head(posted).item.job.cmd = "stop_daq"
<1>1. /\ Pending[d] \in Seq(Items) /\ posted \in Seq(Results)
      /\ \A e \in Devices : Pending[e] \in Seq(Items)
  BY PendingIsSeq DEF WorkersTypeOK
<1>2. run' \in 0 .. MaxClicks /\ run \in 0 .. MaxClicks
  BY RunAssumption DEF GuiInv
<1>3. CASE Sends
  <2>1. PICK ds \in {EnabledDevices, Masters}, cmd \in Commands, r \in {run, run'} :
           Submit(JobsOf(ds, cmd, r))
    BY <1>3 DEF Sends, Commands
  <2>2. Submitted(JobsOf(ds, cmd, r)) /\ UNCHANGED <<active, posted>> /\ r \in 0 .. MaxClicks
    BY <1>2, <2>1 DEF Submit
  <2> DEFINE item == [job |-> [cmd |-> cmd, run |-> r], target |-> target[d]]
  <2>3. item \in Items /\ Pending'[d] \in {Pending[d], Append(Pending[d], item)}
    BY <2>2, PendingSubmitted
  <2> HIDE DEF item
  <2>4. StopIn(Pending[d]) => StopIn(Pending'[d])
    BY <1>1, <2>3, AppendedStop
  <2> QED BY <2>2, <2>4 DEF StopUnderWay
<1>4. ASSUME Pending' = Pending, posted' = posted PROVE StopUnderWay(d)'
  BY <1>4 DEF StopUnderWay
<1>5. CASE \E e \in Devices : RemoveDevice(e) /\ SubmitAndRemove(NoJobs, {e})
  <2>1. Submitted(NoJobs) /\ UNCHANGED <<active, posted>>
    BY <1>5 DEF SubmitAndRemove
  <2> QED BY <1>4, <2>1, PendingOfNoJobs
<1>6. CASE OnCommandFinished
  <2>1. posted # << >> /\ posted' = Tail(posted) /\ UNCHANGED <<queue, active>>
    BY <1>6 DEF OnCommandFinished, Deliver
  <2>2. Pending' = Pending
    BY <2>1, PendingUntouched
  <2> QED BY <1>1, <1>6, <2>1, <2>2, FirstOrLaterAnswer DEF StopUnderWay
<1>7. CASE GuiGoesOn \/ UNCHANGED workerVars
  <2>1. UNCHANGED <<queue, active, posted>>
    BY <1>7 DEF GuiGoesOn, WaitReturns, RemoveNext, workerVars, guiVars
  <2> QED BY <1>4, <2>1, PendingUntouched
<1>10. CASE \E e \in Devices, t \in Targets : EditTarget(e, t)
  BY <1>4, <1>10, PendingUntouched DEF EditTarget
\* The first item of e leaves the queue with a result.
<1>8. ASSUME NEW e \in Devices, NEW item \in Items, NEW ok \in BOOLEAN,
             Pending[e] # << >>, Head(Pending[e]) = item,
             Pending' = [Pending EXCEPT ![e] = Tail(Pending[e])],
             posted' = Append(posted, Result(e, item, ok))
      PROVE  StopUnderWay(d)'
  <2>1. /\ Result(e, item, ok) \in Results /\ Result(e, item, ok).device = e
        /\ Result(e, item, ok).item = item
    BY DEF Result, Results
  <2>2. CASE AnsweredIn(posted, d)
    BY <1>1, <1>8, <2>1, <2>2, AppendedAnswer DEF StopUnderWay
  <2>3. CASE StopIn(Pending[d]) /\ e # d
    <3>1. Pending'[d] = Pending[d]
      BY <1>8, <2>3 DEF Pending
    <3> QED BY <2>3, <3>1 DEF StopUnderWay
  <2>4. CASE StopIn(Pending[d]) /\ e = d
    <3>1. Pending'[d] = Tail(Pending[d])
      BY <1>8, <2>4 DEF Pending
    <3>2. item.job.cmd = "stop_daq" \/ StopIn(Tail(Pending[d]))
      BY <1>1, <1>8, <2>4, FirstOrLaterStop
    <3>3. item.job.cmd = "stop_daq" => AnsweredIn(posted', d)
      BY <1>1, <1>8, <2>1, <2>4, AppendedAnswer
    <3> QED BY <3>1, <3>2, <3>3 DEF StopUnderWay
  <2> QED BY <2>2, <2>3, <2>4 DEF StopUnderWay
<1>9. ASSUME NEW e \in Devices, Worker(e) PROVE StopUnderWay(d)'
  <2>1. CASE JobBegins(e)
    BY <1>4, <2>1, PendingBegins DEF JobBegins, BeginJob
  <2>2. CASE JobCannotBegin(e)
    <3>1. ConnectThrows(e) /\ CanRun(e)
      BY <2>2 DEF JobCannotBegin, ConnectThrows
    <3>2. posted' = Append(posted, Result(e, Head(queue[e]), FALSE)) /\ Head(queue[e]) \in Items
      BY <3>1, HeadIsItem DEF ConnectThrows, CanRun
    <3> QED BY <1>8, <3>1, <3>2, PendingThrows
  <2>3. ASSUME NEW ok \in BOOLEAN, JobEnds(e, ok) PROVE StopUnderWay(d)'
    <3>1. EndJob(e, ok) /\ posted' = Append(posted, Result(e, active[e], ok)) /\ active[e] \in Items
      BY <2>3, ActiveIsItem DEF JobEnds, EndJob
    <3> QED BY <1>8, <3>1, PendingEnds
  <2>4. CASE WorkerEnds(e)
    <3>1. /\ ThreadEnds(e) /\ posted' = posted
          /\ stopLost' = (stopLost \/ \E j \in {queue[e][i].job : i \in DOMAIN queue[e]} :
                                         j.cmd = "stop_daq")
      BY <2>4 DEF WorkerEnds, ThreadEnds
    <3>2. Pending[e] = queue[e] /\ Pending' = [Pending EXCEPT ![e] = << >>]
      BY <3>1, PendingDropped
    <3>3. CASE e = d /\ StopIn(Pending[d])
      <4>1. DOMAIN queue[e] = 1 .. Len(queue[e])
        BY LenProperties DEF WorkersTypeOK
      <4>2. stopLost'
        BY <3>1, <3>2, <3>3, <4>1 DEF StopIn
      <4> QED BY <4>2
    <3>4. CASE e # d
      <4>1. Pending'[d] = Pending[d]
        BY <3>2, <3>4 DEF Pending
      <4> QED BY <3>1, <4>1 DEF StopUnderWay
    <3> QED BY <3>1, <3>3, <3>4 DEF StopUnderWay
  <2> QED BY <1>9, <2>1, <2>2, <2>3, <2>4 DEF Worker
<1> QED BY <1>3, <1>5, <1>6, <1>7, <1>9, <1>10, StepKinds

LEMMA MastersAreSome ==
    ASSUME HasMaster
    PROVE  Masters # {}
  BY FS_EmptySet DEF HasMaster

\* stop_daq has just been sent.
LEMMA StopIsSent ==
    ASSUME WorkersTypeOK, WorkersTypeOK', GuiInv, StopRun
    PROVE  pendingStop' # {} /\ \A d \in pendingStop' : StopUnderWay(d)'
<1>1. run \in 0 .. MaxClicks
  BY RunAssumption DEF GuiInv
<1>2. Submit(JobsOf(Masters, "stop_daq", run)) /\ pendingStop' = Masters /\ HasMaster
  BY DEF StopRun, SendTo, JobsOf
<1>3. Submitted(JobsOf(Masters, "stop_daq", run)) /\ UNCHANGED active /\ "stop_daq" \in Commands
  BY <1>2 DEF Submit, Commands
<1>4. ASSUME NEW d \in Masters PROVE StopUnderWay(d)'
  <2>1. d \in Devices
    BY DEF Masters, EnabledDevices
  <2> DEFINE item == [job |-> [cmd |-> "stop_daq", run |-> run], target |-> target[d]]
  <2>2. item \in Items /\ Pending'[d] = Append(Pending[d], item)
    BY <1>1, <1>3, <2>1, PendingSubmitted
  <2>3. Pending[d] \in Seq(Items) /\ item.job.cmd = "stop_daq"
    BY <2>1, PendingIsSeq
  <2> HIDE DEF item
  <2>4. StopIn(Pending'[d])
    BY <2>2, <2>3, AppendedStop
  <2> QED BY <2>4 DEF StopUnderWay
<1> QED BY <1>2, <1>4, MastersAreSome

\* An answer is taken from those that are waited for; the last one starts the timer.
LEMMA AnswerIsTaken ==
    ASSUME GuiInv, StopInv, OnCommandFinished, state = "readout", pendingStop # {}
    PROVE  \/ drains' # << >>
           \/ /\ pendingStop' # {} /\ pendingStop' \subseteq pendingStop
              /\ Head(posted).item.job.cmd = "stop_daq" => Head(posted).device \notin pendingStop'
<1>1. CASE IsStopAnswer(Head(posted))
  <2>1. /\ pendingStop' = pendingStop \ {Head(posted).device}
        /\ pendingStop' = {} => drains' = Append(drains, stopFor)
    BY <1>1 DEF OnCommandFinished
  <2>2. drains' = Append(drains, stopFor) => drains' # << >>
    <3>1. drains \in Seq(1 .. run) /\ stopFor \in 1 .. run
      BY DEF StopInv, GuiInv
    <3> QED BY <3>1, AppendProperties, EmptySeq
  <2> QED BY <2>1, <2>2
<1>2. CASE ~IsStopAnswer(Head(posted))
  BY <1>2 DEF OnCommandFinished, IsStopAnswer
<1> QED BY <1>1, <1>2

LEMMA OnItsWayStep ==
    ASSUME RunInv, RunInv', StoppedIsShown, StopIsOnItsWay, [Next]_vars
    PROVE  StoppedIsShown' /\ StopIsOnItsWay'
<1>1. /\ WorkersTypeOK /\ WorkersTypeOK' /\ GuiInv /\ GuiInv' /\ StopInv
      /\ HardwareInv /\ StartedInv
  BY DEF RunInv
<1>2. StoppedIsShown'
  BY <1>1, StillRuns DEF StoppedIsShown
<1>3. StopIsOnItsWay'
  <2> SUFFICES ASSUME daq'.running, stopFor' = run', ~stopLost', ~StopRun
               PROVE  \/ drains' # << >>
                      \/ pendingStop' # {} /\ \A d \in pendingStop' : StopUnderWay(d)'
    BY <1>1, StopIsSent DEF StopIsOnItsWay
  <2>1. /\ daq.running /\ stopFor = run
        /\ OnCommandFinished \/ UNCHANGED <<pendingStop, drains>>
    BY <1>1, StillRuns
  <2>2. ~stopLost
    <3>1. CASE UNCHANGED deviceVars
      BY <3>1 DEF deviceVars
    <3>2. CASE \E d \in Devices : Worker(d)
      BY <3>2 DEF Worker, JobBegins, JobCannotBegin, JobEnds, WorkerEnds, deviceVars
    <3> QED BY <1>1, <3>1, <3>2, DataStep
  <2>3. drains # << >> \/ (pendingStop # {} /\ \A d \in pendingStop : StopUnderWay(d))
    BY <2>1, <2>2 DEF StopIsOnItsWay
  <2>4. pendingStop \subseteq Devices /\ state = "readout"
    BY <1>1, <2>1 DEF StopInv, StoppedIsShown
  <2>5. CASE drains # << >>
    <3>1. drains' = drains \/ drains' = Append(drains, stopFor)
      BY <2>1 DEF OnCommandFinished
    <3>2. drains \in Seq(1 .. run) /\ stopFor \in 0 .. run
      BY <1>1 DEF StopInv
    <3> QED BY <2>5, <3>1, <3>2 DEF GuiInv
  <2>6. CASE drains = << >> /\ OnCommandFinished
    <3>1. pendingStop # {} /\ \A d \in pendingStop : StopUnderWay(d)
      BY <2>3, <2>6
    <3>2. CASE drains' # << >>
      BY <3>2
    <3>3. CASE drains' = << >>
      <4>1. /\ pendingStop' # {} /\ pendingStop' \subseteq pendingStop
            /\ Head(posted).item.job.cmd = "stop_daq" => Head(posted).device \notin pendingStop'
        BY <1>1, <2>4, <2>6, <3>1, <3>3, AnswerIsTaken
      <4>2. ASSUME NEW d \in pendingStop' PROVE StopUnderWay(d)'
        BY <1>1, <2>4, <3>1, <4>1, StopStaysUnderWay
      <4> QED BY <4>1, <4>2
    <3> QED BY <3>2, <3>3
  <2>7. CASE drains = << >> /\ ~OnCommandFinished
    <3>1. /\ pendingStop' = pendingStop /\ pendingStop # {}
          /\ \A d \in pendingStop : StopUnderWay(d)
      BY <2>1, <2>3, <2>7
    <3>2. ASSUME NEW d \in pendingStop PROVE StopUnderWay(d)'
      BY <1>1, <2>4, <2>7, <3>1, StopStaysUnderWay
    <3> QED BY <3>1, <3>2
  <2> QED BY <2>5, <2>6, <2>7
<1> QED BY <1>2, <1>3

\* A run that the user has stopped does not go on for ever unnoticed: while it still
\* runs, an answer or the timer that ends it is on its way, whatever fails, is edited
\* or is clicked meanwhile, unless its stop_daq was dropped with the device.
THEOREM StopReachesTheReadout == Spec => []StopIsOnItsWay
<1>1. Init => StoppedIsShown /\ StopIsOnItsWay
  BY DEF Init, NoDaq, StoppedIsShown, StopIsOnItsWay
<1> QED BY <1>1, OnItsWayStep, RunInvariant, PTL DEF Spec

\* remove() of a device returns to the run control: the thread it waits for can always
\* go on, and has less to do after every step.
THEOREM RunControlNeverBlocks == Spec => []WaitIsNotStuck /\ WaitMakesProgress
  BY RunControlUsesWorkers, WorkersNeverBlockTheGui, WorkersFinishTheirWork, PTL
=============================================================================
