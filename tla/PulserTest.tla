---------------------------- MODULE PulserTest ----------------------------
(***************************************************************************)
(* src/gui/pulser_test.py on top of DeviceWorkers: the sequencer that sets *)
(* the pulser of every present MPSD again and again, with what the user    *)
(* does meanwhile: start and stop, edits of the setup, removal of devices, *)
(* a new, opened or saved setup, and closing the window.                   *)
(*                                                                         *)
(* The devices answer or fail.  A job that failed may have been carried    *)
(* out, because only its response was lost.  The setting of a pulser       *)
(* (channel, position, amplitude) is abstracted to "on".                   *)
(***************************************************************************)
EXTENDS DeviceWorkers, Naturals, FiniteSets, Functions

CONSTANTS Busses,    \* bus numbers of an MCPD
          NumSteps,  \* steps of a cycle: channels * positions * amplitudes
          MaxTests,  \* bound: starts of the test
          MaxEdits   \* bound: other things the user does

\* Labels: Off is "pulser_test:off" and "pulser_off", a generation g > 0 is
\* "pulser_test:step#g".
Off == 0

PulserJobs == [label : 0 .. MaxTests, bus : Busses]

ASSUME PulserAssumption ==
    /\ IsFiniteSet(Devices)
    /\ Busses \subseteq Nat
    /\ IsFiniteSet(Busses)
    /\ NumSteps \in Nat \ {0, 1}
    /\ MaxTests \in Nat
    /\ MaxEdits \in Nat
    /\ Jobs = PulserJobs

VARIABLES
    setup,       \* setup.devices
    enabled,     \* the devices with cfg.enabled
    present,     \* the busses of each device with mpsd.present
    generation,  \* _generation, the number in _step_label
    step,        \* _step
    pending,     \* _pending
    running,     \* _running
    touched,     \* keys of _touched
    timer,       \* _timer is active
    pulsing,     \* hardware: the pulsers that are on, by target and bus
    excused,     \* history: pulsers whose off failed, was dropped or went astray
    redirected,  \* history: the devices redirected in a test, with its number
    lost,        \* history: step jobs of this test that were dropped
    edits        \* number of edits so far

configVars == <<setup, enabled, present, edits>>
testVars == <<generation, step, pending, running, touched, timer>>
hardwareVars == <<pulsing, excused, redirected, lost>>
vars == <<workerVars, configVars, testVars, hardwareVars>>

Init ==
    /\ WorkersInit
    /\ \A d, e \in Devices : target[d] = target[e] => d = e
    /\ setup \in (SUBSET Devices) \ {{}}
    /\ enabled = setup
    /\ present \in [Devices -> (SUBSET Busses) \ {{}}]
    /\ generation \in 0 .. MaxTests
    /\ step = 0
    /\ pending = 0
    /\ running = FALSE
    /\ touched = {}
    /\ timer = FALSE
    /\ pulsing = {}
    /\ excused = {}
    /\ redirected = {}
    /\ lost = 0
    /\ edits \in 0 .. MaxEdits
-----------------------------------------------------------------------------
(* The sequencer.                                                          *)

\* The present MPSDs of the enabled devices.  (An MDLL has no busses.)
TestTargets ==
    {p \in Devices \X Busses : p[1] \in setup \cap enabled /\ p[2] \in present[p[1]]}

\* A set of busses in ascending order.
InOrder(busses) ==
    CHOOSE s \in [1 .. Cardinality(busses) -> busses] :
        \A i, j \in DOMAIN s : i < j => s[i] < s[j]

BussesOf(d, pulsers) == {b \in Busses : <<d, b>> \in pulsers}

\* One job for each of the pulsers, in the order of the busses of a device.
JobsFor(label, pulsers) ==
    [d \in Devices |->
        LET busses == InOrder(BussesOf(d, pulsers))
        IN  [i \in DOMAIN busses |-> [label |-> label, bus |-> busses[i]]]]

NoJobs == JobsFor(Off, {})

\* Mutation: every test uses the same label.
StepLabelConstant(g) == IF g = 0 THEN 0 ELSE 1

\* The label of the steps of test g.
StepLabel(g) == g

\* An item, or its result, is of the current test.
IsStep(item) == item.job.label = StepLabel(generation)

\* The jobs of one step, and how many results it waits for.
SendStep(g) ==
    /\ TestTargets # {}
    /\ Submit(JobsFor(StepLabel(g), TestTargets))
    /\ pending' = Cardinality(TestTargets)

\* Mutation: the index runs past the list.
StepAfterWithoutWrap(s) == s + 1

StepAfter(s) == (s + 1) % NumSteps

Start ==
    /\ ~running
    /\ generation < MaxTests
    /\ generation' = generation + 1
    /\ SendStep(generation + 1)
    /\ step' = StepAfter(0)
    /\ touched' = TestTargets
    /\ running' = TRUE
    /\ lost' = 0
    /\ UNCHANGED <<configVars, timer, pulsing, excused, redirected>>

\* _next_step(), called by the timer.
NextStep ==
    /\ timer
    /\ timer' = FALSE
    /\ SendStep(generation)
    /\ touched' = touched \cup TestTargets
    /\ step' = StepAfter(step)
    /\ UNCHANGED <<configVars, generation, running, hardwareVars>>

\* Mutation: switches off what is configured now.
OffJobsConfigured == IF running THEN JobsFor(Off, TestTargets) ELSE NoJobs

\* What stop() submits.
OffJobs == IF running THEN JobsFor(Off, touched) ELSE NoJobs

\* What stop() leaves behind; it does nothing when no test is running.
Stopped ==
    /\ running' = FALSE
    /\ timer' = FALSE
    /\ touched' = {}
    /\ UNCHANGED <<generation, step, pending>>

Stop ==
    /\ running
    /\ Submit(OffJobs)
    /\ Stopped
    /\ UNCHANGED <<configVars, hardwareVars>>

\* _next_step() finds no present MPSD any more.
NoTargetsLeft ==
    /\ timer
    /\ TestTargets = {}
    /\ Stop

\* Mutation: only a step that succeeded is counted.
OnFinishedIfOk ==
    /\ Deliver
    /\ LET counts == Head(posted).ok /\ Head(posted).item.job.label = StepLabel(generation)
                     /\ pending > 0
       IN  /\ pending' = IF counts THEN pending - 1 ELSE pending
           /\ timer' = (timer \/ (counts /\ pending = 1 /\ running))
    /\ UNCHANGED <<configVars, generation, step, running, touched, hardwareVars>>

\* A result reaches the GUI thread, whether it is an error or not.
OnFinished ==
    /\ Deliver
    /\ LET counts == IsStep(Head(posted).item) /\ pending > 0
       IN  /\ pending' = IF counts THEN pending - 1 ELSE pending
           /\ timer' = (timer \/ (counts /\ pending = 1 /\ running))
    /\ UNCHANGED <<configVars, generation, step, running, touched, hardwareVars>>
-----------------------------------------------------------------------------
(* The user.                                                               *)

Edit ==
    /\ edits < MaxEdits
    /\ edits' = edits + 1

\* The button is enabled while no test is running.
AllOff ==
    /\ Edit
    /\ ~running
    /\ TestTargets # {}
    /\ Submit(JobsFor(Off, TestTargets))
    /\ UNCHANGED <<setup, enabled, present, testVars, hardwareVars>>

\* Checkboxes of the device tree, or the result of a bus scan.
ToggleEnabled(d) ==
    /\ Edit
    /\ GuiIsFree
    /\ d \in setup
    /\ enabled' = IF d \in enabled THEN enabled \ {d} ELSE enabled \cup {d}
    /\ UNCHANGED <<workerVars, setup, present, testVars, hardwareVars>>

TogglePresent(d, b) ==
    /\ Edit
    /\ GuiIsFree
    /\ d \in setup
    /\ present' = [present EXCEPT ![d] = IF b \in @ THEN @ \ {b} ELSE @ \cup {b}]
    /\ UNCHANGED <<workerVars, setup, enabled, testVars, hardwareVars>>

\* The configuration is pointed to another device: what the test had switched on
\* at the old target will not be reached by stop().
Redirect(d, t) ==
    /\ Edit
    /\ d \in setup
    /\ t # target[d]
    /\ EditTarget(d, t)
    /\ LET known == BussesOf(d, touched)
       IN  /\ excused' = excused \cup {<<target[d], b>> : b \in known}
           /\ redirected' = redirected \cup {<<d, generation>> : b \in known}
    /\ UNCHANGED <<setup, enabled, present, testVars, pulsing, lost>>

\* DevicePanel._remove_device().
RemoveDevice(d) ==
    /\ Edit
    /\ d \in setup
    /\ SubmitAndRemove(NoJobs, {d})
    /\ setup' = setup \ {d}
    /\ UNCHANGED <<enabled, present, testVars, hardwareVars>>

\* New, Open and Save As load a setup into the UI: the test is stopped and every
\* device of the old setup is removed.  Save As then shows the same devices.
LoadSetup(devices) ==
    /\ Edit
    /\ SubmitAndRemove(OffJobs, setup)
    /\ setup' = devices
    /\ Stopped
    /\ UNCHANGED <<enabled, present, hardwareVars>>

Pulser(item) == <<item.target, item.job.bus>>

\* The offs that d has not carried out yet.
OffsOf(d) == {item \in Range(Pending[d]) : item.job.label = Off}

\* History: a test that was stopped before the window is closed is not drained.
Undrained ==
    excused' = IF running THEN excused
               ELSE excused \cup UNION {{Pulser(i) : i \in OffsOf(d)} : d \in Devices}

\* Mutation: shutdown() never drains.
CloseWithoutDrain ==
    /\ SubmitAndShutdown(OffJobs, FALSE)
    /\ Stopped
    /\ Undrained
    /\ UNCHANGED <<configVars, pulsing, redirected, lost>>

\* closeEvent(): drains if a test was running.
Close ==
    /\ SubmitAndShutdown(OffJobs, running)
    /\ Stopped
    /\ Undrained
    /\ UNCHANGED <<configVars, pulsing, redirected, lost>>
-----------------------------------------------------------------------------
(* The worker threads, with what their jobs do to the pulsers.             *)

\* An on of a device that was redirected in its test may be beyond the reach of
\* stop().
Carried(d, item) ==
    IF item.job.label = Off
    THEN /\ pulsing' = pulsing \ {Pulser(item)}
         /\ excused' = IF closing = "drop" THEN excused ELSE excused \ {Pulser(item)}
    ELSE /\ pulsing' = pulsing \cup {Pulser(item)}
         /\ excused' = IF <<d, item.job.label>> \in redirected
                       THEN excused \cup {Pulser(item)} ELSE excused

NotCarried(item) ==
    /\ excused' = IF item.job.label = Off THEN excused \cup {Pulser(item)} ELSE excused
    /\ UNCHANGED pulsing

JobBegins(d) ==
    /\ BeginJob(d)
    /\ UNCHANGED <<configVars, testVars, hardwareVars>>

JobCannotBegin(d) ==
    /\ ConnectThrows(d)
    /\ NotCarried(Head(queue[d]))
    /\ UNCHANGED <<configVars, testVars, redirected, lost>>

JobEnds(d, ok) ==
    /\ EndJob(d, ok)
    /\ \/ Carried(d, active[d])
       \/ ~ok /\ NotCarried(active[d])
    /\ UNCHANGED <<configVars, testVars, redirected, lost>>

\* The places of the steps of the current test in a sequence of items.
StepsIn(items) == {i \in DOMAIN items : IsStep(items[i])}

\* History: offs dropped by remove() are excused, those of a shutdown are not.
WorkerEnds(d) ==
    /\ ThreadEnds(d)
    /\ excused' = IF closing # "no" THEN excused
                  ELSE excused \cup {Pulser(i) : i \in OffsOf(d)}
    /\ lost' = lost + Cardinality(StepsIn(queue[d]))
    /\ UNCHANGED <<configVars, testVars, pulsing, redirected>>

WorkerQuits(d) ==
    /\ OnQuit(d) \/ RemoveNext(d)
    /\ UNCHANGED <<configVars, testVars, hardwareVars>>

GuiGoesOn ==
    /\ WaitReturns
    /\ UNCHANGED <<configVars, testVars, hardwareVars>>

Worker(d) ==
    \/ JobBegins(d)
    \/ JobCannotBegin(d)
    \/ \E ok \in BOOLEAN : JobEnds(d, ok)
    \/ WorkerQuits(d)
    \/ WorkerEnds(d)

User ==
    \/ Start
    \/ Stop
    \/ AllOff
    \/ Close
    \/ \E d \in Devices :
          \/ ToggleEnabled(d)
          \/ RemoveDevice(d)
          \/ \E b \in Busses : TogglePresent(d, b)
          \/ \E t \in Targets : Redirect(d, t)
    \/ \E devices \in {setup, {}} : LoadSetup(devices)

Next ==
    \/ User
    \/ NextStep
    \/ NoTargetsLeft
    \/ OnFinished
    \/ GuiGoesOn
    \/ \E d \in Devices : Worker(d)

\* Transactions return, threads are scheduled, the GUI's event loop runs.
Fairness ==
    /\ \A d \in Devices : WF_vars(Worker(d))
    /\ WF_vars(OnFinished)
    /\ WF_vars(NextStep \/ NoTargetsLeft)
    /\ WF_vars(GuiGoesOn)

Spec == Init /\ [][Next]_vars

FairSpec == Spec /\ Fairness
-----------------------------------------------------------------------------
TypeOK ==
    /\ WorkersTypeOK
    /\ setup \subseteq Devices
    /\ enabled \subseteq Devices
    /\ present \in [Devices -> SUBSET Busses]
    /\ generation \in 0 .. MaxTests
    /\ step \in 0 .. NumSteps - 1
    /\ pending \in 0 .. Cardinality(Devices \X Busses)
    /\ running \in BOOLEAN
    /\ touched \subseteq Devices \X Busses
    /\ timer \in BOOLEAN
    /\ pulsing \subseteq Targets \X Busses
    /\ excused \subseteq Targets \X Busses
    /\ redirected \subseteq Devices \X (1 .. MaxTests)
    /\ lost \in Nat
    /\ edits \in 0 .. MaxEdits

\* The results of the current test that are still to come.
InWorkers == UNION {{d} \X StepsIn(Pending[d]) : d \in Devices}

InPosted == {i \in DOMAIN posted : IsStep(posted[i].item)}

Outstanding == Cardinality(InWorkers) + Cardinality(InPosted)

\* While a test runs, _pending is exactly what is on its way or was dropped: a
\* late result of the test before it, of an off or of another command is never
\* taken for a step, so steps never overlap and the dwell time is kept.
PendingIsOutstanding ==
    /\ running => pending = Outstanding + lost
    /\ timer => running /\ pending = 0

\* A pulser that the test has switched on is switched off again: stop() still
\* knows of it, or its off is on the way, or that off failed, was dropped with a
\* removed device, or its device was redirected.  No other way out, and none of
\* these by closing the window during a test.
PulsersEndOff ==
    \A p \in pulsing \ excused :
        \/ running /\ \E d \in Devices : target[d] = p[1] /\ <<d, p[2]>> \in touched
        \/ \E d \in Devices : p \in {Pulser(i) : i \in OffsOf(d)}

\* A running test takes its next step, whatever its jobs return, unless a job was
\* dropped with a removed device.
StepsGoOn ==
    \A s \in 0 .. NumSteps - 1 :
        (running /\ step = s) ~> (step # s \/ ~running \/ lost > 0)

\* The GUI thread does not wait for ever, neither in remove() nor in shutdown().
GuiIsNotStuck == waiting # {} ~> waiting = {}
=============================================================================
