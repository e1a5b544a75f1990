# A TLA+ verification of mesytec-mcpd

mesytec-mcpd is the driver library, DAQ and GUI for the neutron detector controllers MCPD-8 (with
MPSD-8+ and MSTD-16 modules on its busses) and MDLL. A program controls such a device with
request/response commands over UDP, receives its data packets on another UDP socket, records them
in a listfile, and accumulates statistics and histograms. This directory holds TLA+ modules
translated from the C++ and Python sources, TLC configurations for them, and proofs for TLAPS.

## The system

| Component | State | Operations | Interacts with |
|---|---|---|---|
| Packet sources and listfile (`packet_io`) | socket, file position, 1 MiB write buffer | `read`, `write`, `close`, `is_valid_data_packet` | called by the readout worker |
| Readout worker (`readout_worker`) | `quit_`, `running_`, counters, exception, source, listfile | `start`, `stop`, `loop`, `rethrowException` | one thread of its own; calls the consumers |
| Source statistics (`source_stats`) | one `SourceStats` per address and device id | `consume`, `reset`, `clear` | a consumer; read and reset by any thread |
| Histogrammers (`histogrammers`) | histograms per source | `consume`, `clearHistograms`, `clear` | consumers |
| Event decoder (`mcpd_core`) | none | `get_event`, `decode_event`, 48 bit conversions | histogrammers, output |
| Daq (`daq`) | current worker, port, three consumers | `startReadout`, `startReplay`, `stop`, `clear...` | owns all of the above |
| Commands (`mcpd_functions`, `mdll_functions`) | a socket | `command_transaction`, about 30 commands | device |
| `McpdConnection`, `find_mcpd_id` (`mcpd_py_commands`) | id of the device | one method per command | commands |
| Python workers (`mcpd_py_lib`) | worker, Python queue, mutex | `start`, `stop`, getters | readout worker, GIL, a Python reader |
| GUI command threads (`gui/device_worker`) | a thread, an event queue and a connection per device | `submit`, `remove`, `shutdown` | connections; results go to the GUI thread |
| GUI run control (`gui/main_window`, `gui/stats`) | run state, pending stop, timers, last snapshot | start, stop, continue, replay, statistics timer | Daq, command threads, console |
| GUI pulser test (`gui/pulser_test`) | step, generation, pending results, touched pulsers | start, stop, next step, result | command threads |
| `util::Queue` | deque, unfinished tasks | `push`, `pop`, `task_done`, `join` | nothing but its own test |
| CLI, bindings, views, logging, vendored libraries | none of interest | | |

What makes it hard: `stop()` comes at any point of the worker's loop; every call in the loop can
throw, and the run must still end in an orderly way; clients poll two atomics and three counters
with no other synchronisation; UDP loses, copies and reorders packets, and the loss estimate sees
16 bits of the truth; commands are repeated after a timeout although neither request nor response
has a serial number; runs follow each other on the same consumers and the same file; Python threads
meet a mutex, the GIL and a full queue at once; the GUI acts on answers that come seconds later, or
never, to questions the user has forgotten.

What makes each component correct:

* worker: nothing reaches a consumer that was not recorded and counted first; every valid packet
  reaches every consumer once and in order; consumers are told once of the end, before it is
  visible; errors are not lost; `stop()` returns.
* statistics: received plus lost is what was sent, where the 16 bits allow it, and no loss hides
  behind a duplicate.
* commands: a normal return means that the device did it; client and device agree on id, registers
  and place in the network; every call returns.
* Daq: runs accumulate, replays reproduce, resources are released by `stop()`.
* Python workers: no packet disappears without a trace; queue, GIL and mutex never block each other.
* decoder: no bit of an event is lost or used twice, no index leaves its packet or histogram.
* command threads: requests of a device are answered in order, each once, at the target they were
  made for; the GUI never waits for ever.
* run control: the master has its run id before it starts; a run is counted whole; a run that is
  stopped ends; rates compare like with like; GUI and Daq agree.
* pulser test: steps neither overlap nor stall; pulsers end switched off.

## Modules

`PacketIO` reduces a packet to the fields the validity test reads. Its data word constants are those
of the code, so that packets keep their real sizes. A packet read from a listfile has the byte count
of a full record, whatever the datagram had.

`PacketFanout` is the abstract promise of a readout to its consumers: a log, who has handled which
position of it, and whether the run is open, closed or failed. It knows no threads or errors.

`ReadoutWorker` is one `ReadoutWorker` object. The variable `pc` is the position of the worker thread,
`ctl` that of the controlling thread inside `start()` or `stop()`; there is one step per access to
state that another thread can see. `file` and `disk` separate what the stream accepted from what the
disk has: the stream may flush at any write, and a failing write or close leaves any part of it.
`log`, `consumed`, `finished` and `cause` are history. Every call that can throw has a throwing
variant: `ReadThrows`, `WriteThrows`, `ConsumeThrows`, `SpawnThrows`, `FinishThrows`; the last one is
logged inside the loop over the consumers, so the others are still told. The destructor calls `stop()`
and is covered by `RequestStop`.

`SourceStats` is `SourceStatsCollector` with the devices and the network as its environment. A device
numbers its packets 0, 1, 2, ...; the packet carries the number modulo `Modulus`. `Consume(s, n)` may
choose any packet sent so far, and so loses, repeats and reorders them. `InWindow` is the assumption
without which 16 bits say nothing: no packet comes more than half the range late and the network
never loses the whole range in a row. `hist` is the truth the estimate is compared with.

`EventDecoder` has no state: `decode_event()`, the 48 bit conversions, the places of an event's words
in a packet, and the bins it counts in, as functions. Shifts and masks are divisions and remainders.

`CommandTransaction` is one command socket: the loop of `command_transaction_()`, commands that stand
for the kinds there are (no state, id, register write and read, ignored error flag, network setup),
the id that `McpdConnection` keeps, and `find_mcpd_id()`. The device is the one of
`test/fake_mcpd_device.py` with its id enforced; a network setup may move it to another address,
from where it no longer hears this socket. The variable `setup` chooses the program and one of two
networks. "prompt": datagrams are lost, but those that arrive do so before the receive timeout.
"slow": datagrams are delayed for any time and overtake each other; one that is never delivered is
lost. `RemoteCall` is what all of it amounts to on a prompt network: one call at a time, which takes
effect while it is in progress or not at all, and which has taken effect if it succeeds.

`Daq` extends `ReadoutWorker`: its variables are those of the worker that `worker_` points to, and the
new ones are what outlives a worker: port, listfile, what each consumer has accumulated, a reset or
clear call in progress. `startReadout()` and `startReplay()` are single steps, because no thread of the
Daq is left when `isRunning()` is false. The order inside them is kept: the new source is bound and
the new listfile truncated before the old worker closes its own (`PortIsFree`, `FlushedInto`).

`PyWorker` is `Readout` and `Replay` for Python. `pc[t]` is where a calling thread is; the two locks are
the variables `gil` and `mutex`, and there is one step per piece of code between two operations on
them. The reading thread is reduced to what the tap notices of it; the test of `quit_` (`CheckQuit`) and
the return of `read()` are steps of their own, so a thread that is inside `read()` when `stop()` sets
`quit_` may still take one packet. Each operation of `queue.Queue` is a step that needs the GIL.

`JobService` is what the command threads promise the GUI: per device, requests are answered in order
and once each; only those of a device that is being left may be dropped. `DeviceWorkers` is
`gui/device_worker.py`: event queues as sequences, an item as a job with the target that was captured
when it was submitted. It has no `Next` of its own; two modules extend it with jobs, devices and the
rest of the GUI. `PulserTest` adds the sequencer, the pulsers of the devices, and everything the user
can do meanwhile: edits, removal, New/Open/Save As, closing the window. `RunControl` adds the slots of
the main window, timing master and slaves, the statistics timer, the console, and the Daq as the GUI
sees it (running, port, exception). `todo` holds the calls that `start_run()` has still to make,
because packets arrive between them. The user may redirect a device to another target at any click
(`Redirect`), and a command acts on the hardware at the other end of the connection it is executed on
(`Carried`); two entries of the setup are assumed to be two devices. The console holds the Daq itself:
it can stop and start it, and reset its counts, of which `StatsTracker` is not told.

`DaqProofs` (about the worker and the Daq), `SourceStatsProofs`, `CommandTransactionProofs`,
`DeviceWorkersProofs`, `RunControlProofs`, `PulserTestProofs`, `PyWorkerProofs` and `EventDecoderProofs`
hold the theorems. The `MC...` modules give constants their values. Definitions marked as mutations in
the modules are variants with a plausible bug; no specification uses them, and each is there to show
that a property notices that bug.

## Runs

| Run | Shows | Bounds |
|---|---|---|
| `readout_worker` | Properties of every interleaving of worker and controller, with errors at every call; refinement of `PacketFanout`; `stop()` returns and a replay ends | 3 packets from 3 kinds (valid, truncated, inconsistent header), 2 consumers, timeouts counted up to 1 |
| `listfile_on_disk` | A recording may be shorter than the counters say, without an exception (finding) | 2 packets, 1 consumer |
| `source_stats` | Loss accounting is exact without jumps and never hides a loss | numbers modulo 6; a source with 8 packets of which 5 are counted, one with 2; 1 restart |
| `stats_restart` | A restart late in the range is counted as loss (finding) | numbers modulo 8, 8 packets |
| `commands` | What the retry loop guarantees on both networks; what client and device agree on; refinement of `RemoteCall` on the prompt network; every call returns | ids 0..2, 1 register with 2 values, 2 attempts, 3 calls (prompt) or 2 (slow) |
| `find_id` | `find_mcpd_id()` may return an id no device has (finding) | the same |
| `daq` | Runs accumulate, whole recordings are reproduced, the port follows the readout | 2 workers, 2 packets of 2 kinds, 3 consumers, fixed port |
| `replay_equals_live` | A truncated datagram is valid on replay (finding) | the same |
| `pulser_test` | Steps neither overlap nor stall, pulsers end off, jobs reach their targets; refinement of `JobService`; the GUI never waits for ever | 1 device with 2 tests and 2 edits, or 2 devices with 1 test; 1 bus, 2 steps |
| `run_control` | Run id before start, also for a device that is redirected; runs counted whole, rates of one count, stopped runs end, GUI and Daq agree | 1 device with 3 clicks, or master and slave with 2; 2 targets |
| `stop_ends_next_run` | A late answer to stop_daq ends the next readout (finding) | the same |
| `py_worker` | No packet disappears, nobody waits for ever | 2 callers with 3 calls, 1 reader, queue of 1, 2 runs of 2 packets, Readout or Replay |

Why these bounds are enough. Three packets put a valid one before and after an invalid one, and two
consumers let one throw between them; the worker keeps nothing else from one packet to the next.
Timeouts saturate so that a worker can wait for ever, which liveness needs. Six buffer numbers are the
smallest range with a gap that is a loss and not a jump (half the range is 3), and 8 packets wrap it;
five received packets suffice for a gap, a late packet, a duplicate and their successors. Two attempts
suffice to leave an answer behind and two calls to take it for another one's; a third call is added
where nothing is left behind. A connection starts with id 1, because it treats all ids alike. Two
workers suffice for every pair of runs, because the Daq remembers of earlier runs only the consumers
and the file. A queue of 1 is full after one packet, and with two callers one can hold what the other
waits for. Two tests let results of the first be late for the second; two devices make a step wait
for both. Three clicks suffice for a run, its stop and the next run, or for a run, a
device that is redirected while its commands are queued, and a run there; two targets are the one a
command was meant for and another one.

The prompt and the slow network are separate on purpose. `OkMeansExecuted` is all that the command
number can give on a slow network. `ImplementsRemoteCall`, `IdsAgree`, `BeliefsHold` and `ProbeFindsDevice` are
stated for a prompt one, and `find_id` shows what happens outside of it. `SetGain` is exempt, as the
code ignores its error flag, and so is a network setup that ended in a timeout: the code takes it for
success, which is right if the device has moved and wrong if the request was lost.

`readout_worker`, `run_control` and the `daq` runs check deadlock; a stopped worker can always be
stopped again, and the statistics timer never ends. The others do not, since there the system may
really stop: a program has made its calls, or the window is closed. Being stuck earlier is what the
liveness properties exclude.

Fairness. `ReadoutWorker!FairSpec`: the operating system runs the worker thread, and each call it makes
returns, `read()` after its timeout at the latest; the controlling thread goes on inside `start()` and
`stop()`. Nothing makes it call either. No fairness is assumed of single outcomes: a socket may time
out for ever. `CommandTransaction!Fairness`: a call that was begun goes on, and what is on a prompt
network is delivered or lost. `CallsReturn` does not rest on any answer arriving.
`PyWorker!Fairness`: threads run, and a lock that is free is taken by one who waits for it. Weak fairness
of each thread is enough, since the bounded number of calls ends every competition for a lock; an
endless stream of callers that starves another one is excluded, as CPython's GIL and the mutex are not
known to starve. Nothing makes Python call, read or fail, a packet arrive or a source end: of a put, only a
packet that is taken, counted as dropped or refused by a queue that was shut down is owed.
`PulserTest!Fairness` and `RunControl!Fairness`: transactions return (`CallsReturn` shows why), threads
are scheduled, and the event loop delivers events and timers. No fairness of the user, the network or
the reading thread.

## Findings

Five places where the code does something else than a comment, a tooltip or a test of the repository
says; each is the counterexample of a run and is quoted in `PROJECT.json`: `listfile_on_disk`
(`readout_worker.cc:48`), `stats_restart` (`source_stats.h:40`), `find_id` (`mcpd_functions.cc:87`),
`replay_equals_live` (`readout_worker.cc:100`), `stop_ends_next_run` (`main_window.py:572`).

Noticed on the way and not given a run: `localPort_` is cleared by `stop()` only, not when a readout ends
by itself and not when a replay begins, although `daq.h:41` says "Bound data port while a readout is active, 0
otherwise." (`PortFollowsReadout` states the half that holds); `set_ip_address_and_data_dest()` takes
any timeout for success, also if the address is kept and an answer was due, although
`mcpd_py_commands.h:14` says that failed transactions raise (`TakesErrors` in the model);
`test_readout_replay.py:95` asserts `not is_running()` right after ShutDown, which is raised before
`running_` is cleared.

Hazards that are modelled but that no property rules out, each with its reason in `PROJECT.json`: what
is left of an old listfile stream is flushed into a new recording of the same name (`FlushedInto`; such
a recording does not count as whole); `clearSources()` lets a packet be in one consumer and not in
another (`RunsAccumulate` is about each for itself); a network setup that ended in a timeout leaves the
place of the device unknown (`BeliefsHold` excepts it); a pulser test waits until it is stopped when a
device of the current step is removed (`StepsGoOn` excepts it), and offs are dropped when a setup is
loaded (`PulsersEndOff` excepts them); after a reset in the console one rate is computed from two counts
(`RatesOfOneCount` excepts it).

## Proofs

For all packets, any number of consumers, and all bounds (`WorkerAssumption`):

* `WorkerTypeCorrect` - `TypeOK`.
* `WorkerFinishesConsumers`, `WorkerHoldsResources`, `WorkerReportsErrors` - the three invariants that
  relate `pc` to what stop() and other threads see. None is inductive. The strengthening (`ControlInv`)
  ties `pc` to `running`, `cause`, `exception` and `finished`: while `pc` is "finish", exactly the
  consumers before `next` were told, and the cause of the end is set; before that, no consumer was told.
* `WorkerWritesAhead` - `WriteAhead`, from `DataInv`, which says at each `pc` how far listfile, counters and
  consumers are behind `log`: one packet behind between read and write, equal between two packets, and
  inside the loop over the consumers exactly those before `next` have the current packet.
* `WorkerDeliversInOrder` - `NoPacketAfterFinished`; only `Consume` changes what was consumed, and then
  `DataInv` bounds what the consumer had before.
* `WorkerRunIsComplete` - `RunIsComplete`, with one more invariant (`CountInv`): the valid packets are the
  counted ones without the invalid ones.
* `WorkerImplementsFanout` - the worker implements `PacketFanout`. Reading is `Accept`, a call of `consume()`
  is `Deliver`, leaving the loop is `Close`, an exception is `Fail`, everything else stutters.
* `WorkerStopsWithinOnePass` - what `StopReturns` needs besides fairness. `quit_` is set whenever stop()
  joins (`QuitInv`), and then each step of the thread lowers `StagesToStop(pc)`, or stays in a loop over
  the consumers and goes on with the next one.
* `ReplayGoesThroughTheFile` - the same for `ReplayEnds`: a step reads one of the records that are left,
  lowers `StagesToRead(pc)`, or goes on with the next consumer.

For the same, packets not longer than a DataPacket, and any number of runs (`DaqAssumption`):

* `DaqTypeCorrect`, `DaqPortFollowsReadout`, `DaqRunsAccumulate`, `DaqReplayReproduces` - a step of the Daq
  is a step of its worker, starts a new worker for which the worker's invariants hold again, or calls
  the consumers between two runs. `FileInv` ties the listfile to the stream of the worker that writes it
  and to what a replay has read of it. `AccountInv` says what a consumer holds: of the current run what
  the worker has handed it, of each earlier clean run what was valid in it.

For every number of sources, every modulus of at least 2 and all bounds (`StatsAssumption`):

* `StatsTypeCorrect` - `TypeOK`.
* `JumpFreeCountExact` - by the invariant that the stored number is that of the latest packet modulo
  `Modulus`: if the step is no jump, `Distance` is the true difference, by `InWindow`.
* `LossNeverHidden` - from the same baseline; a jump is a step that goes back or stays, or a long burst.

Both rest on a few lemmas about `%` that are proved first.

For any ids, addresses, values, attempts and calls (`CommandTransaction`'s assumption):

* `CommandTypeCorrect` - `TypeOK`.
* `CommandOkIsExecuted` - `OkMeansExecuted`, on both networks, from `ExecutedInv`: every response that is on
  its way or was taken belongs to a request that the device carried out.
* `CommandAnswerIsOwn` - from `FlightInv` and `AnswerInv`: on a prompt network at most one datagram is
  under way, it belongs to the last attempt, and nothing is left when the call returns.
* `CommandImplementsRemoteCall` - the refinement, from the same. Sending, retrying and losing datagrams
  stutter; a request that the device carries out is `TakeEffect`, the end of the loop `Succeed` or `Fail`.
  `CallsBegun` says that no request is of a call still to come, so that each begins without effect.
* `CommandIdsAgree`, `CommandBeliefsHold`, `ProbeFindsTheDevice` - `IdInv`, `BeliefInv` and `ProbeInv`
  follow the one datagram: what the client believes is so, or the call in progress has just changed it and its
  response is under way or lost. `ProbeInv` says that the probe has not gone past the device's id.
* `CallsMakeProgress` - what `CallsReturn` needs besides fairness, on both networks: each step during a
  call lowers `StepsLeft`, the sends and receives that its attempts still allow, or takes one of the
  finitely many datagrams off the way. A stray datagram uses up an attempt, so it counts too.

For any devices, targets and jobs, whatever uses the threads (`WorkersAssumption`; the theorems are
about `WorkersSpec`, where any jobs are submitted at any time):

* `WorkersTypeCorrect`, `WorkersUseTheirTarget` - an open connection leads to the target of the job that
  is executed on it.
* `WorkersImplementJobService` - the refinement. It needs that a device without a thread has neither jobs
  nor a connection (`NothingWithoutThread`), and that a thread quits only if it was asked to
  (`QuitIsAsked`): only so is a drop always one of a device that is being left.
* `WorkersNeverBlockTheGui`, `WorkersFinishTheirWork` - what `GuiIsNotStuck` needs besides fairness. While
  `remove()` or `shutdown()` waits, a thread it waits for can take a step that does not need the GUI
  (`WaitIsNotStuck`); and every step takes work from a thread, counted as queued jobs, the one that
  executes, the quit it has not been told, and itself, and adds none to another (`WaitMakesProgress`).

For any devices and targets and any number of clicks (`RunAssumption`), on top of those:

* `RunControlTypeCorrect` - `TypeOK`; every step of the run control is a step of the command threads or
  leaves them alone (`StepIsWorkersStep`), so their types carry over.
* `StartedDeviceKnowsRunId` - `DeviceInv`, for each device and target: the run numbers in the items of a
  device, executing and queued, do not fall (`InOrder`) and none is above the current run; before every
  start_daq for a target, what is there knows its number, will be told it, or the set_run_id was lost
  (`ToldBeforeStart`). Neither roles nor targets change between the two submissions, since all clicks
  wait for `todo` to be empty; after them they may, because each item keeps its target and is executed
  on a connection to it (`JobReachesItsTarget`, part of the same induction).
* `RunsAreCounted` - `StartedInv` and `NotStarted`: as long as `start_run()` goes on, no start of its run is
  queued, executing or carried out, so no packet of the run can be there to be cleared.
* `RatesAreOfOneCount` - a snapshot of counts that were reset exists only while `stats_tracker.reset()` is
  the next call (`RatesInv`); one of counts that the console has reset is told apart ("behind").
* `StopReachesTheReadout` - what `StopRunEnds` needs besides fairness: as long as the run that was stopped
  still runs, the timer that ends it runs, or the stop_daq of every device that the GUI waits for is
  queued, executing or answered (`StopIsOnItsWay`). It is inductive with `StoppedIsShown`: the run is
  shown as a readout, since with another state the last answer would start no timer.

* `RunCommandsReachTheirTarget` - a command of a run is executed on a connection to the target its device
  had when it was submitted, however the user redirects it while the command is queued or executed.
* `RunControlImplementsJobService`, `RunControlNeverBlocks` - what is proved of the command threads, for
  this use of them.

For any finite set of devices and busses, at least two steps per cycle, and any number of tests and edits
(`PulserAssumption`), on top of the same:

* `PulserTypeCorrect`, `PulserJobsReachTheirTarget`, `PulserTestImplementsJobService` - as above; the count
  `_pending` stays in range because a step has no more jobs than there are pairs of a device and a bus.
* `StepsDoNotOverlap` - `PendingIsOutstanding`, a sum over the devices of what is queued, executing,
  posted or dropped. It is inductive with `TestInv` (what may be touched or timed without a test) and
  `LabelsKnown`: no job carries the label of a test that is still to come, so a new test starts with
  nothing outstanding, however much of the old ones is under way. The lemmas say what one submission,
  one answer and one dropped queue change in the count of one label.
* `PulsersAreSwitchedOff` - `PulsersEndOff`, from `Accounted`. `PulsersEndOff` alone looks at pulsers that are
  on and forgets the ons that are still queued: `OnsAccounted` says of each of them that the sequencer
  still knows its bus, that an off for the same pulser is behind it in the queue, or that the device
  was redirected. `DropIsExcused` says that when a closed window drops jobs, all that were on were
  excused before. `QuitIsAsked` of the command threads excludes any other drop.
* `PulserTestGoesOn` - what `StepsGoOn` needs besides fairness: a running test has its timer set or results
  outstanding (`StepIsTimed`). What is outstanding is counted exactly, so that if nothing was dropped there
  is an answer posted or a job pending, at a device whose thread can go on (`TestIsNotStuck`).
* `PulserTestNeverBlocks` - the two results about waiting for the threads, for this use of them, closing the
  window in the middle of a test included.

For any queue size, number of threads and bounds (`PyAssumption`):

* `PyTypeCorrect` - with `IsFull` tested by `PutItem`, no queue exceeds its size.
* `PyNothingIsLost` - `LockInv`: who is at a place between lock and unlock holds the mutex, so only one caller
  is there. `StartInv`: a caller between the test of `running_` and the new worker finds the thread over.
  `FreshInv`: queues that are still to come are open and empty. `TapInv`: the tap's queue is the current
  one, and its packets and those taken from it are numbered upwards and add up.
* `PyNobodyIsStuck` - the part of `NobodyWaitsForEver` that needs no fairness: as long as a method has not
  returned, the guard of a step of some method or of the reading thread holds, and `get()` returns from
  the queue of a run that is over once it has the GIL. The guards are written out, as ENABLED is out of
  the prover's reach. `GilInv`: who holds the GIL does not wait. `StopInv`: who waits for the thread has
  shut down the queue before and set `quit_`, so neither a full queue nor the loop can keep it.
  `ShutInv`: the queues of all runs that are over are shut down.
* `PyStopProgresses` - while a caller waits for the thread, each step of the thread lowers `StepsToEnd`, and
  the worker stays the one that is waited for, since the caller holds the mutex (`JoinProgress`). At most
  the packet of the `read()` the thread is already in is still taken; none is added to the queue, since
  the queue was shut down before `quit_` was set.

`EventDecoder` is proved and not model-checked: TLC's integers have 32 bits, an event has 48.
`ValuesRoundTrip`, `EventsAreInPacket`, `FieldsFitTheirTypes`, `DecodingIsLossless`, `BinsAreInRange`,
`BinsAreDistinct` are statements about all values there are.

Only model-checked: the liveness properties `StopReturns`, `ReplayEnds`, `CallsReturn`, `StepsGoOn`,
`GuiIsNotStuck`, `StopRunEnds` and `NobodyWaitsForEver`, as fairness and ENABLED are out of the prover's
reach. Proved is the part of each that needs neither: that somebody who has to act can act, with the guards
written out, or that each step leaves less to do, or both. That such steps are taken, and that a measure
which falls ends, is left to TLC. So is all of the liveness in `GuiFollowsDaq`. Every invariant, action
property and refinement that a passing run checks is a theorem as well.

## Not modelled

`PROJECT.json` lists every component with its status. Of the roughly 90 000 lines of Python in the
repository, 87 000 are `gui/resources.py`, icons as byte strings that the Qt resource compiler has
generated. `util::Queue` is used by nothing but its own test. Widgets, plots, parameter trees, argument
parsing, bindings, logging, output formats and vendored code keep no state that the properties are
about.

Within the modelled components:

* readout: formatting and logging; byte and event counts; socket options; a fragment at the end of a
  listfile (the reader ignores it, so records are the unit); exceptions that do not derive from
  `std::exception`, which end the program.
* commands: the values that single commands carry; `close()`, `set_mcpd_id()`; a response too short for
  its command (`protocol_error`), and the length check of a bus scan, as the device sends neither; the
  checksum, which the client computes and does not test.
* Python workers: the values of the counters; a std::thread that cannot be created (see
  `ReadoutWorker!SpawnThrows`).
* GUI: datagrams that are delayed beyond a command (see `CommandTransaction`, slow network); `closeEvent`
  in `RunControl` (it is in `PulserTest`); Reset DAQ and the other command buttons, which submit one job
  like those modelled; how many posted events a Qt event loop still delivers after `quit()` is left
  open, as Qt leaves it; results that arrive after the window was closed have no receiver; the reuse
  of a Python `id()` for a new device configuration.
* decoder: the sum of packet and event time, text output.

## Plan

What is left, in this order:

1. `DeviceWorkers` composed with `RemoteCall` instead of a job that succeeds or fails.
2. `RunControl` with a closed window.
