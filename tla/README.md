# Verification of IVA (deepstream-IVA)

IVA is a C++ program that decodes video streams, runs a detection model on them
with NVIDIA DeepStream and GStreamer, draws the detections on the video and
publishes them to Kafka. This directory holds TLA+ models of it, the TLC runs
that check them and TLAPS proofs about them. Paths in this file are below
`src/iva/` unless they say otherwise.

## 1. Inventory

### Threads

| thread | made by | runs |
|---|---|---|
| main | the process | `main`, `Application::start`: license, configuration, start of the modules, then a loop that sleeps while `app_state` is `LIVE` |
| pipeline | `Pipeline::_pool` (1 worker) | `Pipeline::_run_pipeline`: the GLib main loop, teardown, `STOP_MODULES` |
| streaming | GStreamer | the pad probes: `Processing::probe_callback` on the src pad of `nv_tracker`, `Processing::osd_callback` on the src pad of each `sink_caps` |
| messaging | `KafkaBroker::_pool` (2 workers) | `_validate_broker_connection` and `_poll_producer` |

`Mediator::notify` has no thread of its own: it runs on whichever thread calls it.

### Components

| component | state | operations | hard about it | what makes it correct |
|---|---|---|---|---|
| `messaging/KafkaBroker` | `producer_q` under `producer_lock`; the plain bools `_producer_enable`, `_producer_run`, `_broker_connected`; the pool's task queue | `set_configs`, `start`, `publish`, `stop`, `get_run_state`; tasks `_validate_broker_connection`, `_poll_producer` | two workers, two lock sections for one pop, restart from a catch block, `stop()` from another thread | one producer, in-order delivery, nothing lost before the producer, `stop()` waits and returns |
| `core/event/Mediator` | pointers to the modules, a mutex that is never taken | `notify` for four events | called from three threads at once, excludes nothing | each payload handed over once; no publish beside a stop; shutdown in order |
| `application/Application`, `main.cpp` | – | license, configure, start, `LIVE` loop | races with the shutdown | the process ends exactly when it should |
| `application/ApplicationContext` | `_configs`, `run_state`, `app_state` | `_load_module_configs`, `get_configs`, `kill_app` | shared without a lock | a refused configuration starts nothing |
| `gst/pipeline/Pipeline` | `_configs`, the GStreamer pipeline, the main loop | `set_configs`, `start`, `_create_pipeline`, `_run_pipeline`, `_pipeline_finished` | many configurations; indexes by source into sinks | accepted configurations can be built |
| `gst/pipeline/pipelineUtils` | `BusStruct` | bin factories, `on_pad_added`, `bus_call` | callbacks from GStreamer in its order, on its threads; where a bin has its queue | each demuxer linked once; the end of all streams and an error, and nothing else, end the loop |
| `gst/processing/Processing` | `meta_queue`, `_display_queue[source]`, `_configs`, the files of `BASE_DIR/payload` | `set_configs`, `set_up`, `probe_callback`, `osd_callback`, `get_meta_queue` | frames and detections travel apart and meet by queue order; files named by frame number only, written without a test | detections on their own frame and source, published once, not on the disk only for a known reason |
| `core/event/Event` | action, owner and completion flags | `own`, `end` | who deletes the event | deleted once, not used after |
| `softwareLicense/SoftwareLicense` | fields of `security.json`, the state of the LexActivator library | `start` and its chain of library calls | eight calls in three functions that depend on each other, each with codes of its own | no run without an activated license, no refusal without a reason |

What is left out, and why, is section 8.

### Interaction

`main` calls `Application::start`, which notifies `CONFIGURE_MODULES` and
`START_MODULES`. `START_MODULES` starts the messaging component and then the
pipeline, each of which queues a task on its own pool and returns. For each
frame with detections the streaming thread puts a payload on the meta queue and
notifies `KAFKA_PRODUCE_PAYLOAD`; the handler takes a payload off the meta queue
and calls `kafka->publish`. At the end of the streams the pipeline thread tears
the pipeline down and notifies `STOP_MODULES`; the handler calls `kafka->stop`
if `get_run_state()` holds, sleeps for a second and sets `app_state` to
`SHUT_DOWN`, which the main thread reads.

## 2. The modules

| module | what it is |
|---|---|
| `KafkaBroker` | the messaging component, one action per lock section, flag access and library call |
| `PayloadChannel` | what the component promises: an unbounded in-order channel that handles each payload at most once and may fail to deliver it |
| `SoftwareLicense` | the license check of `main` and the calls of the LexActivator library it makes |
| `ProgramLife` | what the program promises to whoever starts it: one life with its phases, in which payloads are published, handled in order and, at the end, left behind |
| `IvaSystem` | main thread, pipeline thread, streaming thread, Mediator, events and application context, composed with `KafkaBroker` and `SoftwareLicense` |
| `Processing` | the path of detections from `probe_callback` over the display queues to `osd_callback`, and the saved files |
| `Bins` | the elements of each bin that the factories of `pipelineUtils` make |
| `Configuration` | from `config.json` over the three `set_configs` to the pipeline built by `_create_pipeline` |
| `DynamicPads` | the pipeline while it plays: `on_pad_added`, `bus_call`, the main loop |
| `KafkaBrokerProofs`, `IvaSystemProofs`, `ProcessingProofs`, `ConfigurationProofs`, `DynamicPadsProofs` | the theorems, see section 5 |
| `MCKafkaBroker`, `MCIvaSystem`, `MCProcessing`, `MCConfiguration`, `MCDynamicPads` | instances for TLC |

### KafkaBroker

`pc[w]` is the line a pool worker is about to execute; the header comment of the
module lists the places. Reads and writes of a flag, the two lock sections of
`_poll_producer` and the calls into the Kafka library are separate actions, so
that `stop()` and `publish()` can come between any two of them. Variables map one
to one to the members of the class; `tasks` is the pool's queue, `payload[w]` the
local variable of `_poll_producer`, `stop_pc` the progress of `STOP_MODULES`,
`inflight` the records without a delivery report. `published`, `finished`,
`fate` and `at_stop` are history variables.

* A failed `listTopics` goes round the loop of `_validate_broker_connection`
  with no effect but a log line; it is no step.
* `send()` may throw at any time (`PollSendThrows`). The constructors of the
  `AdminClient` (`ConnectThrows`) and of the producer (`PollConstructThrows`) are
  outside a `try` block, and the delivery callback throws a type that no frame
  catches, for any error of a record (`DeliveryFails`): all end the process
  (`aborted`).
* The three flags are plain `bool`s read and written by several threads without
  a lock. This is a data race; the model takes each access as atomic and every
  value as seen at once. Loops that read a flag also take a lock or call into a
  library, so that the compiler cannot keep the value in a register.
* Sleeps are not modelled, any interleaving they make likely is one among all.

### SoftwareLicense

`lic_pc` is the library function that `start()` calls next, `done` the calls that
returned `LA_OK`. The library is a binary; what the model knows of it is what
its headers say: which call must come before which and with which code it
refuses otherwise (`OutOfOrder`), and the codes a call may return for reasons of
its own. `LA_FAIL` stands for the refusals of `ActivateLicense` that `start()`
does not tell apart. `fault` records that something else than the order of the
calls was wrong.

### IvaSystem

`main_pc`, `pipe_pc` and `probe_pc` say where the three threads are (header
comment). Each action is a step of one thread; those that call another component
conjoin the action of its instance (`License!ActivateLicense`, `Kafka!Start`,
`Kafka!Publish`, `Kafka!StopCall`, ...), so all of `KafkaBroker` and
`SoftwareLicense` runs inside. `events` are the `EventBase` objects that are not
deleted: one is made, and owned, by the call of `notify` and deleted at its end.
`Running` is false after `main` returned, after `LOG(FATAL)`, and after an
uncaught exception: the process is gone with all its threads. `StreamFatal` is
the streaming threads' way out (`DynamicPads` has its causes),
`ConfigureOk`, `ConfigureFails`, `ConfigureFatal` and `StartPipelineFatal` are
the outcomes of `Configuration`. `Phase` names the phase of `ProgramLife` from
the places of the threads; what waits there is the queue and the payload in the
producer's hand.

`gst_element_set_state(NULL)` joins the streaming threads: `Teardown` waits
until no probe is running. There is one streaming thread behind `nv_mux`.

### Processing

A frame is its source, its number and whether something was detected; a
detection is named by the frame it belongs to. `MakeBatch` is the environment
(`nv_mux` and the model): batches of at most `MaxBatch` frames in any mixture,
frames of a source in order. There is no queue element between `nv_tracker` and
`sink_caps` (`OneThreadToOverlay` of `Configuration` checks this), so one thread
runs both probes, and the converters on the way may drop a late frame (quality
of service, `sync` = true). `StreamId` is the last character of the bin's name.
`saved` holds the detections that are in a file: its name is made of the frame's
number, so that a detection replaces another source's of the same number. The
stream is never tested, so `SaveJson` has three outcomes: the file is written;
it is not opened; it is opened, which truncates it, and not written. Nothing in
the repository makes the directory `BASE_DIR/payload` (`core/common/logging.hpp:91`
makes `BASE_DIR/outputs/payload`), and without it no file is ever opened:
`payload_dir` says whether somebody else made it. `unwritten` is a history
variable. Drawing, the confidence threshold and the image formats are left out:
they keep no state.

### Configuration and Bins

`pc` is the call the main thread is about to make: `_load_module_configs`, the
`set_configs` of the three modules in the order of `CONFIGURE_MODULES`, then the
parts of `_create_pipeline`, whose loops go one round in a step (`b` is the loop
variable). `conf` is the section `pipeline` of the file, `configs` what
`Pipeline::set_configs` keeps of it, `bins` and `links` the GStreamer graph.
A bin has its elements, in order, from `Bins`; `AddProbe` looks an element up
there. A string is classified by its ending and its scheme; a path is a string
with the directory that was put in front of it, so that a test made before and a
use made after that do not see the same value. Every other field is abstracted
to whether it has its type: a wrong one has one effect, refusal, wherever it is.

### DynamicPads

`pads[s][t]` is how far `on_pad_added` got with the pad of track `t` of source
`s`; the test (`gst_pad_is_linked`) and the link are two steps. The demuxer of a
file runs its callbacks one after the other, a camera has a thread for each of
its streams. `gst_pad_link` is modelled by what it answers: whether the element
has this track's format and is free. `flow[s]` is what the source sends. `bus`
holds the messages in order; `BusCall` handles one, with the case `ELEMENT`
falling through to `NEW_CLOCK` as in the code. Messages after the loop is left
are not modelled, nobody reads them. An `ELEMENT` message comes only on an empty
bus, a bound: `bus_call` remembers nothing of it.

## 3. Runs

Bounds are constants of the modules: `Payloads` (each published at most once),
`MaxFaults` (outages, throwing `send()`s and constructors together), `MaxFrames`,
`MaxBatch`, `MaxUnwritten` (failed writes while the directory is there), `MaxLen`, `MaxTracks`. The pool has two workers in every run, as in
`KafkaBroker.h:93`.

| run | instance | states | checks |
|---|---|---|---|
| `kafka` | 3 payloads, one without topic, 3 faults | 194k | `TypeOK`, `OneProducerTask`, `PopFindsPayload`, `RunFlagMeansProducer`, `ProducerHoldsFlag`, `StopWaitsForQueue`, `QueueIsAttended`; `WorkIsProgress`; `ChannelSpec`, the refinement of `PayloadChannel`; `StopReturns`, `PayloadsHandled`, `ProducerReturns` |
| `system` | 2 payloads, 2 faults | 95k | `TypeOK`, `RefusedHasReason`, `NothingWithoutLicense`, `StopMeetsNoPublish`, `MetaQueueHandedOver`, `ExitLosesAtMostOne`; `LifeSpec`, the refinement of `ProgramLife`; `RefusedMeansExit`, `EndOfStreamMeansExit`, `NotifyReturns`; no deadlock |
| `overlay` | 2 sources, 3 frames each, batches of 2, drops, map failures, one failed write | 7.9M | `TypeOK`, `OverlayOwnSource`, `OverlayInOrder`, `OverlayLateByDrops`, `BacklogFromDrops`, `LossIsExplained` |
| `configuration_build` | 6 strings, up to 2 sources and 2 sinks | 195k | `TypeOK`, `RunningIsConnected`, `OneThreadToOverlay`, `SinksDisjoint`, `UsableIsAccepted`, `ThrownForSinks` |
| `pads_play` | a source of two tracks and one of one | 65k | `TypeOK`, `HarmlessSurvive`, `QuitHasReason`, `EndIsOnTheBus`; `FilesEnd`, `ErrorEnds` |
| `kafka_stop_final`, `system_finished`, `overlay_sync`, `overlay_ten_sources`, `configuration_rtmp`, `configuration_sinks`, `pads_inactive` | small | | violations, see section 6 |

*Why the bounds are enough.* One producer task exists at a time, so two workers
show every hand-over (validation on one, producer on the other). Three payloads
make it possible that one is done, one in the producer's hand and one waiting;
one of them has no topic. A fault during the recovery from a fault needs two
faults, the third is an outage around both. In the whole program a payload that
was published before `stop()` and one that is in flight need two. For the
overlay two sources make confusion of queues possible, three frames let one be
dropped, one be late and one follow; one write that fails can hit any file of
them, before or after another source's of that number. A configuration with two sources and two
sinks shows each rule that relates two elements (duplicates) or two lists (fewer
sinks than sources, more sinks than sources); the six strings hold each kind,
and two of a kind where a rule is about duplicates. Two tracks let two callbacks
of one source meet, and the second source is one that must not be stopped, or
must be, by the first. What the safety properties say beyond these bounds is
proved (section 5).

*Deadlock* is not checked for `KafkaBroker`, `Processing`, `Configuration` and
`DynamicPads`: a built or ended pipeline, a disabled or stopped producer,
an exhausted bound or a terminated process leave the component with nothing to
do. `IvaSystem` has an explicit step for the ended process (`Ended`), and the
run `system` checks that nothing else ever stops.

*Fairness.* Weak fairness of each thread: the operating system schedules
threads, all locks are held for a few statements only, and no action waits for
another under a lock. Weak fairness of `BrokerUp` and `Delivered`: the server
comes back and answers; without it `stop()` can wait for ever, as the code does.
In `DynamicPads`, tracks that are there get their pads, video that has a way
flows, and a file, which is finite, is read to its end. Nothing is assumed of
faults, of `Publish`, of `BusQuit`, of `stop()` being called, of the end of a
camera, of errors or of `ELEMENT` messages. `PromptMain`: the one second that
`STOP_MODULES` sleeps before `kill_app()` (`core/event/Mediator.cpp:112`) is
longer than the main thread needs from the end of `START_MODULES` to
`app_state = LIVE`. This is timing, not logic: `system_finished` shows what
happens without it.

## 4. What the properties say

* *One producer, and why the pop is safe.* `_poll_producer` tests the size and
  pops in two separate lock sections. `OneProducerTask` says why that is right:
  a task or a worker responsible for the producer is unique, through all
  reconnections. `PopFindsPayload` is the consequence. Clearing the flag
  before the validation is queued is what makes it restart the producer
  (`RespawnNotSkipped`); `RunFlagMeansProducer` is what `stop()` relies on.
  `ProducerHoldsFlag` is the reverse, and what the test in `STOP_MODULES`
  (`core/event/Mediator.cpp:104`) relies on: `stop()` is skipped only while
  nobody polls and nobody holds a payload. What a skipped `stop()` leaves on the
  queue has no bound; `QueueIsAttended` says that the pool still attends it.
* *Order and conservation.* `ChannelSpec`, and `ChannelOrder`: what was published
  is what was handled, then what is in the producer's hand, then the queue. A
  payload whose `send()` throws counts as handled, with fate `thrown`: the code
  drops it.
* *Stop.* `StopWaitsForQueue`: every payload published before `stop()` was taken
  off the queue when it leaves its loop, up to the one in hand
  (`ExitLosesAtMostOne` is the same seen from the end of the process).
  `StopReturns`: it leaves, given fairness.
* *Progress.* `QueueIsAttended`: until `stop()` returned, a started producer has
  a task or a worker that comes to the queue, through every reconnection.
  `WorkIsProgress`: every step of the pool that does not look at an empty queue
  lowers what is left to do (`ToDo`: the payloads, then the steps to the next),
  a send that throws and the reconnection after it included; nothing but
  `publish()` and `start()` puts more on it. So payloads never wait for nobody,
  nor for a pool that runs in circles; what remains for fairness is that the
  attending worker steps and the server comes back.
* *License.* `RefusedHasReason`: the eight calls come in the order the library
  asks for, so a refusal is always the file's, the license's or the network's.
  `NothingWithoutLicense`: nothing is started before all eight returned `LA_OK`.
* *Life of the process.* `ExitAfterPipeline`, `RefusedMeansExit`,
  `EndOfStreamMeansExit`. `LifeSpec`: with its four kinds of threads the program
  is one life: payloads are published only while it runs and handled in order
  until the end; a stop that waited leaves at most one; the process ends once,
  after a stop, a refusal, or an unusable configuration with nothing published.
  `StopMeetsNoPublish`: `notify` runs on three threads and its mutex is never
  taken, yet no payload is published while kafka is being stopped or after.
  `NotifyReturns`: every `notify` returns and has deleted its event.
* *Meta queue.* `MetaQueueHandedOver`: `get_meta_queue`, which does not look at
  the size, is called once for each payload.
* *Configuration.* `RunningIsConnected`: a pipeline that runs reads each of its
  sources once and each frame leaves by the sink bin of its source.
  `OneThreadToOverlay`: no queue between the two probes. `ThrownForSinks`: an
  exception over the section `pipeline` is always about the number of sinks, too
  many of `rtmp` or too few of `file`. `SinksDisjoint`: no two sink bins write
  one file, although uniqueness is tested on other strings than those that are
  opened. `UsableIsAccepted`: the checks refuse nothing that the documentation
  allows with `display` or `file` sinks, and what they let through of that can
  be built.
* *Overlay.* `OverlayLateByDrops`: an overlay is late by no more frames than its
  source had dropped and early by less than a batch, in whatever way `nv_mux`
  mixes the sources; it is never early while a batch has one frame of each. A
  buffer that cannot be mapped shifts nothing. Detections are drawn in order,
  each at most once, on frames of their source while there are at most ten
  sources; the backlog of a queue is at most the number of dropped frames.
* *Saved payloads.* `LossIsExplained`: a published detection that is not on the
  disk has one of two reasons. Its file was not written, as always without the
  directory, or a frame of another source with its number came to its file. With
  the directory, one source and a disk that takes the files, nothing is lost.
* *Playing.* `HarmlessSurvive`: sources that are files of H.264 with any sound,
  or cameras with one stream of H.264, never end the process in `on_pad_added`,
  in whatever order their pads appear. (Of a camera with two streams this is
  false: both may pass the test before either is linked, or the second is
  sound.) `QuitHasReason`: the loop is left only when all sources have ended or
  one failed. `EndIsOnTheBus`: in these two cases the message that ends the loop
  is on the bus until it is read. `FilesEnd`, `ErrorEnds`: in these two cases it
  is left.

## 5. Proofs

Every safety property of the passing runs is proved with TLAPS, for all values
of the constants that the assumptions in the modules allow. Each module proves
one inductive invariant, or adds one on top, and derives the properties from it.
`RespawnNotSkipped`, `ChannelOrder` and `ExitAfterPipeline` are theorems without
a run: the runs check what they follow from, or what follows from them
(`OneProducerTask` with `RunFlagMeansProducer`, `ChannelSpec`, `LifeSpec`).

`KafkaBrokerProofs`, for every set of workers and payloads and any number of
faults: `TypeCorrect`, `SingleProducer`, `NoPopOnEmpty`, `RunningIsAlive`,
`AlwaysRespawned`, `InOrder` (`ChannelOrder`), `StopWaits`
(`StopWaitsForQueue`), `AlwaysAttended` (`QueueIsAttended`), `FlagHeld`
(`ProducerHoldsFlag`), `AlwaysProgress`
(`WorkIsProgress`), and `ImplementsChannel`: `Spec => Channel!Spec`. No single
one of the invariants is inductive: that a worker about to pop finds a payload
needs that nobody else pops (`OneProducerTask`); that the task stays unique when
a validation queues the producer needs that the validation is the only
responsible worker and does not run beside a started producer; that `start()`
does not add a second task needs that nothing is scheduled before it
(`NothingBeforeStart`). `IInv` is their conjunction with `TypeOK`. For the
channel, `WaitingStep` says what any step does to `Waiting` and `finished`:
nothing, one payload appended, or the first one moved; order and refinement both
follow from it. `StopWaits` counts: by `ChannelOrder` what is done with or in
hand is what was published less what is queued (`Counting`), and `StopInv` says
that this never falls below what `stop()` saw. `AlwaysAttended` follows the one
responsible task or worker: a task that is taken hands over to its worker, a
worker that leaves hands over to the task it queued (`AttendedStep`). For
`AlwaysProgress`, `Closer` shows action by action that `Steps` shrinks where
`Waiting` is kept, and `StepsBound` that it is always below 14, so that one
payload less outweighs a whole reconnection.

`IvaSystemProofs`, for whatever `PromptMain` is: all safety properties of
`system`. `IInv` says what is true at each place of the four activities:
`LicenseOrder`, `MainOrder` (what has been started), `ProbeOrder` (what is on
the meta queue), `StopOrder` (no probe from the teardown on). `DrivesKafka`
shows that every step of the program is a step of `KafkaBroker` or leaves it
alone, so that its theorems hold inside: `LosesAtMostOne` is `StopWaits` carried
over. `ImplementsLife`: `Spec => LifeSpec`, thread by thread (`LifeMain`,
`LifePipe`, `LifeProbe`, `LifeAlone`). It needs `IInv` to know the phase a step
starts from, the steps of `Waiting` from `KafkaBrokerProofs` for payloads, and
`OneWaits`, that an empty queue leaves at most the payload in the hand of the
one producer, for the end of the drain.

`ProcessingProofs`, for any number of frames and any batch size. For any
sources: `TypeCorrect`, `DrawnOnceInOrder`, `LossExplained`. For at most ten (`OneDigit`, a hypothesis of the theorems,
necessary as `overlay_ten_sources` shows): `OwnSource`, `LateByDrops`,
`BacklogBounded`. `Shape` ties the thread's place to the batch;
`QueueOwnSource` says whose detections a queue holds, `PublishedDetected` that
only frames with detections are published;
`OrderInv` says that for each source what is drawn, then queued, then still in
the batch has growing numbers. `Room` and `Backlog` count the frames of a source
in the batch against those it had and those that were dropped, by way of
`Counts` on cardinalities. `LateByDrops` assumes nothing of how frames are
batched. `Numbered`: the number of a frame of the batch and the frames of its
source from it on make up the frames the source had. `LateQueues`: the i-th
detection of a queue belongs to the i-th frame that is still to come to
`osd_callback`, or it is late by no more frames than were dropped. `Splits`
divides the frames of a source in the batch at the one that is drawn; that they
fit into the batch (`LeftFits`) bounds how early an overlay can be.

`ConfigurationProofs`, for any strings and lists of any length: all safety
properties of `configuration_build`. `IInv`: `Places` (what is known of the
configuration at each call), `Progress` (which bins and links there are after
`b` rounds of each loop) and `Known` (every bin is one of `AllBins`). What
`set_configs` accepts is `Accepted`; `UsablePasses` shows that a usable
configuration is. `ThrownForSinksOnly` rests on `RtmpIsNotAccepted`: no accepted
configuration has `rtmp` sinks, so what throws while bins are made is a list of
files that is too short.

`DynamicPadsProofs`, for any number of sources and tracks: `TypeCorrect`,
`HarmlessSourcesSurvive`, `QuitsForAReason`, `EndIsNotLost`. `LinkIsFree` says
that between test and link of a file's pad no other callback links; `NamedPads`
that only named pads get there; `BusIsTrue` that a message on the bus still
holds when it is read, since ended and failed sources stay so; `Posted` the
reverse, that what has happened is still on the bus while the loop runs.

*Only model-checked*: the liveness properties (`StopReturns`, `PayloadsHandled`,
`ProducerReturns`, `RefusedMeansExit`, `EndOfStreamMeansExit`, `NotifyReturns`,
`FilesEnd`, `ErrorEnds`): fairness and ENABLED are out of the prover's reach.
Their safety parts are proved where they can be: who attends the queue and what
each step gains (`AlwaysAttended`, `AlwaysProgress`), and that the message to
end on is there (`EndIsNotLost`).

## 6. Where code and documentation disagree

| run | says | does |
|---|---|---|
| `kafka_stop_final` | `messaging/KafkaBroker.cpp:232`: after `stop()` "the thread will no longer loop" | `send()` of the payload in hand throws after `stop()` returned; the catch block has the connection validated and the producer started again |
| `system_finished` | `gst/pipeline/Pipeline.cpp:544`: "Pipeline is finished, trigger safe application exit" | the main thread may write `LIVE` over `SHUT_DOWN` and loop for ever |
| `overlay_sync` | `src/.iva/iva.md:107`: `sync` = true for "realistic detections", which drops frames | a dropped frame makes all later overlays late |
| `overlay_ten_sources` | `gst/processing/Processing.cpp:279`: "name schema={sink0, sink1, sinkN}" | `sinkBin10` uses queue 0 |
| `configuration_rtmp` | `src/.iva/iva.md:99`: "`sink_type`: may be one of (file, rtmp)" | the test of a `rtmp` sink reads the source with its index (`Pipeline.cpp:239`): no `rtmp` sink is ever accepted |
| `configuration_sinks` | `gst/pipeline/Pipeline.cpp:172`: "Must have at least one sink!" | with one sink for two sources the configuration is accepted and building the second sink bin throws (`Pipeline.cpp:375`) |
| `pads_inactive` | `gst/pipeline/pipelineUtils.hpp:35`: `timeout_counter_max`, "the maximum number of cycles that can be caught with an inactive source before exiting" | the counter is only ever set to zero (`:148`): a silent camera keeps the pipeline for ever |

Seen on the way, without a run: the mutex behind "process safe signal"
(`core/event/Event.cpp:41`) excludes nothing; `IsLicenseGenuine`, which accepts
an earlier activation, is never called, so that a start without network is
refused; a `file` sink muxes FLV into a file that must be named `.mp4`
(`pipelineUtils.hpp:622`); the documented directory of saved payloads
(`src/.iva/iva.md:115`, `/tmp/.cache/saved_media`) is not the one the code uses,
`BASE_DIR/payload` (`gst/processing/Processing.cpp:236`), and that one is made by
nobody: `Logging::init` makes `BASE_DIR/outputs/payload`, "store generated
outputs" (`core/common/logging.hpp:95`), which nothing uses. With `save` set and
no directory made by hand, no payload is saved, and no log line says so.

## 7. Plan

All modules and all safety proofs of the plan are done; every hazard of this
code that has a state to relate and a promise to check is covered by a property. What could follow:

1. `StreamFatal` of `IvaSystem` and the environment of `Processing` replaced by
   instances of `DynamicPads` and `Configuration`: one specification of the
   whole, for the theorems about reasons to exit.
2. The data race on the flags of `KafkaBroker` with stale reads instead of
   atomic accesses, if the flags stay plain `bool`s.
3. The YAML builder, once it compiles.

## 8. Not modelled

* *YAML builder* (`#ifdef YAML_CONFIGS`, off by default): it does not compile
  against `PipelineConfigs`, so it has no behaviour.
* *RTSP discoverer*: its only call is commented out (`Pipeline.cpp:294-303`).
* *Probe adapters and image helpers* (`callbacks.hpp`, conversions,
  `calculate_iou`, id and time helpers): the adapters forward to `Processing`
  and are one step with it; the rest is pure or not called.
* *License*: `activateTrial` and the license callbacks are never called, nor
  the rest of the library (trials, meters, offline activation, updates).
* *Events*: `accept`, `ignore`, `_criteria_met` and `_time_elapsed` are never
  used.
* *Logging, error types, `BaseComponent`*: no state beyond a pointer.
* *Properties of GStreamer elements*, drawing, image formats, thresholds: output
  only.
* *Build, deployment, camera server*: Docker, ansible and shell around the
  program.

Four hazards in `PROJECT.json` have no property. A client or producer whose
constructor throws outside a `try` block (`KafkaBroker.cpp:115`, `:167`) and a
pipeline that cannot be built (`Pipeline.cpp:516`) end the process: the models
have these steps, but no state after them to relate. The same holds for two
streams of one camera that meet between test and link
(`pipelineUtils.hpp:275`): `LinkStatus` has it, and nothing is promised of it. The queue of `publish` has no bound
(`KafkaBroker.cpp:143`), and neither code nor documentation names one to check.
