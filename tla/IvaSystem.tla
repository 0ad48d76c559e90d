----------------------------- MODULE IvaSystem -----------------------------
(***************************************************************************)
(* The life of the program, from main() to the exit of the process: the    *)
(* main thread (main.cpp, Application, ApplicationContext), the thread of  *)
(* the Pipeline module, the streaming thread that runs probe_callback, the *)
(* license, which is the module SoftwareLicense, and the messaging         *)
(* component, which is KafkaBroker.  They meet in Mediator::notify, which  *)
(* runs on the thread of whoever calls it: an event lives from its         *)
(* creation there to the end of notify.                                    *)
(*                                                                         *)
(* main_pc, the main thread:                                               *)
(*   license        SoftwareLicense::start                                 *)
(*   configure      Application::_set_up, CONFIGURE_MODULES                *)
(*   start          START_MODULES, the test of run_state                   *)
(*   start_pipeline START_MODULES, pipeline->start()                       *)
(*   start_end      START_MODULES, both modules started                    *)
(*   live           app_state = LIVE    loop  while LIVE      exited       *)
(* pipe_pc, the thread of the Pipeline module:                             *)
(*   none           _run_pipeline not queued      queued  queued           *)
(*   playing        g_main_loop_run               quit    out of the loop  *)
(*   finished       state NULL, before STOP_MODULES                        *)
(*   stop           STOP_MODULES, get_run_state   drain   kafka->stop()    *)
(*   kill           before kill_app               ended   thread done      *)
(* probe_pc, the streaming thread:                                         *)
(*   idle           no frame with detections in probe_callback             *)
(*   added          payload on the meta queue, about to notify             *)
(*   publishing     KAFKA_PRODUCE_PAYLOAD, payload off the meta queue      *)
(***************************************************************************)
EXTENDS Naturals, Sequences

CONSTANTS
    Workers, Payloads, Topicless, NoPayload, MaxFaults,  \* of KafkaBroker
    PromptMain  \* TRUE: the second that STOP_MODULES sleeps is longer than the
                \* main thread needs from the end of START_MODULES to LIVE

ASSUME WorkersAssumption == Workers # {}
ASSUME PayloadsAssumption == Topicless \subseteq Payloads /\ NoPayload \notin Payloads
ASSUME FaultsAssumption == MaxFaults \in Nat
ASSUME PromptMainAssumption == PromptMain \in BOOLEAN

VARIABLES
    main_pc, pipe_pc, probe_pc,
    run_state,    \* ApplicationContext::run_state
    app_state,    \* ApplicationContext::app_state
    publish,      \* processing["publish"]
    meta_queue,   \* Processing::_processor.meta_queue
    probe_payload,\* what get_meta_queue returned to the Mediator
    fatal,        \* LOG(FATAL) ended the process
    events,       \* the EventBase objects that are not deleted
    lic_pc, done, status, fault,
    producer_enable, producer_run, broker_connected, producer_q, tasks, pc,
    payload, started, stop_pc, inflight, broker_up, faults, aborted,
    published, finished, fate, at_stop

License == INSTANCE SoftwareLicense
Kafka == INSTANCE KafkaBroker

kafka == <<producer_enable, producer_run, broker_connected, producer_q, tasks, pc,
           payload, started, stop_pc, inflight, broker_up, faults, aborted,
           published, finished, fate, at_stop>>
threads == <<main_pc, pipe_pc, probe_pc>>
context == <<run_state, app_state>>
processing == <<publish, meta_queue, probe_payload>>
license == <<lic_pc, done, status, fault>>
ending == <<fatal, license>>
app == <<threads, context, processing, ending, events>>
vars == <<app, kafka>>

Init ==
    /\ main_pc = "license" /\ pipe_pc = "none" /\ probe_pc = "idle"
    /\ run_state = FALSE
    /\ app_state = "NO_APP_STATE"
    /\ publish = FALSE
    /\ meta_queue = <<>>
    /\ probe_payload = NoPayload
    /\ fatal = FALSE
    /\ events = {}
    /\ License!Init
    /\ Kafka!Init

\* The process is there: main() has not returned and nothing aborted it.
Running == main_pc # "exited" /\ ~fatal /\ ~aborted

\* The events that the program creates: who, and which of the EventActions.
Event ==
    {[by |-> "main", action |-> "CONFIGURE_MODULES"], [by |-> "main", action |-> "START_MODULES"],
     [by |-> "pipe", action |-> "STOP_MODULES"],
     [by |-> "probe", action |-> "KAFKA_PRODUCE_PAYLOAD"]}

\* An event is created and given to notify, which owns it.
Owned(by, action) == events \cup {[by |-> by, action |-> action]}

\* end(): the event is free and completed, so that notify deletes it.
Deleted(by, action) == events \ {[by |-> by, action |-> action]}

Main(from, to)  == Running /\ main_pc = from /\ main_pc' = to /\ UNCHANGED <<pipe_pc, probe_pc>>
Pipe(from, to)  == Running /\ pipe_pc = from /\ pipe_pc' = to /\ UNCHANGED <<main_pc, probe_pc>>
Probe(from, to) == Running /\ probe_pc = from /\ probe_pc' = to /\ UNCHANGED <<main_pc, pipe_pc>>

-----------------------------------------------------------------------------
(* The main thread.                                                        *)

\* main: there is no ~/.iva.
HomeMissing ==
    /\ Running /\ main_pc = "license" /\ lic_pc = "parse"
    /\ fatal' = TRUE
    /\ UNCHANGED <<threads, context, processing, events, license, kafka>>

\* main: a step of license.start().
CheckLicense ==
    /\ Running /\ main_pc = "license"
    /\ License!Next
    /\ UNCHANGED <<threads, context, processing, fatal, events, kafka>>

\* Mutant: the answer of start() is not looked at.
LicenseIgnored ==
    /\ lic_pc \in {"accepted", "refused"}
    /\ Main("license", "configure")
    /\ events' = Owned("main", "CONFIGURE_MODULES")
    /\ UNCHANGED <<context, processing, ending, kafka>>

\* main: the application is set up, CONFIGURE_MODULES is notified.
Licensed ==
    /\ lic_pc = "accepted"
    /\ Main("license", "configure")
    /\ events' = Owned("main", "CONFIGURE_MODULES")
    /\ UNCHANGED <<context, processing, ending, kafka>>

\* main: without a license it returns EXIT_FAILURE.
Unlicensed ==
    /\ lic_pc = "refused"
    /\ Main("license", "exited")
    /\ UNCHANGED <<context, processing, ending, events, kafka>>

\* CONFIGURE_MODULES: all three set_configs succeed.
ConfigureOk ==
    /\ Main("configure", "start")
    /\ run_state' = TRUE
    /\ \E e \in BOOLEAN : Kafka!SetConfigs(e)
    /\ publish' \in BOOLEAN
    /\ events' = {[by |-> "main", action |-> "START_MODULES"]}
    /\ UNCHANGED <<app_state, meta_queue, probe_payload, ending>>

\* CONFIGURE_MODULES: one of them fails, or config.json lacks a section,
\* which set_configs of the Pipeline sees as an empty configuration.
ConfigureFails ==
    /\ Main("configure", "start")
    /\ run_state' = FALSE
    /\ publish' \in BOOLEAN
    /\ events' = {[by |-> "main", action |-> "START_MODULES"]}
    /\ UNCHANGED <<app_state, meta_queue, probe_payload, ending, kafka>>

\* A missing config.json, or a file named by it that does not exist.
ConfigureFatal ==
    /\ Running /\ main_pc = "configure"
    /\ fatal' = TRUE
    /\ UNCHANGED <<threads, context, processing, events, license, kafka>>

\* START_MODULES: kafka->start().
StartKafka ==
    /\ run_state
    /\ Main("start", "start_pipeline")
    /\ Kafka!Start
    /\ UNCHANGED <<context, processing, ending, events>>

\* START_MODULES: nothing is started.
StartRefused ==
    /\ ~run_state
    /\ Main("start", "start_end")
    /\ UNCHANGED <<context, processing, ending, events, kafka>>

\* START_MODULES: pipeline->start() builds the pipeline and queues
\* _run_pipeline on the pool of the Pipeline.
StartPipeline ==
    /\ Running /\ main_pc = "start_pipeline"
    /\ main_pc' = "start_end" /\ pipe_pc' = "queued"
    /\ UNCHANGED <<probe_pc, context, processing, ending, events, kafka>>

\* START_MODULES: the pipeline cannot be built.
StartPipelineFatal ==
    /\ Running /\ main_pc = "start_pipeline"
    /\ fatal' = TRUE
    /\ UNCHANGED <<threads, context, processing, events, license, kafka>>

\* Mutant: LIVE is set only when the configuration failed.
StartReturnsInverted ==
    /\ Main("start_end", IF run_state THEN "loop" ELSE "live")
    /\ events' = Deleted("main", "START_MODULES")
    /\ UNCHANGED <<context, processing, ending, kafka>>

\* Application::start: notify returns, run_state is tested.
StartReturns ==
    /\ Main("start_end", IF run_state THEN "live" ELSE "loop")
    /\ events' = Deleted("main", "START_MODULES")
    /\ UNCHANGED <<context, processing, ending, kafka>>

\* Application::start: app_state = LIVE, whatever it was.
GoLive ==
    /\ Main("live", "loop")
    /\ app_state' = "LIVE"
    /\ UNCHANGED <<run_state, processing, ending, events, kafka>>

\* Application::start: the loop ends when the state is not LIVE, and main()
\* returns; the process ends under the other threads.
Exit ==
    /\ app_state # "LIVE"
    /\ Main("loop", "exited")
    /\ UNCHANGED <<context, processing, ending, events, kafka>>

-----------------------------------------------------------------------------
(* The thread of the Pipeline module.                                      *)

\* _run_pipeline: state PLAYING, g_main_loop_run.
Play ==
    /\ Pipe("queued", "playing")
    /\ UNCHANGED <<context, processing, ending, events, kafka>>

\* bus_call: EOS or ERROR quits the main loop.
BusQuit ==
    /\ Pipe("playing", "quit")
    /\ UNCHANGED <<context, processing, ending, events, kafka>>

\* A pad that cannot be linked (DynamicPads), a pad without caps (probe_callback).
StreamFatal ==
    /\ Running /\ pipe_pc \in {"playing", "quit"}
    /\ fatal' = TRUE
    /\ UNCHANGED <<threads, context, processing, events, license, kafka>>

\* Mutant: the elements are left running.
NoTeardown ==
    /\ Pipe("quit", "finished")
    /\ UNCHANGED <<context, processing, ending, events, kafka>>

\* _run_pipeline: state NULL joins the streaming threads, so that none is
\* inside a pad probe when the call returns.
Teardown ==
    /\ probe_pc = "idle"
    /\ Pipe("quit", "finished")
    /\ UNCHANGED <<context, processing, ending, events, kafka>>

\* _pipeline_finished: STOP_MODULES is notified.
NotifyStop ==
    /\ Pipe("finished", "stop")
    /\ events' = Owned("pipe", "STOP_MODULES")
    /\ UNCHANGED <<context, processing, ending, kafka>>

\* STOP_MODULES: kafka->stop() is entered.
StopKafka ==
    /\ Pipe("stop", "drain")
    /\ Kafka!StopCall
    /\ UNCHANGED <<context, processing, ending, events>>

\* STOP_MODULES: kafka is not running, "already terminated".
SkipKafka ==
    /\ Pipe("stop", "kill")
    /\ Kafka!StopSkip
    /\ UNCHANGED <<context, processing, ending, events>>

\* kafka->stop(): the drain loop ends.
DrainKafka ==
    /\ Running /\ pipe_pc = "drain"
    /\ Kafka!StopDrained
    /\ UNCHANGED app

\* kafka->stop() returns.
KafkaStopped ==
    /\ Pipe("drain", "kill")
    /\ Kafka!StopReturn
    /\ UNCHANGED <<context, processing, ending, events>>

\* Mutant: nobody is told that the modules are stopped.
NoKill ==
    /\ Pipe("kill", "ended")
    /\ events' = Deleted("pipe", "STOP_MODULES")
    /\ UNCHANGED <<context, processing, ending, kafka>>

\* STOP_MODULES: sleep for a second, kill_app().
KillApp ==
    /\ PromptMain => main_pc = "loop"
    /\ Pipe("kill", "ended")
    /\ app_state' = "SHUT_DOWN"
    /\ events' = Deleted("pipe", "STOP_MODULES")
    /\ UNCHANGED <<run_state, processing, ending, kafka>>

-----------------------------------------------------------------------------
(* The streaming thread, while the pipeline is not in state NULL.          *)

\* probe_callback: a frame with detections, its payload on the meta queue.
ProbeAdd(p) ==
    /\ publish
    /\ pipe_pc \in {"playing", "quit"}
    /\ \A i \in 1..Len(published) : published[i] # p
    /\ Probe("idle", "added")
    /\ meta_queue' = Append(meta_queue, p)
    /\ UNCHANGED <<publish, probe_payload, context, ending, events, kafka>>

\* Mutant: front() without pop().
MediatorPeek ==
    /\ Probe("added", "publishing")
    /\ probe_payload' = Head(meta_queue)
    /\ events' = Owned("probe", "KAFKA_PRODUCE_PAYLOAD")
    /\ UNCHANGED <<publish, meta_queue, context, ending, kafka>>

\* KAFKA_PRODUCE_PAYLOAD: get_meta_queue().
MediatorGet ==
    /\ Probe("added", "publishing")
    /\ probe_payload' = Head(meta_queue)
    /\ meta_queue' = Tail(meta_queue)
    /\ events' = Owned("probe", "KAFKA_PRODUCE_PAYLOAD")
    /\ UNCHANGED <<publish, context, ending, kafka>>

\* Mutant: the payload outlives the event.
PublishKeepsPayload ==
    /\ Probe("publishing", "idle")
    /\ Kafka!Publish(probe_payload)
    /\ events' = Deleted("probe", "KAFKA_PRODUCE_PAYLOAD")
    /\ UNCHANGED <<processing, context, ending>>

\* Mutant: the event is not ended, and notify does not delete it.
PublishKeepsEvent ==
    /\ Probe("publishing", "idle")
    /\ Kafka!Publish(probe_payload)
    /\ probe_payload' = NoPayload
    /\ UNCHANGED <<publish, meta_queue, context, ending, events>>

\* KAFKA_PRODUCE_PAYLOAD: kafka->publish().
MediatorPublish ==
    /\ Probe("publishing", "idle")
    /\ Kafka!Publish(probe_payload)
    /\ probe_payload' = NoPayload
    /\ events' = Deleted("probe", "KAFKA_PRODUCE_PAYLOAD")
    /\ UNCHANGED <<publish, meta_queue, context, ending>>

-----------------------------------------------------------------------------
MainThread ==
    \/ CheckLicense \/ Licensed \/ Unlicensed \/ ConfigureOk \/ ConfigureFails
    \/ StartKafka \/ StartRefused \/ StartPipeline \/ StartReturns \/ GoLive \/ Exit
PipeThread ==
    Play \/ Teardown \/ NotifyStop \/ StopKafka \/ SkipKafka \/ DrainKafka \/ KafkaStopped \/ KillApp
ProbeThread == MediatorGet \/ MediatorPublish
KafkaWorker(w) == Running /\ Kafka!Worker(w) /\ UNCHANGED app
KafkaDelivers(p) == Running /\ Kafka!Delivered(p) /\ UNCHANGED app
BrokerReturns == Running /\ Kafka!BrokerUp /\ UNCHANGED app
KafkaFault ==
    /\ Running
    /\ \/ Kafka!BrokerDown
       \/ \E p \in Payloads : Kafka!DeliveryFails(p)
       \/ \E w \in Workers : Kafka!ConnectThrows(w) \/ Kafka!PollConstructThrows(w) \/ Kafka!PollSendThrows(w)
    /\ UNCHANGED app

\* The process has ended.
Ended == ~Running /\ UNCHANGED vars

Next ==
    \/ MainThread \/ HomeMissing \/ ConfigureFatal \/ StartPipelineFatal
    \/ PipeThread \/ BusQuit \/ StreamFatal
    \/ ProbeThread \/ \E p \in Payloads : ProbeAdd(p)
    \/ \E w \in Workers : KafkaWorker(w)
    \/ \E p \in Payloads : KafkaDelivers(p)
    \/ BrokerReturns \/ KafkaFault
    \/ Ended

Spec == Init /\ [][Next]_vars

(***************************************************************************)
(* Every thread is scheduled, the Kafka server returns after an outage.    *)
(* Nothing is assumed of the streams: BusQuit and ProbeAdd may never       *)
(* happen, and nothing of faults.                                          *)
(***************************************************************************)
Fairness ==
    /\ WF_vars(MainThread) /\ WF_vars(PipeThread) /\ WF_vars(ProbeThread)
    /\ \A w \in Workers : WF_vars(KafkaWorker(w))
    /\ \A p \in Payloads : WF_vars(KafkaDelivers(p))
    /\ WF_vars(BrokerReturns)

FairSpec == Spec /\ Fairness

-----------------------------------------------------------------------------
(* Properties.                                                             *)

\* The types; the messaging component's own are in KafkaBroker.
TypeOK ==
    /\ main_pc \in {"license", "configure", "start", "start_pipeline", "start_end",
                    "live", "loop", "exited"}
    /\ pipe_pc \in {"none", "queued", "playing", "quit", "finished", "stop", "drain",
                    "kill", "ended"}
    /\ probe_pc \in {"idle", "added", "publishing"}
    /\ run_state \in BOOLEAN /\ publish \in BOOLEAN /\ fatal \in BOOLEAN
    /\ app_state \in {"NO_APP_STATE", "LIVE", "SHUT_DOWN"}
    /\ events \subseteq Event
    /\ lic_pc \in License!Calls \cup {"parse", "accepted", "refused"}
    /\ done \subseteq License!Calls /\ fault \in BOOLEAN
    /\ meta_queue \in Seq(Payloads)
    /\ probe_payload \in Payloads \cup {NoPayload}
    /\ probe_payload # NoPayload <=> probe_pc = "publishing"

\* start() calls the library in the order its header demands: it refuses only
\* when a file or the license is at fault, never because of a call that came
\* too early (SoftwareLicense.cpp:47-65, LexActivator.h:75-91, 114-137).
RefusedHasReason == lic_pc = "refused" => fault

\* Nothing is started without a license that was activated, and for the
\* release that setReleaseParams names (main.cpp:37-40).
NothingWithoutLicense ==
    started \/ pipe_pc # "none" => done = License!Calls

\* Handlers on different threads may overlap, START_MODULES with the two
\* others: own() and end() exclude nothing.  What must not happen does not:
\* no payload is published while kafka is being stopped or after
\* (Mediator.cpp:95-131, Pipeline.cpp:486-504).
StopMeetsNoPublish ==
    pipe_pc \in {"stop", "drain", "kill", "ended"} =>
        /\ probe_pc = "idle"
        /\ \A event \in events : event.action # "KAFKA_PRODUCE_PAYLOAD"

\* get_meta_queue, which looks at no size, is called exactly once for every
\* payload on the meta queue (Processing.cpp:229-230, 458-465).
MetaQueueHandedOver ==
    meta_queue # <<>> <=> probe_pc = "added"

\* The process ends neither under a pipeline that was started nor before its
\* STOP_MODULES is done (Application.cpp:49-55, Mediator.cpp:97-113).
ExitAfterPipeline ==
    main_pc = "exited" => pipe_pc \in {"none", "ended"}

\* After kafka->stop(), the process ends with at most one payload that was
\* published and not handled: the one in the hand of the producer
\* (Pipeline.cpp:491-504, KafkaBroker.cpp:242-251).
ExitLosesAtMostOne ==
    main_pc = "exited" /\ stop_pc = "done" => Len(finished) + 1 >= Len(published)

\* The phase of the program's life, by where its threads are.
Phase ==
    LET Up == Running /\ main_pc # "license"
    IN CASE fatal \/ aborted -> "died"
         [] main_pc = "exited" /\ ~fatal /\ ~aborted -> "over"
         [] Running /\ main_pc = "license" -> "new"
         [] Up /\ ~started -> "licensed"
         [] Up /\ started /\ pipe_pc \in {"none", "queued", "playing", "quit"} -> "running"
         [] Up /\ started /\ pipe_pc \in {"finished", "stop"} -> "stopping"
         [] Up /\ started /\ pipe_pc = "drain" -> "draining"
         [] Up /\ started /\ pipe_pc \in {"kill", "ended"} -> "stopped"

\* The program, with its four kinds of threads, implements the life it
\* promises: what is published waits in the queue and in the producer's hand
\* (main.cpp:25-54, Application.cpp:43-56, Mediator.cpp:49-134,
\* Pipeline.cpp:476-546, KafkaBroker.cpp:143-252).
Life == INSTANCE ProgramLife WITH
    phase <- Phase,
    waiting <- Kafka!Waiting,
    handled <- finished

LifeSpec == Life!Spec

\* Every notify returns and has deleted its event, whatever goes on in the
\* other threads, unless the process ends first (Mediator.cpp:130-134).
NotifyReturns ==
    \A thread \in {"main", "pipe", "probe"} :
        (\E event \in events : event.by = thread)
            ~> (~Running \/ \A event \in events : event.by # thread)

\* When the configuration is refused, the process ends: "if false, then the
\* application will automatically die" (ApplicationContext.h:48-49).
RefusedMeansExit == (main_pc = "start" /\ ~run_state) ~> main_pc = "exited"

\* When the bus ends the pipeline, the process ends, however often the
\* producer fails and reconnects on the way (Pipeline.cpp:539-545).
EndOfStreamMeansExit == pipe_pc = "quit" ~> ~Running

\* "Pipeline is finished, trigger safe application exit": a thread that has
\* notified STOP_MODULES leaves a process that ends (Pipeline.cpp:544).
FinishedMeansExit == pipe_pc = "ended" ~> main_pc = "exited"
=============================================================================
