---------------------------- MODULE KafkaBroker ----------------------------
(***************************************************************************)
(* The messaging component: core::KafkaBroker (messaging/KafkaBroker.h and *)
(* .cpp).  Other threads call publish(); a pool of worker threads runs two *)
(* kinds of task, _validate_broker_connection ("validate") and             *)
(* _poll_producer ("poll").  Each lock section, each access to a shared    *)
(* flag and each call into the Kafka library is a step of its own.         *)
(*                                                                         *)
(* pc[w] is the line worker w is about to execute:                         *)
(*   idle      waiting for a task of the pool                              *)
(*   validate  entry of _validate_broker_connection                        *)
(*   connect   AdminClient and listTopics loop  spawn  the final flag test *)
(*   begin     entry of _poll_producer         ctor   KafkaProducer(props) *)
(*   test      while (_producer_run)           size   first lock section   *)
(*   pop       second lock section             send   topic test and send  *)
(*   caught    catch block, close() and flag   repush catch block, push    *)
(*   leave     past the catch block            closing close() after loop  *)
(***************************************************************************)
EXTENDS Naturals, Sequences

CONSTANTS
    Workers,    \* the threads of _pool (KafkaBroker.h:93 makes two)
    Payloads,   \* the payloads the other modules may publish, each once
    Topicless,  \* the payloads without a "topic" field
    NoPayload,  \* the value of a worker's local payload when it holds none
    MaxFaults   \* bound on broker outages, send() and constructor exceptions

ASSUME WorkersAssumption == Workers # {}
ASSUME PayloadsAssumption == Topicless \subseteq Payloads /\ NoPayload \notin Payloads
ASSUME FaultsAssumption == MaxFaults \in Nat

VARIABLES
    producer_enable,   \* _producer_enable
    producer_run,      \* _producer_run
    broker_connected,  \* _broker_connected
    producer_q,        \* producer_q, under producer_lock
    tasks,             \* the task queue of _pool
    pc,                \* where each worker is
    payload,           \* the local variable payload of _poll_producer
    started,           \* start() was called
    stop_pc,           \* progress of the stop request of the Mediator
    inflight,          \* accepted by send(), no delivery report yet
    broker_up,         \* the Kafka server answers
    faults,            \* faults so far
    aborted,           \* an exception left a thread: std::terminate
    published,         \* history: every payload publish() queued, in order
    finished,          \* history: every payload a worker is done with, in order
    fate,              \* history: how each payload ended
    at_stop            \* history: Len(published) when stop() was called

flags == <<producer_enable, producer_run, broker_connected>>
work  == <<tasks, pc, payload>>
env   == <<broker_up, faults, aborted>>
hist  == <<published, finished, fate, at_stop>>
ctl   == <<started, stop_pc>>
vars  == <<flags, work, env, hist, ctl, producer_q, inflight>>

Tasks == {"validate", "poll"}
Places == {"idle", "validate", "connect", "spawn", "begin", "ctor", "test", "size",
           "pop", "send", "caught", "repush", "leave", "closing"}
Fates == {"none", "sent", "noTopic", "thrown"}

Init ==
    /\ producer_enable = FALSE
    /\ producer_run = FALSE
    /\ broker_connected = FALSE
    /\ producer_q = <<>>
    /\ tasks = <<>>
    /\ pc = [w \in Workers |-> "idle"]
    /\ payload = [w \in Workers |-> NoPayload]
    /\ started = FALSE
    /\ stop_pc = "none"
    /\ inflight = {}
    /\ broker_up \in BOOLEAN
    /\ faults = 0
    /\ aborted = FALSE
    /\ published = <<>>
    /\ finished = <<>>
    /\ fate = [p \in Payloads |-> "none"]
    /\ at_stop = 0

-----------------------------------------------------------------------------
(* Helpers of the actions.                                                 *)

\* Worker w, at place `from`, goes on to place `to`; nothing happens once the
\* process was terminated.
Goto(w, from, to) ==
    /\ ~aborted
    /\ pc[w] = from
    /\ pc' = [pc EXCEPT ![w] = to]

\* A fault of the environment, while the bound allows one.
Fault == faults < MaxFaults /\ faults' = faults + 1

\* Mutant: the payload outlives the iteration that popped it.
FinishKeepsPayload(w, how) ==
    /\ finished' = Append(finished, payload[w])
    /\ fate' = [fate EXCEPT ![payload[w]] = how]
    /\ UNCHANGED <<payload, published, at_stop>>

\* Worker w is done with its payload, which ended as `how`.
Finish(w, how) ==
    /\ finished' = Append(finished, payload[w])
    /\ fate' = [fate EXCEPT ![payload[w]] = how]
    /\ payload' = [payload EXCEPT ![w] = NoPayload]
    /\ UNCHANGED <<published, at_stop>>

-----------------------------------------------------------------------------
(* The calls of the other modules.                                         *)

\* set_configs: the only field of it this module reads is "enable".
SetConfigs(enable) ==
    /\ ~aborted /\ ~started
    /\ producer_enable' = enable
    /\ UNCHANGED <<producer_run, broker_connected, work, env, hist, ctl, producer_q, inflight>>

\* Mutant: the producer is started at once, beside the validation.
StartEager ==
    /\ ~aborted /\ ~started
    /\ started' = TRUE
    /\ tasks' = tasks \o <<"validate", "poll">>
    /\ UNCHANGED <<flags, pc, payload, env, hist, stop_pc, producer_q, inflight>>

\* start: queue the validation task.  START_MODULES is notified once.
Start ==
    /\ ~aborted /\ ~started
    /\ started' = TRUE
    /\ tasks' = Append(tasks, "validate")
    /\ UNCHANGED <<flags, pc, payload, env, hist, stop_pc, producer_q, inflight>>

\* publish: whatever _producer_enable says, and without a bound on the queue.
Publish(p) ==
    /\ ~aborted
    /\ \A i \in 1..Len(published) : published[i] # p
    /\ producer_q' = Append(producer_q, p)
    /\ published' = Append(published, p)
    /\ UNCHANGED <<flags, work, env, finished, fate, at_stop, ctl, inflight>>

\* Mediator, STOP_MODULES: get_run_state() holds, stop() is called.
StopCall ==
    /\ ~aborted /\ started /\ stop_pc = "none"
    /\ producer_run
    /\ stop_pc' = "draining"
    /\ at_stop' = Len(published)
    /\ UNCHANGED <<flags, work, env, published, finished, fate, started, producer_q, inflight>>

\* Mediator, STOP_MODULES: get_run_state() is false, "already terminated".
StopSkip ==
    /\ ~aborted /\ started /\ stop_pc = "none"
    /\ ~producer_run
    /\ stop_pc' = "skipped"
    /\ UNCHANGED <<flags, work, env, hist, started, producer_q, inflight>>

\* Mutant: the drain loop is left whatever the size.
StopUndrained ==
    /\ ~aborted /\ stop_pc = "draining"
    /\ stop_pc' = "drained"
    /\ UNCHANGED <<flags, work, env, hist, started, producer_q, inflight>>

\* stop: the drain loop reads the size of the queue and leaves when it is 0.
StopDrained ==
    /\ ~aborted /\ stop_pc = "draining"
    /\ producer_q = <<>>
    /\ stop_pc' = "drained"
    /\ UNCHANGED <<flags, work, env, hist, started, producer_q, inflight>>

\* stop: the run flag is cleared and the call returns.
StopReturn ==
    /\ ~aborted /\ stop_pc = "drained"
    /\ producer_run' = FALSE
    /\ stop_pc' = "done"
    /\ UNCHANGED <<producer_enable, broker_connected, work, env, hist, started, producer_q, inflight>>

-----------------------------------------------------------------------------
(* The pool and _validate_broker_connection.                               *)

\* An idle worker takes the oldest task.
TakeTask(w) ==
    /\ tasks # <<>>
    /\ Goto(w, "idle", IF Head(tasks) = "validate" THEN "validate" ELSE "begin")
    /\ tasks' = Tail(tasks)
    /\ UNCHANGED <<flags, payload, env, hist, ctl, producer_q, inflight>>

\* The early return of a disabled producer.
ValidateDisabled(w) ==
    /\ ~producer_enable
    /\ Goto(w, "validate", "idle")
    /\ UNCHANGED <<flags, tasks, payload, env, hist, ctl, producer_q, inflight>>

\* _broker_connected = false, and into the loop.
ValidateBegin(w) ==
    /\ producer_enable
    /\ Goto(w, "validate", "connect")
    /\ broker_connected' = FALSE
    /\ UNCHANGED <<producer_enable, producer_run, tasks, payload, env, hist, ctl, producer_q, inflight>>

\* listTopics: an error goes round the loop, which is no step of the model.
Connected(w) ==
    /\ broker_up
    /\ Goto(w, "connect", "spawn")
    /\ broker_connected' = TRUE
    /\ UNCHANGED <<producer_enable, producer_run, tasks, payload, env, hist, ctl, producer_q, inflight>>

\* The AdminClient is made outside a try block: its exception leaves the
\* worker thread.
ConnectThrows(w) ==
    /\ ~aborted /\ pc[w] = "connect"
    /\ Fault
    /\ aborted' = TRUE
    /\ UNCHANGED <<flags, work, broker_up, hist, ctl, producer_q, inflight>>

\* Mutant: the negation of the test is lost.
SpawnIfRunning(w) ==
    /\ Goto(w, "spawn", "idle")
    /\ tasks' = IF producer_run THEN Append(tasks, "poll") ELSE tasks
    /\ UNCHANGED <<flags, payload, env, hist, ctl, producer_q, inflight>>

\* A producer task is queued unless one is running.
Spawn(w) ==
    /\ Goto(w, "spawn", "idle")
    /\ tasks' = IF producer_run THEN tasks ELSE Append(tasks, "poll")
    /\ UNCHANGED <<flags, payload, env, hist, ctl, producer_q, inflight>>

-----------------------------------------------------------------------------
(* _poll_producer.                                                         *)

\* The run flag is set unconditionally.
PollBegin(w) ==
    /\ Goto(w, "begin", "ctor")
    /\ producer_run' = TRUE
    /\ UNCHANGED <<producer_enable, broker_connected, tasks, payload, env, hist, ctl, producer_q, inflight>>

\* The producer is constructed.
PollConstruct(w) ==
    /\ Goto(w, "ctor", "test")
    /\ UNCHANGED <<flags, tasks, payload, env, hist, ctl, producer_q, inflight>>

\* The constructor throws outside the try block: the exception leaves the
\* worker thread.
PollConstructThrows(w) ==
    /\ ~aborted /\ pc[w] = "ctor"
    /\ Fault
    /\ aborted' = TRUE
    /\ UNCHANGED <<flags, work, broker_up, hist, ctl, producer_q, inflight>>

\* The test of the while loop.
PollTest(w) ==
    /\ Goto(w, "test", IF producer_run THEN "size" ELSE "closing")
    /\ UNCHANGED <<flags, tasks, payload, env, hist, ctl, producer_q, inflight>>

\* First lock section: the size, and the continue when it is 0.
PollSize(w) ==
    /\ Goto(w, "size", IF producer_q = <<>> THEN "test" ELSE "pop")
    /\ UNCHANGED <<flags, tasks, payload, env, hist, ctl, producer_q, inflight>>

\* Mutant: front() without pop().
PollFront(w) ==
    /\ producer_q # <<>>
    /\ Goto(w, "pop", "send")
    /\ payload' = [payload EXCEPT ![w] = Head(producer_q)]
    /\ UNCHANGED <<flags, tasks, env, hist, ctl, producer_q, inflight>>

\* Mutant: the newest payload is taken.
PollBack(w) ==
    /\ producer_q # <<>>
    /\ Goto(w, "pop", "send")
    /\ payload' = [payload EXCEPT ![w] = producer_q[Len(producer_q)]]
    /\ producer_q' = SubSeq(producer_q, 1, Len(producer_q) - 1)
    /\ UNCHANGED <<flags, tasks, env, hist, ctl, inflight>>

\* Second lock section: front() and pop(), undefined on an empty queue.
PollPop(w) ==
    /\ producer_q # <<>>
    /\ Goto(w, "pop", "send")
    /\ payload' = [payload EXCEPT ![w] = Head(producer_q)]
    /\ producer_q' = Tail(producer_q)
    /\ UNCHANGED <<flags, tasks, env, hist, ctl, inflight>>

\* A payload without a topic is logged and dropped.
PollDrop(w) ==
    /\ payload[w] \in Topicless
    /\ Goto(w, "send", "test")
    /\ Finish(w, "noTopic")
    /\ UNCHANGED <<flags, tasks, env, ctl, producer_q, inflight>>

\* send() accepts the record.
PollSend(w) ==
    /\ payload[w] \notin Topicless
    /\ Goto(w, "send", "test")
    /\ Finish(w, "sent")
    /\ inflight' = inflight \cup {payload[w]}
    /\ UNCHANGED <<flags, tasks, env, ctl, producer_q>>

\* send() throws: control reaches the catch block and the payload is gone.
PollSendThrows(w) ==
    /\ payload[w] \notin Topicless
    /\ Fault
    /\ Goto(w, "send", "caught")
    /\ Finish(w, "thrown")
    /\ UNCHANGED <<flags, tasks, broker_up, aborted, ctl, producer_q, inflight>>

\* Mutant: the run flag is not reset.
CatchNoReset(w) ==
    /\ inflight = {}
    /\ Goto(w, "caught", "repush")
    /\ UNCHANGED <<flags, tasks, payload, env, hist, ctl, producer_q, inflight>>

\* Catch block: close() waits for the delivery reports, the flag is cleared.
CatchClear(w) ==
    /\ inflight = {}
    /\ Goto(w, "caught", "repush")
    /\ producer_run' = FALSE
    /\ UNCHANGED <<producer_enable, broker_connected, tasks, payload, env, hist, ctl, producer_q, inflight>>

\* Mutant: nobody is asked to restart the producer.
CatchNoRepush(w) ==
    /\ Goto(w, "repush", "leave")
    /\ UNCHANGED <<flags, tasks, payload, env, hist, ctl, producer_q, inflight>>

\* Mutant: the producer is restarted and the connection validated.
CatchRepushBoth(w) ==
    /\ Goto(w, "repush", "leave")
    /\ tasks' = tasks \o <<"validate", "poll">>
    /\ UNCHANGED <<flags, payload, env, hist, ctl, producer_q, inflight>>

\* Catch block: the connection is to be validated again.
CatchRepush(w) ==
    /\ Goto(w, "repush", "leave")
    /\ tasks' = Append(tasks, "validate")
    /\ UNCHANGED <<flags, payload, env, hist, ctl, producer_q, inflight>>

\* After the catch block: the second close() has nothing to wait for.
CatchLeave(w) ==
    /\ Goto(w, "leave", "idle")
    /\ UNCHANGED <<flags, tasks, payload, env, hist, ctl, producer_q, inflight>>

\* After the loop: close() waits for the delivery reports.
PollClose(w) ==
    /\ inflight = {}
    /\ Goto(w, "closing", "idle")
    /\ UNCHANGED <<flags, tasks, payload, env, hist, ctl, producer_q, inflight>>

-----------------------------------------------------------------------------
(* The Kafka library and the server.                                       *)

\* The delivery report of a record that arrived.
Delivered(p) ==
    /\ ~aborted /\ broker_up
    /\ p \in inflight
    /\ inflight' = inflight \ {p}
    /\ UNCHANGED <<flags, work, env, hist, ctl, producer_q>>

\* A record timed out or was refused by the server: the delivery callback
\* throws a kafka::Error, which is no std::exception and which no frame catches.
DeliveryFails(p) ==
    /\ ~aborted
    /\ p \in inflight
    /\ aborted' = TRUE
    /\ UNCHANGED <<flags, work, broker_up, faults, hist, ctl, producer_q, inflight>>

BrokerDown ==
    /\ ~aborted /\ broker_up
    /\ Fault
    /\ broker_up' = FALSE
    /\ UNCHANGED <<flags, work, aborted, hist, ctl, producer_q, inflight>>

BrokerUp ==
    /\ ~aborted /\ ~broker_up
    /\ broker_up' = TRUE
    /\ UNCHANGED <<flags, work, faults, aborted, hist, ctl, producer_q, inflight>>

-----------------------------------------------------------------------------
Validator(w) ==
    TakeTask(w) \/ ValidateDisabled(w) \/ ValidateBegin(w) \/ Connected(w) \/ Spawn(w)

Poller(w) ==
    \/ PollBegin(w) \/ PollConstruct(w) \/ PollTest(w) \/ PollSize(w) \/ PollPop(w)
    \/ PollDrop(w) \/ PollSend(w) \/ PollClose(w)
    \/ CatchClear(w) \/ CatchRepush(w) \/ CatchLeave(w)

Worker(w) == Validator(w) \/ Poller(w)

Stopper == StopDrained \/ StopReturn

Next ==
    \/ \E e \in BOOLEAN : SetConfigs(e)
    \/ Start
    \/ \E p \in Payloads : Publish(p) \/ Delivered(p) \/ DeliveryFails(p)
    \/ StopCall \/ StopSkip \/ Stopper
    \/ \E w \in Workers : Worker(w) \/ ConnectThrows(w) \/ PollConstructThrows(w) \/ PollSendThrows(w)
    \/ BrokerDown \/ BrokerUp

Spec == Init /\ [][Next]_vars

(***************************************************************************)
(* Threads are scheduled: a worker, and the thread inside stop(), do not   *)
(* pause for ever.  The server comes back after an outage, and every       *)
(* record gets its delivery report while it is up.                         *)
(***************************************************************************)
Fairness ==
    /\ \A w \in Workers : WF_vars(Worker(w))
    /\ WF_vars(Stopper)
    /\ WF_vars(BrokerUp)
    /\ \A p \in Payloads : WF_vars(Delivered(p))

FairSpec == Spec /\ Fairness

-----------------------------------------------------------------------------
(* Properties.                                                             *)

\* The types, and the scope of the local variable payload: it holds a payload
\* exactly between the pop and the end of the iteration.
TypeOK ==
    /\ producer_enable \in BOOLEAN /\ producer_run \in BOOLEAN
    /\ broker_connected \in BOOLEAN /\ started \in BOOLEAN
    /\ broker_up \in BOOLEAN /\ aborted \in BOOLEAN
    /\ producer_q \in Seq(Payloads)
    /\ tasks \in Seq(Tasks)
    /\ pc \in [Workers -> Places]
    /\ payload \in [Workers -> Payloads \cup {NoPayload}]
    /\ \A w \in Workers : payload[w] # NoPayload <=> pc[w] = "send"
    /\ stop_pc \in {"none", "draining", "drained", "done", "skipped"}
    /\ inflight \in SUBSET Payloads
    /\ faults \in 0..MaxFaults
    /\ published \in Seq(Payloads) /\ finished \in Seq(Payloads)
    /\ fate \in [Payloads -> Fates]
    /\ at_stop \in Nat

\* A worker that is responsible for the producer: it validates the connection
\* in order to queue the producer task, runs that task, or is in its catch
\* block and about to ask for a new validation.
Responsible(w) == pc[w] \notin {"idle", "leave"}

\* The pool never has more than one task or worker responsible for the
\* producer, through all reconnections: the reason why the two separate lock
\* sections of _poll_producer are safe (KafkaBroker.cpp:170-181).
OneProducerTask ==
    /\ Len(tasks) <= 1
    /\ tasks # <<>> => \A w \in Workers : ~Responsible(w)
    /\ \A v, w \in Workers : Responsible(v) /\ Responsible(w) => v = w

\* A worker past the size test still finds a payload when it takes the lock
\* again: front() and pop() are never called on an empty queue
\* (KafkaBroker.cpp:172-180).
PopFindsPayload ==
    \A w \in Workers : pc[w] = "pop" => producer_q # <<>>

\* A validation never finds the run flag set, so that line 134 never leaves
\* the broker connected and nobody producing (KafkaBroker.cpp:134, 213-214).
RespawnNotSkipped ==
    \A w \in Workers : pc[w] = "spawn" => ~producer_run

\* The run flag stays set while a worker is in the polling loop, until stop()
\* clears it: get_run_state() is false only when nobody polls, so that a stop
\* request that is skipped leaves no producer behind that would go on, and no
\* payload in a worker's hand (KafkaBroker.cpp:134, 161, 213; Mediator.cpp:102-110).
ProducerHoldsFlag ==
    stop_pc # "done" =>
        \A w \in Workers : pc[w] \in {"ctor", "test", "size", "pop", "send", "caught"} => producer_run

\* get_run_state() is true only while a worker is in _poll_producer and will
\* look at the queue again or clear the flag (KafkaBroker.cpp:161, 213, 259).
RunFlagMeansProducer ==
    producer_run =>
        \E w \in Workers : pc[w] \in {"ctor", "test", "size", "pop", "send", "caught"}

\* What the one worker that holds a payload holds.
InHand ==
    IF \E w \in Workers : pc[w] = "send"
    THEN <<payload[CHOOSE w \in Workers : pc[w] = "send"]>>
    ELSE <<>>

\* What was published and is not done with, oldest first.
Waiting == InHand \o producer_q

\* Payloads leave in the order in which they were published, none is lost
\* between the queue and a worker and none is taken twice, whatever the
\* workers, the reconnections and stop() do (KafkaBroker.cpp:143-218).
ChannelOrder == published = finished \o Waiting

\* When stop() has left its drain loop, every payload published before it was
\* called was taken off the queue; the last one may still be in the worker's
\* hand (KafkaBroker.cpp:242-250).
StopWaitsForQueue ==
    stop_pc \in {"drained", "done"} => Len(finished) + Len(InHand) >= at_stop

\* stop() and the publishers never wait for nobody: until stop() returned, a
\* producer that was started and enabled has a task on the pool or a worker
\* that will come to the queue, through every reconnection, and no test of the
\* run flag turns that worker away (KafkaBroker.cpp:102-138, 159-218).
QueueIsAttended ==
    started /\ producer_enable /\ stop_pc # "done" =>
        \/ tasks # <<>>
        \/ \E w \in Workers :
              /\ Responsible(w) /\ pc[w] # "closing"
              /\ pc[w] = "test" => producer_run

\* How many steps a worker at a place is from the next payload it is done
\* with; places from which it goes idle count the steps to idle.
StepsFrom(place) ==
    CASE place \in {"idle", "leave"} -> 0
      [] place \in {"closing", "send"} -> 1
      [] place = "pop" -> 2
      [] place = "size" -> 3
      [] place = "test" -> 4
      [] place = "ctor" -> 5
      [] place = "begin" -> 6
      [] place = "spawn" -> 8
      [] place = "connect" -> 9
      [] place = "validate" -> 10
      [] place = "repush" -> 12
      [] place = "caught" -> 13

\* The same for the one task or worker responsible for the producer: a task
\* on the pool is one step from the place where it begins.
Steps ==
    IF tasks # <<>> THEN 1 + StepsFrom(IF Head(tasks) = "validate" THEN "validate" ELSE "begin")
    ELSE IF \E w \in Workers : Responsible(w)
    THEN StepsFrom(pc[CHOOSE w \in Workers : Responsible(w)])
    ELSE 0

\* What the pool still has to do: a reconnection takes fewer than 14 steps.
ToDo == 14 * Len(Waiting) + Steps

\* A worker looks at an empty queue, or is past its catch block.
Idling(w) == (pc[w] = "size" /\ producer_q = <<>>) \/ pc[w] = "leave"

\* The pool never runs in circles while payloads wait: every step of a worker
\* that does not look at an empty queue lowers what is left to do, a failed
\* send and the reconnection after it too, and only publish() and start() put
\* more on it (KafkaBroker.cpp:102-138, 159-218).
WorkIsProgress ==
    [][/\ (\E w \in Workers : (Worker(w) \/ PollSendThrows(w)) /\ ~Idling(w)) => ToDo' < ToDo
       /\ ToDo' > ToDo => \/ \E p \in Payloads : Publish(p)
                          \/ Start
                          \/ \E w \in Workers : PollSize(w) /\ producer_q = <<>>]_vars

\* "Setting this to false means that the thread will no longer loop over
\* while(this->flag)": once stop() returned, the run flag stays false
\* (KafkaBroker.cpp:232-234).
StopIsFinal == [][stop_pc = "done" /\ ~producer_run => ~producer_run']_vars

\* stop() returns (KafkaBroker.cpp:242-252).
StopReturns == stop_pc = "draining" ~> (stop_pc = "done" \/ aborted)

\* Once started and enabled, a payload on the queue is handled, through any
\* number of failed sends, unless stop() came first (KafkaBroker.cpp:168-215).
PayloadsHandled ==
    \A p \in Payloads :
        (started /\ producer_enable /\ \E i \in 1..Len(producer_q) : producer_q[i] = p)
            ~> (fate[p] # "none" \/ stop_pc \in {"drained", "done"} \/ aborted)

\* After an exception in the producer, the producer polls again
\* (KafkaBroker.cpp:210-215, 134-136).
ProducerReturns ==
    (\E w \in Workers : pc[w] = "caught") ~> ((\E w \in Workers : pc[w] = "test") \/ aborted)

\* The component implements the abstract channel: what a worker holds is the
\* head of the channel's queue until the worker is done with it
\* (KafkaBroker.cpp:143-218).
Channel == INSTANCE PayloadChannel WITH
    waiting <- Waiting,
    handled <- finished

ChannelSpec == Channel!Spec
=============================================================================
