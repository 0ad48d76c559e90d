-------------------------- MODULE IvaSystemProofs --------------------------
(***************************************************************************)
(* Theorems about the life of the program, for every number of pool        *)
(* workers, every set of payloads, any number of faults, and whether the   *)
(* main thread is prompt or not.  Messaging is used through the theorems   *)
(* of KafkaBrokerProofs: the program drives it as KafkaBroker allows.      *)
(***************************************************************************)
EXTENDS IvaSystem, SequenceTheorems, TLAPS

Broker == INSTANCE KafkaBrokerProofs

-----------------------------------------------------------------------------
(* The messaging component inside the program.                             *)

\* What the program may do to the messaging component, besides calling it:
\* its pool, the deliveries, the server.
KafkaAlone ==
    \/ \E w \in Workers : KafkaWorker(w)
    \/ \E p \in Payloads : KafkaDelivers(p)
    \/ BrokerReturns \/ KafkaFault

\* A step of a worker in the program is one in the component's own module.
LEMMA WorkerSteps ==
    ASSUME NEW w \in Workers, Kafka!Worker(w)
    PROVE  Broker!Worker(w)
BY DEF Kafka!Worker, Kafka!Validator, Kafka!Poller, Kafka!TakeTask, Kafka!ValidateDisabled,
       Kafka!ValidateBegin, Kafka!Connected, Kafka!Spawn, Kafka!PollBegin,
       Kafka!PollConstruct, Kafka!PollTest, Kafka!PollSize, Kafka!PollPop, Kafka!PollDrop,
       Kafka!PollSend, Kafka!PollClose, Kafka!CatchClear, Kafka!CatchRepush,
       Kafka!CatchLeave, Kafka!Goto, Kafka!Finish, Kafka!flags, Kafka!work, Kafka!env,
       Kafka!hist, Kafka!ctl,
       Broker!Worker, Broker!Validator, Broker!Poller, Broker!TakeTask,
       Broker!ValidateDisabled, Broker!ValidateBegin, Broker!Connected, Broker!Spawn,
       Broker!PollBegin, Broker!PollConstruct, Broker!PollTest, Broker!PollSize,
       Broker!PollPop, Broker!PollDrop, Broker!PollSend, Broker!PollClose,
       Broker!CatchClear, Broker!CatchRepush, Broker!CatchLeave, Broker!Goto,
       Broker!Finish, Broker!flags, Broker!work, Broker!env, Broker!hist, Broker!ctl

\* The pool, the server and the faults are steps of the component as well.
LEMMA AloneSteps == KafkaAlone => Broker!Next /\ UNCHANGED app
<1> SUFFICES ASSUME KafkaAlone PROVE Broker!Next /\ UNCHANGED app
  OBVIOUS
<1> USE DEF Kafka!flags, Kafka!work, Kafka!env, Kafka!hist, Kafka!ctl, Kafka!Fault,
            Kafka!Goto, Kafka!Finish, Broker!flags, Broker!work, Broker!env, Broker!hist,
            Broker!ctl, Broker!Fault, Broker!Goto, Broker!Finish
<1>1. ASSUME NEW w \in Workers, KafkaWorker(w) PROVE Broker!Next /\ UNCHANGED app
  BY <1>1, WorkerSteps DEF KafkaWorker, Broker!Next
<1>2. ASSUME NEW p \in Payloads, KafkaDelivers(p) PROVE Broker!Next /\ UNCHANGED app
  BY <1>2 DEF KafkaDelivers, Kafka!Delivered, Broker!Delivered, Broker!Next
<1>3. CASE BrokerReturns
  BY <1>3 DEF BrokerReturns, Kafka!BrokerUp, Broker!BrokerUp, Broker!Next
<1>4. CASE KafkaFault
  <2>1. CASE Kafka!BrokerDown
    BY <1>4, <2>1 DEF KafkaFault, Kafka!BrokerDown, Broker!BrokerDown, Broker!Next
  <2>2. ASSUME NEW p \in Payloads, Kafka!DeliveryFails(p) PROVE Broker!Next
    BY <2>2 DEF Kafka!DeliveryFails, Broker!DeliveryFails, Broker!Next
  <2>3. ASSUME NEW w \in Workers, Kafka!ConnectThrows(w) \/ Kafka!PollConstructThrows(w) PROVE Broker!Next
    BY <2>3 DEF Kafka!ConnectThrows, Kafka!PollConstructThrows, Broker!ConnectThrows, Broker!PollConstructThrows, Broker!Next
  <2>4. ASSUME NEW w \in Workers, Kafka!PollSendThrows(w) PROVE Broker!Next
    BY <2>4 DEF Kafka!PollSendThrows, Broker!PollSendThrows, Broker!Next
  <2> QED
    BY <1>4, <2>1, <2>2, <2>3, <2>4 DEF KafkaFault
<1> QED
  BY <1>1, <1>2, <1>3, <1>4 DEF KafkaAlone

\* They call neither start(), nor stop(), nor publish().
LEMMA AloneKeeps == KafkaAlone => UNCHANGED <<started, stop_pc, at_stop, published>>
BY DEF KafkaAlone, KafkaWorker, KafkaDelivers, BrokerReturns, KafkaFault,
       Kafka!Worker, Kafka!Validator, Kafka!Poller, Kafka!TakeTask, Kafka!ValidateDisabled,
       Kafka!ValidateBegin, Kafka!Connected, Kafka!Spawn, Kafka!PollBegin,
       Kafka!PollConstruct, Kafka!PollTest, Kafka!PollSize, Kafka!PollPop, Kafka!PollDrop,
       Kafka!PollSend, Kafka!PollClose, Kafka!CatchClear, Kafka!CatchRepush,
       Kafka!CatchLeave, Kafka!ConnectThrows, Kafka!PollConstructThrows, Kafka!PollSendThrows,
       Kafka!Delivered, Kafka!DeliveryFails, Kafka!BrokerUp, Kafka!BrokerDown,
       Kafka!Finish, Kafka!hist, Kafka!ctl

-----------------------------------------------------------------------------
(* The inductive invariant.                                                *)

\* What the license has cost so far: each function, and those before it.
LicenseOrder ==
    /\ lic_pc \in {"parse", "SetProductFile"} => done = {}
    /\ lic_pc = "SetProductId" => done = {"SetProductFile"}
    /\ lic_pc = "SetReleasePlatform" => done = {"SetProductFile", "SetProductId"}
    /\ lic_pc = "SetReleaseChannel" =>
          done = {"SetProductFile", "SetProductId", "SetReleasePlatform"}
    /\ lic_pc = "SetReleaseVersion" =>
          done = {"SetProductFile", "SetProductId", "SetReleasePlatform", "SetReleaseChannel"}
    /\ lic_pc = "SetLicenseKey" =>
          done = {"SetProductFile", "SetProductId", "SetReleasePlatform", "SetReleaseChannel",
                  "SetReleaseVersion"}
    /\ lic_pc = "SetActivationMetadata" =>
          done = {"SetProductFile", "SetProductId", "SetReleasePlatform", "SetReleaseChannel",
                  "SetReleaseVersion", "SetLicenseKey"}
    /\ lic_pc = "ActivateLicense" => done = License!Calls \ {"ActivateLicense"}
    /\ lic_pc = "accepted" => done = License!Calls
    /\ lic_pc = "refused" => fault

\* The main thread: what is started, by where it is, and the application
\* state, which is LIVE or SHUT_DOWN only after something was started.
MainOrder ==
    /\ main_pc \notin {"license", "exited"} => lic_pc = "accepted"
    /\ started \/ pipe_pc # "none" => lic_pc = "accepted" /\ run_state
    /\ main_pc \in {"license", "configure", "start"} => ~started /\ pipe_pc = "none"
    /\ main_pc = "start_pipeline" => started /\ pipe_pc = "none"
    /\ main_pc = "start_end" => (run_state <=> pipe_pc # "none")
    /\ app_state = "SHUT_DOWN" => pipe_pc = "ended"
    /\ main_pc = "loop" /\ app_state = "NO_APP_STATE" => pipe_pc = "none"
    /\ main_pc = "exited" => pipe_pc \in {"none", "ended"}
    /\ pipe_pc # "none" => started
    /\ main_pc = "live" => pipe_pc # "none"
    /\ main_pc \in {"start_end", "loop"} /\ pipe_pc = "none" => ~started

\* A payload is on the meta queue, in the hand of the Mediator, or nowhere,
\* by where the streaming thread is, and that is idle without a pipeline.
ProbeOrder ==
    /\ probe_pc = "added" => \E p \in Payloads : meta_queue = <<p>>
    /\ probe_pc # "added" => meta_queue = <<>>
    /\ probe_pc # "idle" => pipe_pc \in {"playing", "quit"}
    /\ \A event \in events : event.action = "KAFKA_PRODUCE_PAYLOAD" => probe_pc = "publishing"

\* Nothing is published before start(), nor once stop() or its omission was
\* decided.
StopOrder ==
    /\ ~started => published = <<>>
    /\ stop_pc # "none" => pipe_pc \in {"drain", "kill", "ended"}
    /\ stop_pc \in {"draining", "drained", "done"} => at_stop = Len(published)

IInv == TypeOK /\ LicenseOrder /\ MainOrder /\ ProbeOrder /\ StopOrder

\* The initial state satisfies it.
LEMMA InvInit == Init => IInv
<1> SUFFICES ASSUME Init PROVE IInv
  OBVIOUS
<1> USE DEF Init, License!Init, Kafka!Init
<1>1. TypeOK
  <2>1. meta_queue \in Seq(Payloads) /\ events \subseteq Event
    OBVIOUS
  <2>2. lic_pc \in License!Calls \cup {"parse", "accepted", "refused"}
        /\ done \subseteq License!Calls
    OBVIOUS
  <2> QED
    BY <2>1, <2>2 DEF TypeOK
<1> QED
  BY <1>1 DEF IInv, LicenseOrder, MainOrder, ProbeOrder, StopOrder

\* A call of the library: start() makes each only after those it depends on.
LEMMA LicenseStep ==
    ASSUME IInv, License!Next
    PROVE  /\ lic_pc' \in License!Calls \cup {"parse", "accepted", "refused"}
           /\ done' \subseteq License!Calls /\ fault' \in BOOLEAN
           /\ LicenseOrder'
<1> USE DEF IInv, TypeOK, LicenseOrder, License!Calls, License!Call, License!OutOfOrder
<1>1. CASE License!ParseConfigs
  BY <1>1 DEF License!ParseConfigs
<1>2. CASE License!InitLibrary
  BY <1>2 DEF License!InitLibrary, License!SetProductFile, License!SetProductId
<1>3. CASE License!SetReleaseParams
  BY <1>3 DEF License!SetReleaseParams, License!SetReleasePlatform,
              License!SetReleaseChannel, License!SetReleaseVersion
<1>4. CASE License!Activate
  BY <1>4 DEF License!Activate, License!SetLicenseKey, License!SetActivationMetadata,
              License!ActivateLicense
<1> QED
  BY <1>1, <1>2, <1>3, <1>4 DEF License!Next

\* A step of the main thread.
LEMMA MainStep ==
    ASSUME IInv, MainThread \/ HomeMissing \/ ConfigureFatal \/ StartPipelineFatal
    PROVE  IInv'
<1> USE DEF IInv, TypeOK, MainOrder, ProbeOrder, StopOrder, LicenseOrder, Main, Owned, Deleted, Event,
            app, threads, context, processing, ending, license, kafka
<1>1. CASE CheckLicense
  BY <1>1, LicenseStep DEF CheckLicense
<1>2. CASE Licensed
  BY <1>2 DEF Licensed
<1>3. CASE Unlicensed
  BY <1>3 DEF Unlicensed
<1>4. CASE ConfigureOk
  BY <1>4 DEF ConfigureOk, Kafka!SetConfigs, Kafka!hist, Kafka!ctl
<1>5. CASE ConfigureFails
  <2>1. TypeOK' /\ LicenseOrder'
    BY <1>5 DEF ConfigureFails
  <2>2. MainOrder'
    BY <1>5 DEF ConfigureFails
  <2>3. ProbeOrder' /\ StopOrder'
    BY <1>5 DEF ConfigureFails
  <2> QED
    BY <2>1, <2>2, <2>3 DEF ConfigureFails
<1>6. CASE StartKafka
  BY <1>6 DEF StartKafka, Kafka!Start, Kafka!hist
<1>7. CASE StartRefused
  BY <1>7 DEF StartRefused
<1>8. CASE StartPipeline
  BY <1>8 DEF StartPipeline
<1>9. CASE StartReturns
  BY <1>9 DEF StartReturns
<1>10. CASE GoLive
  BY <1>10 DEF GoLive
<1>11. CASE Exit
  BY <1>11 DEF Exit
<1>12. CASE HomeMissing
  BY <1>12 DEF HomeMissing
<1>13. CASE ConfigureFatal
  BY <1>13 DEF ConfigureFatal
<1>14. CASE StartPipelineFatal
  BY <1>14 DEF StartPipelineFatal
<1> QED
  BY <1>1, <1>2, <1>3, <1>4, <1>5, <1>6, <1>7, <1>8, <1>9, <1>10, <1>11, <1>12,
     <1>13, <1>14 DEF MainThread

\* A step of the thread of the Pipeline module, or of its bus.
LEMMA PipeStep ==
    ASSUME IInv, PipeThread \/ BusQuit \/ StreamFatal
    PROVE  IInv'
<1> USE DEF IInv, TypeOK, MainOrder, ProbeOrder, StopOrder, LicenseOrder, Pipe, Owned, Deleted, Event,
            app, threads, context, processing, ending, license, kafka
<1>1. CASE Play
  BY <1>1 DEF Play
<1>2. CASE Teardown
  BY <1>2 DEF Teardown
<1>3. CASE NotifyStop
  BY <1>3 DEF NotifyStop
<1>4. CASE StopKafka
  BY <1>4 DEF StopKafka, Kafka!StopCall
<1>5. CASE SkipKafka
  BY <1>5 DEF SkipKafka, Kafka!StopSkip, Kafka!hist
<1>6. CASE DrainKafka
  BY <1>6 DEF DrainKafka, Kafka!StopDrained, Kafka!hist
<1>7. CASE KafkaStopped
  BY <1>7 DEF KafkaStopped, Kafka!StopReturn, Kafka!hist
<1>8. CASE KillApp
  BY <1>8 DEF KillApp
<1>9. CASE BusQuit
  BY <1>9 DEF BusQuit
<1>10. CASE StreamFatal
  BY <1>10 DEF StreamFatal
<1> QED
  BY <1>1, <1>2, <1>3, <1>4, <1>5, <1>6, <1>7, <1>8, <1>9, <1>10 DEF PipeThread

\* A step of the streaming thread.
LEMMA ProbeStep ==
    ASSUME IInv, ProbeThread \/ \E p \in Payloads : ProbeAdd(p)
    PROVE  IInv'
<1> USE PayloadsAssumption
<1> USE DEF IInv, TypeOK, MainOrder, ProbeOrder, StopOrder, LicenseOrder, Probe, Owned, Deleted, Event,
            app, threads, context, processing, ending, license, kafka
<1>1. ASSUME NEW p \in Payloads, ProbeAdd(p) PROVE IInv'
  BY <1>1 DEF ProbeAdd
<1>2. CASE MediatorGet
  BY <1>2 DEF MediatorGet
<1>3. CASE MediatorPublish
  BY <1>3 DEF MediatorPublish, Kafka!Publish, Kafka!ctl
<1> QED
  BY <1>1, <1>2, <1>3 DEF ProbeThread

\* Every step keeps the invariant.
LEMMA InvStep == IInv /\ [Next]_vars => IInv'
<1> SUFFICES ASSUME IInv, [Next]_vars PROVE IInv'
  OBVIOUS
<1>1. CASE KafkaAlone
  BY <1>1, AloneSteps, AloneKeeps
     DEF IInv, TypeOK, LicenseOrder, MainOrder, ProbeOrder, StopOrder, app, threads,
         context, processing, ending, license
<1>2. CASE UNCHANGED vars
  BY <1>2 DEF vars, app, threads, context, processing, ending, license, kafka, IInv, TypeOK,
              LicenseOrder, MainOrder, ProbeOrder, StopOrder
<1> QED
  BY <1>1, <1>2, MainStep, PipeStep, ProbeStep DEF Next, KafkaAlone, Ended

\* The inductive invariant holds in every reachable state.
THEOREM Invariant == Spec => []IInv
BY InvInit, InvStep, PTL DEF Spec

-----------------------------------------------------------------------------
(* The messaging component inside the program, and what it loses.          *)

\* A step of the program is one that the component allows, or leaves it alone.
LEMMA DrivesStep == IInv /\ [Next]_vars => [Broker!Next]_(Broker!vars)
<1> SUFFICES ASSUME IInv, [Next]_vars PROVE [Broker!Next]_(Broker!vars)
  OBVIOUS
<1> USE DEF kafka, Kafka!flags, Kafka!work, Kafka!env, Kafka!hist, Kafka!ctl,
            Broker!flags, Broker!work, Broker!env, Broker!hist, Broker!ctl
<1>1. CASE UNCHANGED kafka
  BY <1>1 DEF Broker!vars
<1>2. CASE KafkaAlone
  BY <1>2, AloneSteps
<1>3. CASE ConfigureOk
  BY <1>3 DEF ConfigureOk, Kafka!SetConfigs, Broker!SetConfigs, Broker!Next
<1>4. CASE StartKafka
  BY <1>4 DEF StartKafka, Kafka!Start, Broker!Start, Broker!Next
<1>5. CASE StopKafka
  BY <1>5 DEF StopKafka, Kafka!StopCall, Broker!StopCall, Broker!Next
<1>6. CASE SkipKafka
  BY <1>6 DEF SkipKafka, Kafka!StopSkip, Broker!StopSkip, Broker!Next
<1>7. CASE DrainKafka
  BY <1>7 DEF DrainKafka, Kafka!StopDrained, Broker!StopDrained, Broker!Stopper, Broker!Next
<1>8. CASE KafkaStopped
  BY <1>8 DEF KafkaStopped, Kafka!StopReturn, Broker!StopReturn, Broker!Stopper, Broker!Next
<1>9. CASE MediatorPublish
  <2>1. Kafka!Publish(probe_payload) /\ probe_payload \in Payloads
    BY <1>9, PayloadsAssumption DEF MediatorPublish, Probe, IInv, TypeOK
  <2>2. Broker!Publish(probe_payload)
    BY <2>1 DEF Kafka!Publish, Broker!Publish
  <2> QED
    BY <2>1, <2>2 DEF Broker!Next
<1>10. \/ UNCHANGED kafka \/ KafkaAlone \/ ConfigureOk \/ StartKafka \/ StopKafka
       \/ SkipKafka \/ DrainKafka \/ KafkaStopped \/ MediatorPublish
  BY DEF Next, vars, Ended, MainThread, PipeThread, ProbeThread, KafkaAlone, HomeMissing,
         ConfigureFatal, StartPipelineFatal, BusQuit, StreamFatal, ProbeAdd, CheckLicense,
         Licensed, Unlicensed, ConfigureFails, StartRefused, StartPipeline, StartReturns,
         GoLive, Exit, Play, Teardown, NotifyStop, KillApp, MediatorGet
<1> QED
  BY <1>1, <1>2, <1>3, <1>4, <1>5, <1>6, <1>7, <1>8, <1>9, <1>10

\* The program calls set_configs, start, publish and stop as KafkaBroker
\* assumes they are called: what is proved of the component alone holds of it
\* in the program.
THEOREM DrivesKafka == Spec => Broker!Spec
<1>1. Init => Broker!Init
  BY DEF Init, Kafka!Init, Broker!Init
<1> QED
  BY <1>1, DrivesStep, Invariant, PTL DEF Spec, Broker!Spec

\* At most the one payload in the hand of the producer is not handled when
\* the process ends after stop().
THEOREM LosesAtMostOne == Spec => []ExitLosesAtMostOne
<1>1. IInv /\ Broker!IInv /\ Broker!StopWaitsForQueue => ExitLosesAtMostOne
  <2> SUFFICES ASSUME IInv, Broker!IInv, Broker!StopWaitsForQueue, stop_pc = "done"
               PROVE  Len(finished) + 1 >= Len(published)
    BY DEF ExitLosesAtMostOne
  <2>1. Len(finished) \in Nat /\ Len(published) \in Nat
    BY LenProperties DEF Broker!IInv, Broker!TypeOK
  <2>2. Len(Broker!InHand) \in Nat /\ Len(Broker!InHand) <= 1
    BY DEF Broker!InHand
  <2>3. at_stop = Len(published)
    BY DEF IInv, StopOrder
  <2> QED
    <3>1. Len(finished) + Len(Broker!InHand) >= at_stop
      BY DEF Broker!StopWaitsForQueue
    <3>2. \A f, h, a \in Nat : h <= 1 /\ f + h >= a => f + 1 >= a
      OBVIOUS
    <3> QED
      BY <2>1, <2>2, <2>3, <3>1, <3>2
<1>2. Broker!Spec => [](Broker!IInv) /\ [](Broker!StopWaitsForQueue)
  BY Broker!Invariant, Broker!StopWaits, WorkersAssumption, PayloadsAssumption,
     FaultsAssumption
<1> QED
  BY <1>1, <1>2, Invariant, DrivesKafka, PTL

-----------------------------------------------------------------------------
(* The life of the program.                                                *)

\* The phases, each by the states that are in it.
PhaseRule ==
    /\ fatal \/ aborted => Phase = "died"
    /\ ~fatal /\ ~aborted /\ main_pc = "exited" => Phase = "over"
    /\ Running /\ main_pc = "license" => Phase = "new"
    /\ Running /\ main_pc # "license" /\ ~started => Phase = "licensed"
    /\ Running /\ main_pc # "license" /\ started =>
          /\ pipe_pc \in {"none", "queued", "playing", "quit"} => Phase = "running"
          /\ pipe_pc \in {"finished", "stop"} => Phase = "stopping"
          /\ pipe_pc = "drain" => Phase = "draining"
          /\ pipe_pc \in {"kill", "ended"} => Phase = "stopped"

\* In any state, and so in the next one.
LEMMA PhaseKnown == PhaseRule
<1> USE DEF Phase
<1>1. fatal \/ aborted => Phase = "died"
  BY DEF Running
<1>2. ~fatal /\ ~aborted /\ main_pc = "exited" => Phase = "over"
  <2> SUFFICES ASSUME ~fatal, ~aborted, main_pc = "exited" PROVE Phase = "over"
    OBVIOUS
  <2>1. ~(fatal \/ aborted) /\ ~Running
    BY DEF Running
  <2> QED
    BY <2>1
<1>3. Running /\ main_pc = "license" => Phase = "new"
  <2>1. Running => ~(fatal \/ aborted) /\ main_pc # "exited"
    BY DEF Running
  <2> QED
    BY <2>1
<1>4. Running /\ main_pc # "license" /\ ~started => Phase = "licensed"
  BY DEF Running
<1>5. Running /\ main_pc # "license" /\ started =>
         /\ pipe_pc \in {"none", "queued", "playing", "quit"} => Phase = "running"
         /\ pipe_pc \in {"finished", "stop"} => Phase = "stopping"
         /\ pipe_pc = "drain" => Phase = "draining"
         /\ pipe_pc \in {"kill", "ended"} => Phase = "stopped"
  BY DEF Running
<1> QED
  BY <1>1, <1>2, <1>3, <1>4, <1>5 DEF PhaseRule
LEMMA PhaseKnownNext == PhaseRule'
BY PhaseKnown, PTL

\* While the process is there, it is neither over nor dead.
LEMMA PhaseRunning ==
    ASSUME IInv, Running
    PROVE  Phase \notin {"over", "died"}
BY PhaseKnown DEF PhaseRule, IInv, TypeOK, MainOrder, Running

\* The payloads that wait, in the component and in the proofs about it.
SameWaiting == Kafka!Waiting = Broker!Waiting

LEMMA WaitingSame == SameWaiting
BY DEF SameWaiting, Kafka!Waiting, Broker!Waiting, Kafka!InHand, Broker!InHand
LEMMA WaitingSameNext == SameWaiting'
BY WaitingSame, PTL

\* What the life of the program knows of the messaging component.
BInv == Broker!IInv /\ Broker!ChannelOrder /\ Broker!StopWaitsForQueue

\* It holds in every reachable state.
LEMMA BrokerInv == Spec => []BInv
<1>1. Broker!Spec => [](Broker!IInv) /\ [](Broker!ChannelOrder) /\ [](Broker!StopWaitsForQueue)
  BY Broker!Invariant, Broker!InOrder, Broker!StopWaits, WorkersAssumption,
     PayloadsAssumption, FaultsAssumption
<1> QED
  BY <1>1, DrivesKafka, PTL DEF BInv

\* A step that touches none of the payloads leaves what waits.
LEMMA WaitingLeft ==
    ASSUME BInv, BInv', UNCHANGED <<payload, producer_q>>
    PROVE  Kafka!Waiting' = Kafka!Waiting
<1>1. Broker!Waiting' = Broker!Waiting
  BY Broker!WaitingKept, WorkersAssumption, PayloadsAssumption, FaultsAssumption DEF BInv
<1> QED
  BY <1>1, WaitingSame, WaitingSameNext DEF SameWaiting

\* Nothing waits before start().
LEMMA NothingWaits ==
    ASSUME IInv, BInv, ~started
    PROVE  Kafka!Waiting = <<>>
<1>1. published = <<>>
  BY DEF IInv, StopOrder
<1>2. finished \in Seq(Payloads) /\ Broker!Waiting \in Seq(Payloads)
  BY Broker!WaitingType, WorkersAssumption, PayloadsAssumption, FaultsAssumption
     DEF BInv, Broker!IInv, Broker!TypeOK
<1>3. Len(finished) + Len(Broker!Waiting) = 0
  <2>1. finished \o Broker!Waiting = <<>>
    BY <1>1 DEF BInv, Broker!ChannelOrder
  <2>2. Len(finished \o Broker!Waiting) = Len(finished) + Len(Broker!Waiting)
    BY <1>2, ConcatProperties
  <2> QED
    BY <2>1, <2>2
<1>4. Broker!Waiting = <<>>
  BY <1>2, <1>3, EmptySeq, LenProperties
<1> QED
  BY <1>4, WaitingSame DEF SameWaiting

\* When the drain loop was left, at most the payload in the producer's hand
\* waits.
LEMMA OneWaits ==
    ASSUME IInv, BInv, stop_pc = "drained"
    PROVE  Len(Kafka!Waiting) <= 1
<1>1. /\ finished \in Seq(Payloads) /\ Broker!Waiting \in Seq(Payloads)
      /\ published = finished \o Broker!Waiting
  BY Broker!WaitingType, WorkersAssumption, PayloadsAssumption, FaultsAssumption
     DEF BInv, Broker!IInv, Broker!TypeOK, Broker!ChannelOrder
<1>2. Len(published) = Len(finished) + Len(Broker!Waiting)
  BY <1>1, ConcatProperties
<1>3. Len(finished) \in Nat /\ Len(Broker!Waiting) \in Nat
  BY <1>1, LenProperties
<1>4. Len(Broker!InHand) \in Nat /\ Len(Broker!InHand) <= 1
  BY DEF Broker!InHand
<1>5. Len(finished) + Len(Broker!InHand) >= Len(published)
  BY DEF BInv, Broker!StopWaitsForQueue, IInv, StopOrder
<1>6. Len(Broker!Waiting) <= 1
  <2>1. \A f, h, w \in Nat : h <= 1 /\ f + h >= f + w => w <= 1
    OBVIOUS
  <2> QED
    BY <1>2, <1>3, <1>4, <1>5, <2>1
<1> QED
  BY <1>6, WaitingSame DEF SameWaiting

\* A step of the main thread is a step of the life, or none.
LEMMA LifeMain ==
    ASSUME IInv, IInv', BInv, BInv',
           MainThread \/ HomeMissing \/ ConfigureFatal \/ StartPipelineFatal
    PROVE  [Life!Next]_(Life!vars)
<1> USE PhaseKnown, PhaseKnownNext
<1> USE DEF PhaseRule, Running, Main, app, threads, context, processing, ending, license, kafka,
            Life!Next, Life!Move, Life!vars
<1>1. UNCHANGED <<payload, producer_q, finished>>
  BY DEF MainThread, HomeMissing, ConfigureFatal, StartPipelineFatal, CheckLicense, Licensed,
         Unlicensed, ConfigureOk, ConfigureFails, StartKafka, StartRefused, StartPipeline,
         StartReturns, GoLive, Exit, Kafka!SetConfigs, Kafka!Start, Kafka!work, Kafka!hist
<1>2. UNCHANGED <<Kafka!Waiting, finished>>
  BY <1>1, WaitingLeft
<1>3. CASE CheckLicense
  BY <1>2, <1>3 DEF CheckLicense
<1>4. CASE Licensed
  BY <1>2, <1>4 DEF Licensed, Life!License, IInv, MainOrder
<1>5. CASE Unlicensed
  BY <1>2, <1>5 DEF Unlicensed, Life!Refuse
<1>6. CASE ConfigureOk
  BY <1>2, <1>6 DEF ConfigureOk, IInv, MainOrder, Kafka!SetConfigs, Kafka!env, Kafka!ctl
<1>7. CASE ConfigureFails
  BY <1>2, <1>7 DEF ConfigureFails, IInv, MainOrder
<1>8. CASE StartKafka
  BY <1>2, <1>8 DEF StartKafka, IInv, MainOrder, Kafka!Start, Kafka!env, Life!Start
<1>9. CASE StartRefused
  BY <1>2, <1>9 DEF StartRefused, IInv, MainOrder
<1>10. CASE StartPipeline
  BY <1>2, <1>10 DEF StartPipeline, IInv, MainOrder
<1>11. CASE StartReturns
  <2>1. Phase' = Phase
    BY <1>11 DEF StartReturns, IInv, TypeOK
  <2> QED
    BY <1>2, <2>1
<1>12. CASE GoLive
  <2>1. Phase' = Phase
    BY <1>12 DEF GoLive, IInv, TypeOK
  <2> QED
    BY <1>2, <2>1
<1>13. CASE Exit
  <2>1. CASE started
    BY <1>2, <1>13, <2>1 DEF Exit, IInv, MainOrder, TypeOK, Life!Exit
  <2>2. CASE ~started
    BY <1>2, <1>13, <2>2, NothingWaits DEF Exit, Life!Close
  <2> QED
    BY <2>1, <2>2
<1>14. CASE HomeMissing \/ ConfigureFatal \/ StartPipelineFatal
  <2>1. Phase \notin {"over", "died"} /\ Phase' = "died"
    BY <1>14, PhaseRunning DEF HomeMissing, ConfigureFatal, StartPipelineFatal
  <2> QED
    BY <1>2, <2>1 DEF Life!Die
<1> QED
  BY <1>3, <1>4, <1>5, <1>6, <1>7, <1>8, <1>9, <1>10, <1>11, <1>12, <1>13, <1>14 DEF MainThread

\* So is a step of the thread of the Pipeline module, or of its bus.
LEMMA LifePipe ==
    ASSUME IInv, IInv', BInv, BInv', PipeThread \/ BusQuit \/ StreamFatal
    PROVE  [Life!Next]_(Life!vars)
<1> USE PhaseKnown, PhaseKnownNext
<1> USE DEF PhaseRule, Running, Pipe, app, threads, context, processing, ending, license, kafka,
            Life!Next, Life!Move, Life!vars
<1>1. UNCHANGED <<payload, producer_q, finished, started, aborted>>
  BY DEF PipeThread, BusQuit, StreamFatal, Play, Teardown, NotifyStop, StopKafka, SkipKafka,
         DrainKafka, KafkaStopped, KillApp, Kafka!StopCall, Kafka!StopSkip, Kafka!StopDrained,
         Kafka!StopReturn, Kafka!work, Kafka!hist, Kafka!env
<1>2. UNCHANGED <<Kafka!Waiting, finished>>
  BY <1>1, WaitingLeft
<1>3. /\ pipe_pc # "none" => started
      /\ main_pc = "license" => ~started
  BY DEF IInv, MainOrder
<1>4. CASE Play \/ BusQuit
  BY <1>1, <1>2, <1>3, <1>4 DEF Play, BusQuit
<1>5. CASE Teardown
  BY <1>1, <1>2, <1>3, <1>5 DEF Teardown, Life!Stop
<1>6. CASE NotifyStop
  BY <1>1, <1>2, <1>3, <1>6 DEF NotifyStop
<1>7. CASE StopKafka
  BY <1>1, <1>2, <1>3, <1>7 DEF StopKafka, Life!Drain
<1>8. CASE SkipKafka
  BY <1>1, <1>2, <1>3, <1>8 DEF SkipKafka, Life!Skip
<1>9. CASE DrainKafka
  <2>1. Phase' = Phase
    BY <1>1, <1>9 DEF DrainKafka, Phase
  <2> QED
    BY <1>2, <2>1
<1>10. CASE KafkaStopped
  <2>1. Len(Kafka!Waiting) <= 1
    BY <1>10, OneWaits DEF KafkaStopped, Kafka!StopReturn
  <2>2. Phase = "draining" /\ Phase' = "stopped"
    BY <1>1, <1>3, <1>10 DEF KafkaStopped
  <2> QED
    BY <1>2, <2>1, <2>2 DEF Life!Drained
<1>11. CASE KillApp
  BY <1>1, <1>2, <1>3, <1>11 DEF KillApp
<1>12. CASE StreamFatal
  <2>1. Phase \notin {"over", "died"} /\ Phase' = "died"
    BY <1>12, PhaseRunning DEF StreamFatal
  <2> QED
    BY <1>2, <2>1 DEF Life!Die
<1> QED
  BY <1>4, <1>5, <1>6, <1>7, <1>8, <1>9, <1>10, <1>11, <1>12 DEF PipeThread

\* The streaming thread puts payloads, and only while the program runs.
LEMMA LifeProbe ==
    ASSUME IInv, IInv', BInv, BInv', ProbeThread \/ \E p \in Payloads : ProbeAdd(p)
    PROVE  [Life!Next]_(Life!vars)
<1> USE DEF Running, Probe, app, threads, context, processing, ending, license, kafka
<1>1. UNCHANGED <<main_pc, pipe_pc, fatal, started, aborted>>
  BY DEF ProbeThread, ProbeAdd, MediatorGet, MediatorPublish, Kafka!Publish, Kafka!env, Kafka!ctl
<1>2. Phase' = Phase
  BY <1>1 DEF Phase
<1>3. CASE MediatorGet \/ \E p \in Payloads : ProbeAdd(p)
  <2>1. UNCHANGED <<payload, producer_q, finished>>
    BY <1>3 DEF MediatorGet, ProbeAdd
  <2> QED
    BY <1>2, <2>1, WaitingLeft DEF Life!vars
<1>4. CASE MediatorPublish
  <2>1. Kafka!Publish(probe_payload) /\ probe_payload \in Payloads
    BY <1>4, PayloadsAssumption DEF MediatorPublish, IInv, TypeOK
  <2>2. Broker!Publish(probe_payload)
    BY <2>1 DEF Kafka!Publish, Broker!Publish, Kafka!flags, Kafka!work, Kafka!env, Kafka!ctl,
                Broker!flags, Broker!work, Broker!env, Broker!ctl
  <2>3. Broker!Waiting' = Append(Broker!Waiting, probe_payload) /\ UNCHANGED finished
    BY <2>1, <2>2, Broker!PublishPuts, WorkersAssumption, PayloadsAssumption, FaultsAssumption
       DEF BInv
  <2>4. Kafka!Waiting' = Append(Kafka!Waiting, probe_payload)
    BY <2>3, WaitingSame, WaitingSameNext DEF SameWaiting
  <2>5. Phase = "running"
    BY <1>4, PhaseKnown DEF MediatorPublish, PhaseRule, IInv, MainOrder, ProbeOrder
  <2>6. Life!Put(probe_payload)
    BY <1>2, <2>3, <2>4, <2>5 DEF Life!Put
  <2> QED
    BY <2>1, <2>6 DEF Life!Next
<1> QED
  BY <1>3, <1>4 DEF ProbeThread

\* Left alone, messaging handles the first payload that waits, or dies, or
\* does nothing that the life of the program knows of.
LEMMA LifeAlone ==
    ASSUME IInv, IInv', BInv, BInv', KafkaAlone
    PROVE  [Life!Next]_(Life!vars)
<1>1. UNCHANGED app /\ UNCHANGED <<started, published>> /\ Running
  BY AloneSteps, AloneKeeps DEF KafkaAlone, KafkaWorker, KafkaDelivers, BrokerReturns, KafkaFault
<1>2. Broker!Next
  BY AloneSteps
<1>3. \/ aborted' = aborted
      \/ aborted' = TRUE /\ UNCHANGED <<payload, producer_q, finished>>
  BY DEF KafkaAlone, KafkaWorker, KafkaDelivers, BrokerReturns, KafkaFault,
       Kafka!Worker, Kafka!Validator, Kafka!Poller, Kafka!TakeTask, Kafka!ValidateDisabled,
       Kafka!ValidateBegin, Kafka!Connected, Kafka!Spawn, Kafka!PollBegin,
       Kafka!PollConstruct, Kafka!PollTest, Kafka!PollSize, Kafka!PollPop, Kafka!PollDrop,
       Kafka!PollSend, Kafka!PollClose, Kafka!CatchClear, Kafka!CatchRepush,
       Kafka!CatchLeave, Kafka!ConnectThrows, Kafka!PollConstructThrows, Kafka!PollSendThrows,
       Kafka!Delivered, Kafka!DeliveryFails, Kafka!BrokerUp, Kafka!BrokerDown,
       Kafka!env, Kafka!work, Kafka!hist
<1>4. CASE aborted' = TRUE /\ UNCHANGED <<payload, producer_q, finished>>
  <2>1. Phase \notin {"over", "died"} /\ Phase' = "died"
    BY <1>1, <1>4, PhaseRunning, PhaseKnownNext DEF PhaseRule
  <2> QED
    BY <1>4, <2>1, WaitingLeft DEF Life!Die, Life!Next
<1>5. CASE aborted' = aborted
  <2>1. Phase' = Phase
    BY <1>1, <1>5 DEF Phase, Running, app, threads, ending
  <2>2. \/ UNCHANGED <<Broker!Waiting, finished>>
        \/ /\ Broker!Waiting # <<>>
           /\ finished' = Append(finished, Head(Broker!Waiting))
           /\ Broker!Waiting' = Tail(Broker!Waiting)
    <3>1. published \in Seq(Payloads)
      BY DEF BInv, Broker!IInv, Broker!TypeOK
    <3>2. \A p \in Payloads : published # Append(published, p)
      <4>1. \A p \in Payloads : Len(Append(published, p)) = Len(published) + 1
        BY <3>1, AppendProperties
      <4>2. Len(published) \in Nat
        BY <3>1, LenProperties
      <4> QED
        BY <4>1, <4>2
    <3> QED
      BY <1>1, <1>2, <3>2, Broker!WaitingStep, WorkersAssumption, PayloadsAssumption,
         FaultsAssumption DEF BInv
  <2>3. CASE UNCHANGED <<Broker!Waiting, finished>>
    BY <2>1, <2>3, WaitingSame, WaitingSameNext DEF SameWaiting, Life!vars
  <2>4. CASE /\ Broker!Waiting # <<>>
             /\ finished' = Append(finished, Head(Broker!Waiting))
             /\ Broker!Waiting' = Tail(Broker!Waiting)
    <3>1. started
      BY <2>4, NothingWaits, WaitingSame DEF SameWaiting
    <3>2. Phase \in {"running", "stopping", "draining", "stopped"}
      BY <1>1, <3>1, PhaseKnown DEF PhaseRule, IInv, TypeOK, MainOrder
    <3>3. /\ Kafka!Waiting # <<>>
          /\ finished' = Append(finished, Head(Kafka!Waiting))
          /\ Kafka!Waiting' = Tail(Kafka!Waiting)
      BY <2>4, WaitingSame, WaitingSameNext DEF SameWaiting
    <3> QED
      BY <2>1, <3>2, <3>3 DEF Life!Handle, Life!Next
  <2> QED
    BY <2>2, <2>3, <2>4
<1> QED
  BY <1>3, <1>4, <1>5

\* The program implements the life it promises, for any number of workers,
\* payloads and faults, and whether the main thread is prompt or not.
THEOREM ImplementsLife == Spec => LifeSpec
<1>1. Init => Life!Init
  <2> SUFFICES ASSUME Init PROVE Life!Init
    OBVIOUS
  <2>1. Kafka!Waiting = <<>> /\ finished = <<>>
    BY DEF Init, Kafka!Init, Kafka!Waiting, Kafka!InHand
  <2>2. Phase = "new"
    BY PhaseKnown DEF PhaseRule, Init, Kafka!Init, Running
  <2> QED
    BY <2>1, <2>2 DEF Life!Init
<1>2. IInv /\ IInv' /\ BInv /\ BInv' /\ [Next]_vars => [Life!Next]_(Life!vars)
  <2> SUFFICES ASSUME IInv, IInv', BInv, BInv', [Next]_vars PROVE [Life!Next]_(Life!vars)
    OBVIOUS
  <2>1. CASE UNCHANGED vars
    <3>1. UNCHANGED <<payload, producer_q, finished>> /\ Phase' = Phase
      BY <2>1 DEF vars, app, threads, ending, kafka, Phase, Running
    <3> QED
      BY <3>1, WaitingLeft DEF Life!vars
  <2> QED
    BY <2>1, LifeMain, LifePipe, LifeProbe, LifeAlone DEF Next, KafkaAlone, Ended
<1> QED
  BY <1>1, <1>2, Invariant, BrokerInv, PTL DEF Spec, LifeSpec, Life!Spec

-----------------------------------------------------------------------------
(* The invariants the run checks.                                          *)

\* The types are kept.
THEOREM TypeCorrect == Spec => []TypeOK
BY Invariant, PTL DEF IInv

\* start() never refuses because of the order of its own calls.
THEOREM RefusalHasReason == Spec => []RefusedHasReason
<1>1. IInv => RefusedHasReason
  BY DEF IInv, LicenseOrder, RefusedHasReason
<1> QED
  BY <1>1, Invariant, PTL

\* Nothing is started before every call of the license library succeeded.
THEOREM LicensedOnly == Spec => []NothingWithoutLicense
<1>1. IInv => NothingWithoutLicense
  BY DEF IInv, LicenseOrder, MainOrder, NothingWithoutLicense
<1> QED
  BY <1>1, Invariant, PTL

\* No payload is published while kafka is stopped or after.
THEOREM NoPublishAtStop == Spec => []StopMeetsNoPublish
<1>1. IInv => StopMeetsNoPublish
  BY DEF IInv, TypeOK, ProbeOrder, StopMeetsNoPublish
<1> QED
  BY <1>1, Invariant, PTL

\* The Mediator takes each payload off the meta queue once.
THEOREM HandedOver == Spec => []MetaQueueHandedOver
<1>1. IInv => MetaQueueHandedOver
  BY DEF IInv, TypeOK, ProbeOrder, MetaQueueHandedOver
<1> QED
  BY <1>1, Invariant, PTL

\* The process ends neither under a pipeline nor before its STOP_MODULES is
\* done, whether the main thread is prompt or not.
THEOREM ExitsAfterPipeline == Spec => []ExitAfterPipeline
<1>1. IInv => ExitAfterPipeline
  BY DEF IInv, MainOrder, ExitAfterPipeline
<1> QED
  BY <1>1, Invariant, PTL
=============================================================================
