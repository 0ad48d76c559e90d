------------------------- MODULE KafkaBrokerProofs -------------------------
(***************************************************************************)
(* Theorems about the messaging component, for every number of workers,    *)
(* every set of payloads and any number of faults.                         *)
(***************************************************************************)
EXTENDS KafkaBroker, SequenceTheorems, TLAPS

-----------------------------------------------------------------------------
(* Type correctness.                                                       *)

\* The initial state is well typed.
LEMMA TypeInit == Init => TypeOK
<1> SUFFICES ASSUME Init PROVE TypeOK
  OBVIOUS
<1>1. payload \in [Workers -> Payloads \cup {NoPayload}]
      /\ \A w \in Workers : payload[w] # NoPayload <=> pc[w] = "send"
  BY DEF Init
<1>2. faults \in 0..MaxFaults /\ at_stop \in Nat
  BY FaultsAssumption DEF Init
<1>3. pc \in [Workers -> Places] /\ fate \in [Payloads -> Fates]
  BY DEF Init, Places, Fates
<1>4. tasks \in Seq(Tasks) /\ producer_q \in Seq(Payloads)
      /\ published \in Seq(Payloads) /\ finished \in Seq(Payloads)
  BY DEF Init
<1> QED
  BY <1>1, <1>2, <1>3, <1>4 DEF Init, TypeOK

\* Every step keeps the types.
LEMMA TypeStep == TypeOK /\ [Next]_vars => TypeOK'
<1> SUFFICES ASSUME TypeOK, [Next]_vars PROVE TypeOK'
  OBVIOUS
<1> USE PayloadsAssumption, FaultsAssumption
<1> USE DEF TypeOK, Tasks, Places, Fates, flags, work, env, hist, ctl
<1>1. ASSUME NEW e \in BOOLEAN, SetConfigs(e) PROVE TypeOK'
  BY <1>1 DEF SetConfigs
<1>2. CASE Start
  BY <1>2 DEF Start
<1>3. ASSUME NEW p \in Payloads, Publish(p) PROVE TypeOK'
  BY <1>3 DEF Publish
<1>4. ASSUME NEW p \in Payloads, Delivered(p) PROVE TypeOK'
  BY <1>4 DEF Delivered
<1>5. ASSUME NEW p \in Payloads, DeliveryFails(p) PROVE TypeOK'
  BY <1>5 DEF DeliveryFails
<1>6. CASE StopCall
  BY <1>6 DEF StopCall
<1>7. CASE StopSkip
  BY <1>7 DEF StopSkip
<1>8. CASE StopDrained
  BY <1>8 DEF StopDrained
<1>9. CASE StopReturn
  BY <1>9 DEF StopReturn
<1>10. CASE BrokerUp
  BY <1>10 DEF BrokerUp
<1>11. CASE BrokerDown
  <2>1. faults' \in 0..MaxFaults
    BY <1>11 DEF BrokerDown, Fault
  <2> QED
    BY <1>11, <2>1 DEF BrokerDown
<1>12. ASSUME NEW w \in Workers, TakeTask(w) PROVE TypeOK'
  BY <1>12 DEF TakeTask, Goto
<1>13. ASSUME NEW w \in Workers, ValidateDisabled(w) PROVE TypeOK'
  BY <1>13 DEF ValidateDisabled, Goto
<1>14. ASSUME NEW w \in Workers, ValidateBegin(w) PROVE TypeOK'
  BY <1>14 DEF ValidateBegin, Goto
<1>15. ASSUME NEW w \in Workers, Connected(w) PROVE TypeOK'
  BY <1>15 DEF Connected, Goto
<1>16. ASSUME NEW w \in Workers, Spawn(w) PROVE TypeOK'
  BY <1>16 DEF Spawn, Goto
<1>17. ASSUME NEW w \in Workers, PollBegin(w) PROVE TypeOK'
  BY <1>17 DEF PollBegin, Goto
<1>18. ASSUME NEW w \in Workers, PollConstruct(w) PROVE TypeOK'
  BY <1>18 DEF PollConstruct, Goto
<1>19. ASSUME NEW w \in Workers, PollTest(w) PROVE TypeOK'
  BY <1>19 DEF PollTest, Goto
<1>20. ASSUME NEW w \in Workers, PollSize(w) PROVE TypeOK'
  BY <1>20 DEF PollSize, Goto
<1>21. ASSUME NEW w \in Workers, PollPop(w) PROVE TypeOK'
  BY <1>21 DEF PollPop, Goto
<1>22. ASSUME NEW w \in Workers, PollDrop(w) PROVE TypeOK'
  BY <1>22 DEF PollDrop, Goto, Finish
<1>23. ASSUME NEW w \in Workers, PollSend(w) PROVE TypeOK'
  BY <1>23 DEF PollSend, Goto, Finish
<1>24. ASSUME NEW w \in Workers, PollClose(w) PROVE TypeOK'
  BY <1>24 DEF PollClose, Goto
<1>25. ASSUME NEW w \in Workers, CatchClear(w) PROVE TypeOK'
  BY <1>25 DEF CatchClear, Goto
<1>26. ASSUME NEW w \in Workers, CatchRepush(w) PROVE TypeOK'
  BY <1>26 DEF CatchRepush, Goto
<1>27. ASSUME NEW w \in Workers, CatchLeave(w) PROVE TypeOK'
  BY <1>27 DEF CatchLeave, Goto
<1>28. ASSUME NEW w \in Workers, ConnectThrows(w) \/ PollConstructThrows(w) PROVE TypeOK'
  <2>1. faults' \in 0..MaxFaults
    BY <1>28 DEF ConnectThrows, PollConstructThrows, Fault
  <2> QED
    BY <1>28, <2>1 DEF ConnectThrows, PollConstructThrows
<1>29. ASSUME NEW w \in Workers, PollSendThrows(w) PROVE TypeOK'
  BY <1>29 DEF PollSendThrows, Goto, Finish, Fault
<1>30. CASE UNCHANGED vars
  BY <1>30 DEF vars
<1> QED
  BY <1>1, <1>2, <1>3, <1>4, <1>5, <1>6, <1>7, <1>8, <1>9, <1>10, <1>11,
     <1>12, <1>13, <1>14, <1>15, <1>16, <1>17, <1>18, <1>19, <1>20, <1>21,
     <1>22, <1>23, <1>24, <1>25, <1>26, <1>27, <1>28, <1>29, <1>30
     DEF Next, Stopper, Worker, Validator, Poller

-----------------------------------------------------------------------------
(* The inductive invariant: at most one task or worker is responsible for  *)
(* the producer, and none before start(); the run flag and a successful    *)
(* size test belong to that worker.                                        *)

\* Nothing is scheduled before start().
NothingBeforeStart ==
    ~started => tasks = <<>> /\ \A w \in Workers : ~Responsible(w)

IInv ==
    /\ TypeOK
    /\ OneProducerTask
    /\ NothingBeforeStart
    /\ RunFlagMeansProducer
    /\ PopFindsPayload

\* Every step keeps the task unique.
LEMMA TaskStep ==
    ASSUME TypeOK, OneProducerTask, NothingBeforeStart, [Next]_vars
    PROVE  OneProducerTask' /\ NothingBeforeStart'
<1> USE DEF OneProducerTask, NothingBeforeStart, Responsible, TypeOK, flags, work, env, hist, ctl
<1>1. ASSUME NEW e \in BOOLEAN, SetConfigs(e) PROVE OneProducerTask' /\ NothingBeforeStart'
  BY <1>1 DEF SetConfigs
<1>2. CASE Start
  BY <1>2 DEF Start
<1>3. ASSUME NEW p \in Payloads, Publish(p) PROVE OneProducerTask' /\ NothingBeforeStart'
  BY <1>3 DEF Publish
<1>4. ASSUME NEW p \in Payloads, Delivered(p) PROVE OneProducerTask' /\ NothingBeforeStart'
  BY <1>4 DEF Delivered
<1>5. ASSUME NEW p \in Payloads, DeliveryFails(p) PROVE OneProducerTask' /\ NothingBeforeStart'
  BY <1>5 DEF DeliveryFails
<1>6. CASE StopCall
  BY <1>6 DEF StopCall
<1>7. CASE StopSkip
  BY <1>7 DEF StopSkip
<1>8. CASE StopDrained
  BY <1>8 DEF StopDrained
<1>9. CASE StopReturn
  BY <1>9 DEF StopReturn
<1>10. CASE BrokerUp
  BY <1>10 DEF BrokerUp
<1>11. CASE BrokerDown
  BY <1>11 DEF BrokerDown, Fault
<1>12. ASSUME NEW w \in Workers, TakeTask(w) PROVE OneProducerTask' /\ NothingBeforeStart'
  BY <1>12 DEF TakeTask, Goto
<1>13. ASSUME NEW w \in Workers, ValidateDisabled(w) PROVE OneProducerTask' /\ NothingBeforeStart'
  BY <1>13 DEF ValidateDisabled, Goto
<1>14. ASSUME NEW w \in Workers, ValidateBegin(w) PROVE OneProducerTask' /\ NothingBeforeStart'
  BY <1>14 DEF ValidateBegin, Goto
<1>15. ASSUME NEW w \in Workers, Connected(w) PROVE OneProducerTask' /\ NothingBeforeStart'
  BY <1>15 DEF Connected, Goto
<1>16. ASSUME NEW w \in Workers, Spawn(w) PROVE OneProducerTask' /\ NothingBeforeStart'
  BY <1>16 DEF Spawn, Goto
<1>17. ASSUME NEW w \in Workers, PollBegin(w) PROVE OneProducerTask' /\ NothingBeforeStart'
  BY <1>17 DEF PollBegin, Goto
<1>18. ASSUME NEW w \in Workers, PollConstruct(w) PROVE OneProducerTask' /\ NothingBeforeStart'
  BY <1>18 DEF PollConstruct, Goto
<1>19. ASSUME NEW w \in Workers, PollTest(w) PROVE OneProducerTask' /\ NothingBeforeStart'
  BY <1>19 DEF PollTest, Goto
<1>20. ASSUME NEW w \in Workers, PollSize(w) PROVE OneProducerTask' /\ NothingBeforeStart'
  BY <1>20 DEF PollSize, Goto
<1>21. ASSUME NEW w \in Workers, PollPop(w) PROVE OneProducerTask' /\ NothingBeforeStart'
  BY <1>21 DEF PollPop, Goto
<1>22. ASSUME NEW w \in Workers, PollDrop(w) PROVE OneProducerTask' /\ NothingBeforeStart'
  BY <1>22 DEF PollDrop, Goto, Finish
<1>23. ASSUME NEW w \in Workers, PollSend(w) PROVE OneProducerTask' /\ NothingBeforeStart'
  BY <1>23 DEF PollSend, Goto, Finish
<1>24. ASSUME NEW w \in Workers, PollClose(w) PROVE OneProducerTask' /\ NothingBeforeStart'
  BY <1>24 DEF PollClose, Goto
<1>25. ASSUME NEW w \in Workers, CatchClear(w) PROVE OneProducerTask' /\ NothingBeforeStart'
  BY <1>25 DEF CatchClear, Goto
<1>26. ASSUME NEW w \in Workers, CatchRepush(w) PROVE OneProducerTask' /\ NothingBeforeStart'
  BY <1>26 DEF CatchRepush, Goto
<1>27. ASSUME NEW w \in Workers, CatchLeave(w) PROVE OneProducerTask' /\ NothingBeforeStart'
  BY <1>27 DEF CatchLeave, Goto
<1>28. ASSUME NEW w \in Workers, ConnectThrows(w) \/ PollConstructThrows(w) PROVE OneProducerTask' /\ NothingBeforeStart'
  BY <1>28 DEF ConnectThrows, PollConstructThrows, Fault
<1>29. ASSUME NEW w \in Workers, PollSendThrows(w) PROVE OneProducerTask' /\ NothingBeforeStart'
  BY <1>29 DEF PollSendThrows, Goto, Finish, Fault
<1>30. CASE UNCHANGED vars
  BY <1>30 DEF vars
<1> QED
  BY <1>1, <1>2, <1>3, <1>4, <1>5, <1>6, <1>7, <1>8, <1>9, <1>10, <1>11,
     <1>12, <1>13, <1>14, <1>15, <1>16, <1>17, <1>18, <1>19, <1>20, <1>21,
     <1>22, <1>23, <1>24, <1>25, <1>26, <1>27, <1>28, <1>29, <1>30
     DEF Next, Stopper, Worker, Validator, Poller

\* Every step keeps the flag and the size test with the responsible worker.
LEMMA FlagStep ==
    ASSUME TypeOK, OneProducerTask, NothingBeforeStart,
           RunFlagMeansProducer, PopFindsPayload, [Next]_vars
    PROVE  RunFlagMeansProducer' /\ PopFindsPayload'
<1> USE DEF OneProducerTask, Responsible, RunFlagMeansProducer, PopFindsPayload,
            TypeOK, flags, work, env, hist, ctl
<1>1. ASSUME NEW e \in BOOLEAN, SetConfigs(e) PROVE RunFlagMeansProducer' /\ PopFindsPayload'
  BY <1>1 DEF SetConfigs
<1>2. CASE Start
  BY <1>2 DEF Start
<1>3. ASSUME NEW p \in Payloads, Publish(p) PROVE RunFlagMeansProducer' /\ PopFindsPayload'
  <2>1. producer_q' # <<>>
    <3>1. Len(producer_q') = Len(producer_q) + 1 /\ Len(producer_q) \in Nat
      BY <1>3 DEF Publish
    <3> QED
      BY <3>1
  <2> QED
    BY <1>3, <2>1 DEF Publish
<1>4. ASSUME NEW p \in Payloads, Delivered(p) PROVE RunFlagMeansProducer' /\ PopFindsPayload'
  BY <1>4 DEF Delivered
<1>5. ASSUME NEW p \in Payloads, DeliveryFails(p) PROVE RunFlagMeansProducer' /\ PopFindsPayload'
  BY <1>5 DEF DeliveryFails
<1>6. CASE StopCall
  BY <1>6 DEF StopCall
<1>7. CASE StopSkip
  BY <1>7 DEF StopSkip
<1>8. CASE StopDrained
  BY <1>8 DEF StopDrained
<1>9. CASE StopReturn
  BY <1>9 DEF StopReturn
<1>10. CASE BrokerUp
  BY <1>10 DEF BrokerUp
<1>11. CASE BrokerDown
  BY <1>11 DEF BrokerDown, Fault
<1>12. ASSUME NEW w \in Workers, TakeTask(w) PROVE RunFlagMeansProducer' /\ PopFindsPayload'
  BY <1>12 DEF TakeTask, Goto
<1>13. ASSUME NEW w \in Workers, ValidateDisabled(w) PROVE RunFlagMeansProducer' /\ PopFindsPayload'
  BY <1>13 DEF ValidateDisabled, Goto
<1>14. ASSUME NEW w \in Workers, ValidateBegin(w) PROVE RunFlagMeansProducer' /\ PopFindsPayload'
  BY <1>14 DEF ValidateBegin, Goto
<1>15. ASSUME NEW w \in Workers, Connected(w) PROVE RunFlagMeansProducer' /\ PopFindsPayload'
  BY <1>15 DEF Connected, Goto
<1>16. ASSUME NEW w \in Workers, Spawn(w) PROVE RunFlagMeansProducer' /\ PopFindsPayload'
  BY <1>16 DEF Spawn, Goto
<1>17. ASSUME NEW w \in Workers, PollBegin(w) PROVE RunFlagMeansProducer' /\ PopFindsPayload'
  BY <1>17 DEF PollBegin, Goto
<1>18. ASSUME NEW w \in Workers, PollConstruct(w) PROVE RunFlagMeansProducer' /\ PopFindsPayload'
  BY <1>18 DEF PollConstruct, Goto
<1>19. ASSUME NEW w \in Workers, PollTest(w) PROVE RunFlagMeansProducer' /\ PopFindsPayload'
  BY <1>19 DEF PollTest, Goto
<1>20. ASSUME NEW w \in Workers, PollSize(w) PROVE RunFlagMeansProducer' /\ PopFindsPayload'
  BY <1>20 DEF PollSize, Goto
<1>21. ASSUME NEW w \in Workers, PollPop(w) PROVE RunFlagMeansProducer' /\ PopFindsPayload'
  BY <1>21 DEF PollPop, Goto
<1>22. ASSUME NEW w \in Workers, PollDrop(w) PROVE RunFlagMeansProducer' /\ PopFindsPayload'
  BY <1>22 DEF PollDrop, Goto, Finish
<1>23. ASSUME NEW w \in Workers, PollSend(w) PROVE RunFlagMeansProducer' /\ PopFindsPayload'
  BY <1>23 DEF PollSend, Goto, Finish
<1>24. ASSUME NEW w \in Workers, PollClose(w) PROVE RunFlagMeansProducer' /\ PopFindsPayload'
  BY <1>24 DEF PollClose, Goto
<1>25. ASSUME NEW w \in Workers, CatchClear(w) PROVE RunFlagMeansProducer' /\ PopFindsPayload'
  BY <1>25 DEF CatchClear, Goto
<1>26. ASSUME NEW w \in Workers, CatchRepush(w) PROVE RunFlagMeansProducer' /\ PopFindsPayload'
  BY <1>26 DEF CatchRepush, Goto
<1>27. ASSUME NEW w \in Workers, CatchLeave(w) PROVE RunFlagMeansProducer' /\ PopFindsPayload'
  BY <1>27 DEF CatchLeave, Goto
<1>28. ASSUME NEW w \in Workers, ConnectThrows(w) \/ PollConstructThrows(w) PROVE RunFlagMeansProducer' /\ PopFindsPayload'
  BY <1>28 DEF ConnectThrows, PollConstructThrows, Fault
<1>29. ASSUME NEW w \in Workers, PollSendThrows(w) PROVE RunFlagMeansProducer' /\ PopFindsPayload'
  BY <1>29 DEF PollSendThrows, Goto, Finish, Fault
<1>30. CASE UNCHANGED vars
  BY <1>30 DEF vars
<1> QED
  BY <1>1, <1>2, <1>3, <1>4, <1>5, <1>6, <1>7, <1>8, <1>9, <1>10, <1>11,
     <1>12, <1>13, <1>14, <1>15, <1>16, <1>17, <1>18, <1>19, <1>20, <1>21,
     <1>22, <1>23, <1>24, <1>25, <1>26, <1>27, <1>28, <1>29, <1>30
     DEF Next, Stopper, Worker, Validator, Poller

\* The inductive invariant holds in every reachable state.
THEOREM Invariant == Spec => []IInv
<1>1. Init => IInv
  <2> SUFFICES ASSUME Init PROVE IInv
    OBVIOUS
  <2>1. TypeOK
    BY TypeInit
  <2> QED
    BY <2>1 DEF Init, IInv, OneProducerTask, Responsible, NothingBeforeStart,
                RunFlagMeansProducer, PopFindsPayload
<1>2. IInv /\ [Next]_vars => IInv'
  BY TypeStep, TaskStep, FlagStep DEF IInv
<1> QED
  BY <1>1, <1>2, PTL DEF Spec

-----------------------------------------------------------------------------
(* The order of the payloads, and the abstract channel.                    *)

\* The worker that sends is the one whose payload is in hand.
LEMMA InHandSending ==
    ASSUME IInv, NEW w \in Workers, pc[w] = "send"
    PROVE  InHand = <<payload[w]>> /\ payload[w] \in Payloads
<1>1. \A v \in Workers : pc[v] = "send" => v = w
  BY DEF IInv, OneProducerTask, Responsible
<1>2. (CHOOSE v \in Workers : pc[v] = "send") = w
  BY <1>1
<1> QED
  BY <1>2 DEF InHand, IInv, TypeOK

\* Nothing is in hand while nobody sends.
LEMMA InHandIdle ==
    ASSUME \A w \in Workers : pc[w] # "send"
    PROVE  InHand = <<>>
BY DEF InHand

\* What is in hand and what waits are sequences of payloads.
LEMMA WaitingType == IInv => InHand \in Seq(Payloads) /\ Waiting \in Seq(Payloads)
<1> SUFFICES ASSUME IInv PROVE InHand \in Seq(Payloads) /\ Waiting \in Seq(Payloads)
  OBVIOUS
<1>1. InHand \in Seq(Payloads)
  <2>1. CASE \E w \in Workers : pc[w] = "send"
    <3>1. PICK w \in Workers : pc[w] = "send"
      BY <2>1
    <3>2. InHand = <<payload[w]>> /\ payload[w] \in Payloads
      BY <3>1, InHandSending
    <3> QED
      BY <3>2
  <2>2. CASE \A w \in Workers : pc[w] # "send"
    <3>1. InHand = <<>>
      BY <2>2, InHandIdle
    <3> QED
      BY <3>1
  <2> QED
    BY <2>1, <2>2
<1> QED
  BY <1>1, ConcatProperties DEF Waiting, IInv, TypeOK

\* A payload put behind what waits.
LEMMA AppendWaiting ==
    ASSUME NEW S, NEW s \in Seq(S), NEW t \in Seq(S), NEW e \in S
    PROVE  s \o Append(t, e) = Append(s \o t, e)
OBVIOUS

\* A payload moved from the head of a sequence to the end of another.
LEMMA MoveHead ==
    ASSUME NEW S, NEW s \in Seq(S), NEW t \in Seq(S), t # <<>>
    PROVE  Append(s, Head(t)) \o Tail(t) = s \o t
OBVIOUS

\* The head put back before the tail.
LEMMA ConsHead ==
    ASSUME NEW S, NEW t \in Seq(S), t # <<>>
    PROVE  <<Head(t)>> \o Tail(t) = t
OBVIOUS

\* Head and tail of a sequence with an element put before it.
LEMMA ConsTail ==
    ASSUME NEW S, NEW t \in Seq(S), NEW e \in S
    PROVE  /\ <<e>> \o t # <<>>
           /\ Head(<<e>> \o t) = e
           /\ Tail(<<e>> \o t) = t
OBVIOUS

\* A step that keeps the workers' payloads keeps what is in hand.
LEMMA InHandKept ==
    ASSUME IInv, IInv', payload' = payload
    PROVE  InHand' = InHand
<1>1. \A w \in Workers : pc'[w] = "send" <=> pc[w] = "send"
  BY DEF IInv, TypeOK
<1>2. CASE \E w \in Workers : pc[w] = "send"
  <2>1. PICK w \in Workers : pc[w] = "send"
    BY <1>2
  <2>2. InHand = <<payload[w]>>
    BY <2>1, InHandSending
  <2>3. \A v \in Workers : pc'[v] = "send" => v = w
    BY <1>1, <2>1 DEF IInv, OneProducerTask, Responsible
  <2>4. (CHOOSE v \in Workers : pc'[v] = "send") = w
    BY <1>1, <2>1, <2>3
  <2> QED
    BY <1>1, <2>1, <2>2, <2>4 DEF InHand
<1>3. CASE \A w \in Workers : pc[w] # "send"
  BY <1>1, <1>3 DEF InHand
<1> QED
  BY <1>2, <1>3

\* A step that touches neither the queue nor the workers' payloads keeps what
\* waits.
LEMMA WaitingKept ==
    ASSUME IInv, IInv', UNCHANGED <<payload, producer_q>>
    PROVE  Waiting' = Waiting
BY InHandKept DEF Waiting

\* A published payload waits behind the others.
LEMMA PublishPuts ==
    ASSUME IInv, IInv', NEW p \in Payloads, Publish(p)
    PROVE  /\ Waiting' = Append(Waiting, p)
           /\ published' = Append(published, p)
           /\ UNCHANGED finished
<1> USE DEF work
<1>1. InHand' = InHand
  BY InHandKept DEF Publish
<1>2. InHand \in Seq(Payloads) /\ producer_q \in Seq(Payloads)
  BY WaitingType DEF IInv, TypeOK
<1>3. InHand \o Append(producer_q, p) = Append(InHand \o producer_q, p)
  BY <1>2, AppendWaiting
<1> QED
  BY <1>1, <1>3 DEF Publish, Waiting

\* A payload taken off the queue still waits, in the hand of the worker.
LEMMA PopKeeps ==
    ASSUME IInv, IInv', NEW w \in Workers, PollPop(w)
    PROVE  UNCHANGED <<Waiting, finished, published>>
<1> USE DEF hist
<1>1. \A v \in Workers : pc[v] # "send"
  BY DEF PollPop, Goto, IInv, OneProducerTask, Responsible
<1>2. InHand = <<>>
  BY <1>1, InHandIdle
<1>3. pc' = [pc EXCEPT ![w] = "send"] /\ payload'[w] = Head(producer_q)
  BY DEF PollPop, Goto, IInv, TypeOK
<1>4. pc'[w] = "send" /\ \A v \in Workers : pc'[v] = "send" => v = w
  BY <1>1, <1>3 DEF IInv, TypeOK
<1>5. (CHOOSE v \in Workers : pc'[v] = "send") = w
  BY <1>4
<1>6. InHand' = <<Head(producer_q)>>
  BY <1>3, <1>4, <1>5 DEF InHand
<1>7. producer_q \in Seq(Payloads) /\ producer_q # <<>> /\ producer_q' = Tail(producer_q)
  BY DEF PollPop, IInv, TypeOK
<1>8. <<Head(producer_q)>> \o Tail(producer_q) = producer_q /\ <<>> \o producer_q = producer_q
  BY <1>7, ConsHead, ConcatEmptySeq
<1> QED
  BY <1>2, <1>6, <1>7, <1>8 DEF PollPop, Waiting

\* The payload a worker is done with is the first that waited.
LEMMA FinishTakes ==
    ASSUME IInv, IInv', NEW w \in Workers, PollDrop(w) \/ PollSend(w) \/ PollSendThrows(w)
    PROVE  /\ Waiting # <<>>
           /\ finished' = Append(finished, Head(Waiting))
           /\ Waiting' = Tail(Waiting)
           /\ UNCHANGED published
<1>1. pc[w] = "send" /\ pc'[w] # "send" /\ \A v \in Workers \ {w} : pc'[v] = pc[v]
  BY DEF PollDrop, PollSend, PollSendThrows, Goto, IInv, TypeOK
<1>2. InHand = <<payload[w]>> /\ payload[w] \in Payloads
  BY <1>1, InHandSending
<1>3. \A v \in Workers : pc'[v] # "send"
  BY <1>1 DEF IInv, OneProducerTask, Responsible
<1>4. InHand' = <<>>
  BY <1>3 DEF InHand
<1>5. /\ finished' = Append(finished, payload[w])
      /\ UNCHANGED <<producer_q, published>>
  BY DEF PollDrop, PollSend, PollSendThrows, Finish
<1>6. producer_q \in Seq(Payloads)
  BY DEF IInv, TypeOK
<1>7. /\ Waiting # <<>>
      /\ Head(Waiting) = payload[w]
      /\ Tail(Waiting) = producer_q
  BY <1>2, <1>6, ConsTail DEF Waiting
<1>8. Waiting' = producer_q
  BY <1>4, <1>5, <1>6, ConcatEmptySeq DEF Waiting
<1> QED
  BY <1>5, <1>7, <1>8

\* What a step of the component does to the payloads that wait: nothing, put
\* one behind them, or be done with the first of them.
LEMMA WaitingStep ==
    ASSUME IInv, IInv', [Next]_vars
    PROVE  \/ UNCHANGED <<Waiting, finished, published>>
           \/ \E p \in Payloads : /\ Waiting' = Append(Waiting, p)
                                  /\ published' = Append(published, p)
                                  /\ UNCHANGED finished
           \/ /\ Waiting # <<>>
              /\ finished' = Append(finished, Head(Waiting))
              /\ Waiting' = Tail(Waiting)
              /\ UNCHANGED published
<1> USE DEF flags, work, env, hist, ctl
<1>1. CASE UNCHANGED <<payload, producer_q, finished, published>>
  BY <1>1, WaitingKept
<1>2. \/ UNCHANGED <<payload, producer_q, finished, published>>
      \/ \E p \in Payloads : Publish(p)
      \/ \E w \in Workers : PollPop(w)
      \/ \E w \in Workers : PollDrop(w) \/ PollSend(w) \/ PollSendThrows(w)
  BY DEF Next, Stopper, Worker, Validator, Poller, vars,
         SetConfigs, Start, Delivered, DeliveryFails, StopCall, StopSkip, StopDrained,
         StopReturn, TakeTask, ValidateDisabled, ValidateBegin, Connected, Spawn,
         PollBegin, PollConstruct, ConnectThrows, PollConstructThrows, PollTest, PollSize, PollClose,
         CatchClear, CatchRepush, CatchLeave, BrokerDown, BrokerUp
<1> QED
  BY <1>1, <1>2, PublishPuts, PopKeeps, FinishTakes

\* Payloads are handled in the order in which they were published, each once,
\* and none is lost on the way to a worker.
THEOREM InOrder == Spec => []ChannelOrder
<1>1. Init /\ IInv => ChannelOrder
  BY InHandIdle DEF Init, ChannelOrder, Waiting
<1>2. IInv /\ IInv' /\ ChannelOrder /\ [Next]_vars => ChannelOrder'
  <2> SUFFICES ASSUME IInv, IInv', ChannelOrder, [Next]_vars PROVE ChannelOrder'
    OBVIOUS
  <2>1. finished \in Seq(Payloads) /\ Waiting \in Seq(Payloads)
    BY WaitingType DEF IInv, TypeOK
  <2>2. CASE UNCHANGED <<Waiting, finished, published>>
    BY <2>2 DEF ChannelOrder
  <2>3. ASSUME NEW p \in Payloads, Waiting' = Append(Waiting, p),
               published' = Append(published, p), UNCHANGED finished
        PROVE  ChannelOrder'
    <3>1. finished \o Append(Waiting, p) = Append(finished \o Waiting, p)
      BY <2>1, AppendWaiting
    <3> QED
      BY <2>3, <3>1 DEF ChannelOrder
  <2>4. CASE /\ Waiting # <<>>
             /\ finished' = Append(finished, Head(Waiting))
             /\ Waiting' = Tail(Waiting)
             /\ UNCHANGED published
    BY <2>1, <2>4, MoveHead DEF ChannelOrder
  <2> QED
    BY <2>2, <2>3, <2>4, WaitingStep
<1> QED
  BY <1>1, <1>2, Invariant, PTL DEF Spec

-----------------------------------------------------------------------------
(* What stop() waits for.                                                  *)

\* Each published payload is done with, in hand or on the queue.
LEMMA Counting ==
    ASSUME IInv, ChannelOrder
    PROVE  Len(finished) + Len(InHand) = Len(published) - Len(producer_q)
<1>1. /\ finished \in Seq(Payloads) /\ InHand \in Seq(Payloads)
      /\ producer_q \in Seq(Payloads) /\ Waiting \in Seq(Payloads)
  BY WaitingType DEF IInv, TypeOK
<1>2. Len(Waiting) = Len(InHand) + Len(producer_q)
  BY <1>1, ConcatProperties DEF Waiting
<1>3. Len(published) = Len(finished) + Len(Waiting)
  BY <1>1, ConcatProperties DEF ChannelOrder
<1>4. /\ Len(finished) \in Nat /\ Len(InHand) \in Nat
      /\ Len(producer_q) \in Nat /\ Len(published) \in Nat
  BY <1>1, LenProperties DEF IInv, TypeOK
<1> QED
  BY <1>2, <1>3, <1>4

\* What stop() saw never exceeds what was published, and is off the queue when
\* its loop is left.
StopInv ==
    /\ at_stop <= Len(published)
    /\ stop_pc \in {"drained", "done"} => at_stop <= Len(published) - Len(producer_q)

\* A step keeps it: payloads are never put back on the queue.
LEMMA StopStep == IInv /\ StopInv /\ [Next]_vars => StopInv'
<1> SUFFICES ASSUME IInv, StopInv, [Next]_vars PROVE StopInv'
  OBVIOUS
<1> USE DEF flags, work, env, hist, ctl
<1>1. /\ published \in Seq(Payloads) /\ producer_q \in Seq(Payloads) /\ at_stop \in Nat
      /\ Len(published) \in Nat /\ Len(producer_q) \in Nat
  BY LenProperties DEF IInv, TypeOK
<1>2. CASE UNCHANGED <<published, producer_q, at_stop, stop_pc>>
  BY <1>2 DEF StopInv
<1>3. ASSUME NEW p \in Payloads, Publish(p) PROVE StopInv'
  <2>1. Len(published') = Len(published) + 1 /\ Len(producer_q') = Len(producer_q) + 1
    BY <1>1, <1>3, AppendProperties DEF Publish
  <2> QED
    BY <1>1, <1>3, <2>1 DEF Publish, StopInv
<1>4. CASE StopCall
  BY <1>1, <1>4 DEF StopCall, StopInv
<1>5. CASE StopSkip
  BY <1>1, <1>5 DEF StopSkip, StopInv
<1>6. CASE StopDrained
  <2>1. Len(producer_q) = 0
    BY <1>6 DEF StopDrained
  <2> QED
    BY <1>1, <1>6, <2>1 DEF StopDrained, StopInv
<1>7. CASE StopReturn
  BY <1>1, <1>7 DEF StopReturn, StopInv
<1>8. ASSUME NEW w \in Workers, PollPop(w) PROVE StopInv'
  <2>1. Len(producer_q') = Len(producer_q) - 1
    BY <1>1, <1>8, HeadTailProperties DEF PollPop
  <2> QED
    BY <1>1, <1>8, <2>1 DEF PollPop, StopInv
<1>9. \/ UNCHANGED <<published, producer_q, at_stop, stop_pc>>
      \/ \E p \in Payloads : Publish(p)
      \/ StopCall \/ StopSkip \/ StopDrained \/ StopReturn
      \/ \E w \in Workers : PollPop(w)
  BY DEF Next, Stopper, Worker, Validator, Poller, vars, Finish,
         SetConfigs, Start, Delivered, DeliveryFails, TakeTask, ValidateDisabled,
         ValidateBegin, Connected, Spawn, PollBegin, PollConstruct, ConnectThrows, PollConstructThrows,
         PollTest, PollSize, PollDrop, PollSend, PollSendThrows, PollClose, CatchClear,
         CatchRepush, CatchLeave, BrokerDown, BrokerUp
<1> QED
  BY <1>2, <1>3, <1>4, <1>5, <1>6, <1>7, <1>8, <1>9

\* When stop() has left its drain loop, every payload published before it was
\* called is done with, or is the one in the producer's hand.
THEOREM StopWaits == Spec => []StopWaitsForQueue
<1>1. Init => StopInv
  BY DEF Init, StopInv
<1>2. IInv /\ ChannelOrder /\ StopInv => StopWaitsForQueue
  <2> SUFFICES ASSUME IInv, ChannelOrder, StopInv PROVE StopWaitsForQueue
    OBVIOUS
  <2>1. Len(published) \in Nat /\ Len(producer_q) \in Nat /\ at_stop \in Nat
    BY LenProperties DEF IInv, TypeOK
  <2> QED
    BY <2>1, Counting DEF StopInv, StopWaitsForQueue
<1> QED
  BY <1>1, <1>2, StopStep, Invariant, InOrder, PTL DEF Spec

-----------------------------------------------------------------------------
(* Who looks after the queue, and how far the pool is from being done.     *)

\* A step keeps the queue attended and the run flag set.
LEMMA AttendedStep ==
    ASSUME IInv, ProducerHoldsFlag, QueueIsAttended, [Next]_vars
    PROVE  ProducerHoldsFlag' /\ QueueIsAttended'
<1> USE DEF IInv, OneProducerTask, NothingBeforeStart, RunFlagMeansProducer, Responsible,
            ProducerHoldsFlag, QueueIsAttended, TypeOK, Tasks, flags, work, env, hist, ctl
<1>1. CASE UNCHANGED <<flags, tasks, pc, started, stop_pc>>
  BY <1>1
<1>2. ASSUME NEW e \in BOOLEAN, SetConfigs(e) PROVE ProducerHoldsFlag' /\ QueueIsAttended'
  BY <1>2 DEF SetConfigs
<1>3. CASE Start
  BY <1>3 DEF Start
<1>4. CASE StopCall
  BY <1>4 DEF StopCall
<1>5. CASE StopSkip
  BY <1>5 DEF StopSkip
<1>6. CASE StopDrained
  BY <1>6 DEF StopDrained
<1>7. CASE StopReturn
  BY <1>7 DEF StopReturn
<1>8. ASSUME NEW w \in Workers, TakeTask(w) PROVE ProducerHoldsFlag' /\ QueueIsAttended'
  BY <1>8 DEF TakeTask, Goto
<1>9. ASSUME NEW w \in Workers, ValidateDisabled(w) PROVE ProducerHoldsFlag' /\ QueueIsAttended'
  BY <1>9 DEF ValidateDisabled, Goto
<1>10. ASSUME NEW w \in Workers, ValidateBegin(w) PROVE ProducerHoldsFlag' /\ QueueIsAttended'
  BY <1>10 DEF ValidateBegin, Goto
<1>11. ASSUME NEW w \in Workers, Connected(w) PROVE ProducerHoldsFlag' /\ QueueIsAttended'
  BY <1>11 DEF Connected, Goto
<1>12. ASSUME NEW w \in Workers, Spawn(w) PROVE ProducerHoldsFlag' /\ QueueIsAttended'
  <2>1. pc[w] = "spawn" /\ ~producer_run
    BY <1>12 DEF Spawn, Goto
  <2>2. tasks' = Append(tasks, "poll") /\ tasks' # <<>>
    <3>1. tasks' = Append(tasks, "poll")
      BY <1>12, <2>1 DEF Spawn
    <3> QED
      BY <3>1
  <2> QED
    BY <1>12, <2>2 DEF Spawn, Goto
<1>13. ASSUME NEW w \in Workers, PollBegin(w) PROVE ProducerHoldsFlag' /\ QueueIsAttended'
  BY <1>13 DEF PollBegin, Goto
<1>14. ASSUME NEW w \in Workers, PollConstruct(w) PROVE ProducerHoldsFlag' /\ QueueIsAttended'
  BY <1>14 DEF PollConstruct, Goto
<1>15. ASSUME NEW w \in Workers, PollTest(w) PROVE ProducerHoldsFlag' /\ QueueIsAttended'
  BY <1>15 DEF PollTest, Goto
<1>16. ASSUME NEW w \in Workers, PollSize(w) PROVE ProducerHoldsFlag' /\ QueueIsAttended'
  BY <1>16 DEF PollSize, Goto
<1>17. ASSUME NEW w \in Workers, PollPop(w) PROVE ProducerHoldsFlag' /\ QueueIsAttended'
  BY <1>17 DEF PollPop, Goto
<1>18. ASSUME NEW w \in Workers, PollDrop(w) PROVE ProducerHoldsFlag' /\ QueueIsAttended'
  BY <1>18 DEF PollDrop, Goto
<1>19. ASSUME NEW w \in Workers, PollSend(w) PROVE ProducerHoldsFlag' /\ QueueIsAttended'
  BY <1>19 DEF PollSend, Goto
<1>20. ASSUME NEW w \in Workers, PollSendThrows(w) PROVE ProducerHoldsFlag' /\ QueueIsAttended'
  BY <1>20 DEF PollSendThrows, Goto
<1>21. ASSUME NEW w \in Workers, PollClose(w) PROVE ProducerHoldsFlag' /\ QueueIsAttended'
  BY <1>21 DEF PollClose, Goto
<1>22. ASSUME NEW w \in Workers, CatchClear(w) PROVE ProducerHoldsFlag' /\ QueueIsAttended'
  BY <1>22 DEF CatchClear, Goto
<1>23. ASSUME NEW w \in Workers, CatchRepush(w) PROVE ProducerHoldsFlag' /\ QueueIsAttended'
  BY <1>23 DEF CatchRepush, Goto
<1>24. ASSUME NEW w \in Workers, CatchLeave(w) PROVE ProducerHoldsFlag' /\ QueueIsAttended'
  BY <1>24 DEF CatchLeave, Goto
<1>25. ASSUME NEW p \in Payloads, Publish(p) \/ Delivered(p) \/ DeliveryFails(p)
       PROVE  UNCHANGED <<flags, tasks, pc, started, stop_pc>>
  BY <1>25 DEF Publish, Delivered, DeliveryFails
<1>26. ASSUME NEW w \in Workers, ConnectThrows(w) \/ PollConstructThrows(w)
       PROVE  UNCHANGED <<flags, tasks, pc, started, stop_pc>>
  BY <1>26 DEF ConnectThrows, PollConstructThrows
<1>27. ASSUME BrokerDown \/ BrokerUp \/ UNCHANGED vars
       PROVE  UNCHANGED <<flags, tasks, pc, started, stop_pc>>
  BY <1>27 DEF BrokerDown, BrokerUp, vars
<1> QED
  BY <1>1, <1>2, <1>3, <1>4, <1>5, <1>6, <1>7, <1>8, <1>9, <1>10, <1>11, <1>12, <1>13,
     <1>14, <1>15, <1>16, <1>17, <1>18, <1>19, <1>20, <1>21, <1>22, <1>23, <1>24, <1>25, <1>26, <1>27
     DEF Next, Stopper, Worker, Validator, Poller

\* As long as stop() has not returned, the queue of a started and enabled
\* producer has a task or a worker that will come to it.
THEOREM AlwaysAttended == Spec => []QueueIsAttended
<1>1. Init => ProducerHoldsFlag /\ QueueIsAttended
  BY DEF Init, ProducerHoldsFlag, QueueIsAttended
<1> QED
  BY <1>1, AttendedStep, Invariant, PTL DEF Spec

\* As long as stop() has not returned, a producer in its polling loop finds the
\* run flag set, whatever its colleagues and the reconnections do.
THEOREM FlagHeld == Spec => []ProducerHoldsFlag
<1>1. Init => ProducerHoldsFlag /\ QueueIsAttended
  BY DEF Init, ProducerHoldsFlag, QueueIsAttended
<1> QED
  BY <1>1, AttendedStep, Invariant, PTL DEF Spec

\* What Steps is: the steps of the worker responsible for the producer, or of
\* the task that will make one responsible, or none.
StepsRule ==
    IInv =>
        /\ \A w \in Workers : Responsible(w) => Steps = StepsFrom(pc[w])
        /\ tasks # <<>> =>
              Steps = 1 + StepsFrom(IF Head(tasks) = "validate" THEN "validate" ELSE "begin")
        /\ tasks = <<>> /\ (\A w \in Workers : ~Responsible(w)) => Steps = 0

\* The rule holds in a state that satisfies the invariant.
LEMMA StepsKnown == StepsRule
<1> SUFFICES ASSUME IInv
             PROVE  /\ \A w \in Workers : Responsible(w) => Steps = StepsFrom(pc[w])
                    /\ tasks # <<>> => Steps = 1 + StepsFrom(IF Head(tasks) = "validate"
                                                             THEN "validate" ELSE "begin")
                    /\ tasks = <<>> /\ (\A w \in Workers : ~Responsible(w)) => Steps = 0
  BY DEF StepsRule
<1>1. ASSUME NEW w \in Workers, Responsible(w) PROVE Steps = StepsFrom(pc[w])
  <2>1. tasks = <<>> /\ \A v \in Workers : Responsible(v) => v = w
    BY <1>1 DEF IInv, OneProducerTask
  <2>2. (CHOOSE v \in Workers : Responsible(v)) = w
    BY <1>1, <2>1
  <2> QED
    BY <1>1, <2>1, <2>2 DEF Steps
<1> QED
  BY <1>1 DEF Steps

\* So it does in the next one.
LEMMA StepsKnownNext == StepsRule'
BY StepsKnown, PTL

\* The table of StepsFrom.
LEMMA StepsValues ==
    /\ StepsFrom("idle") = 0 /\ StepsFrom("leave") = 0 /\ StepsFrom("closing") = 1
    /\ StepsFrom("send") = 1 /\ StepsFrom("pop") = 2 /\ StepsFrom("size") = 3
    /\ StepsFrom("test") = 4 /\ StepsFrom("ctor") = 5 /\ StepsFrom("begin") = 6
    /\ StepsFrom("spawn") = 8 /\ StepsFrom("connect") = 9 /\ StepsFrom("validate") = 10
    /\ StepsFrom("repush") = 12 /\ StepsFrom("caught") = 13
BY DEF StepsFrom

\* A reconnection takes fewer than 14 steps.
LEMMA StepsBound == IInv => Steps \in 0..13
<1> SUFFICES ASSUME IInv PROVE Steps \in 0..13
  OBVIOUS
<1>1. ASSUME NEW w \in Workers, Responsible(w) PROVE Steps \in 0..13
  <2>1. pc[w] \in Places
    BY DEF IInv, TypeOK
  <2>2. StepsFrom(pc[w]) \in 0..13
    BY <2>1, StepsValues DEF Places
  <2> QED
    BY <1>1, <2>2, StepsKnown DEF StepsRule
<1>2. CASE tasks # <<>>
  BY <1>2, StepsKnown, StepsValues DEF StepsRule
<1> QED
  BY <1>1, <1>2, StepsKnown DEF StepsRule

\* What waits is a sequence, and a reconnection takes fewer than 14 steps.
Sized == IInv => Waiting \in Seq(Payloads) /\ Steps \in 0..13

\* In any state, and so in the next one.
LEMMA SizedHere == Sized
BY WaitingType, StepsBound DEF Sized
LEMMA SizedNext == Sized'
BY SizedHere, PTL

\* A worker that neither finishes a payload nor idles is a step closer.
LEMMA Closer ==
    ASSUME IInv, IInv', NEW w \in Workers, ~Idling(w), Worker(w), ~PollDrop(w), ~PollSend(w)
    PROVE  Steps' < Steps
<1> USE DEF StepsRule
<1>0. pc[w] # "leave"
  BY DEF Idling
<1>1. ASSUME NEW from, NEW to, Goto(w, from, to), from \notin {"idle", "leave"}, to # "leave",
             tasks' = tasks
      PROVE  Steps = StepsFrom(from) /\ Steps' = StepsFrom(to)
  <2>1. Responsible(w) /\ pc[w] = from /\ pc' = [pc EXCEPT ![w] = to]
    BY <1>1 DEF Goto, Responsible
  <2>2. Steps = StepsFrom(from)
    BY <2>1, StepsKnown
  <2>3. CASE to = "idle"
    <3>1. tasks' = <<>> /\ \A v \in Workers : ~Responsible(v)'
      BY <1>1, <2>1, <2>3 DEF IInv, OneProducerTask, Responsible, TypeOK
    <3> QED
      BY <2>2, <2>3, <3>1, StepsKnownNext, StepsValues
  <2>4. CASE to # "idle"
    <3>1. Responsible(w)' /\ pc'[w] = to
      BY <1>1, <2>1, <2>4 DEF Responsible, IInv, TypeOK
    <3> QED
      BY <2>2, <3>1, StepsKnownNext
  <2> QED
    BY <2>3, <2>4
<1>2. CASE TakeTask(w)
  <2> DEFINE to == IF Head(tasks) = "validate" THEN "validate" ELSE "begin"
  <2>1. Steps = 1 + StepsFrom(to)
    BY <1>2, StepsKnown DEF TakeTask
  <2>2. pc'[w] = to
    BY <1>2 DEF TakeTask, Goto, IInv, TypeOK
  <2>3. Responsible(w)'
    BY <2>2 DEF Responsible
  <2>4. Steps' = StepsFrom(to)
    BY <2>2, <2>3, StepsKnownNext
  <2>5. StepsFrom(to) \in Nat
    BY StepsValues
  <2> QED
    BY <2>1, <2>4, <2>5
<1>3. CASE ValidateDisabled(w)
  BY <1>3, <1>1, StepsValues DEF ValidateDisabled
<1>4. CASE ValidateBegin(w)
  BY <1>4, <1>1, StepsValues DEF ValidateBegin
<1>5. CASE Connected(w)
  BY <1>5, <1>1, StepsValues DEF Connected
<1>6. CASE Spawn(w)
  <2>1. pc[w] = "spawn" /\ Responsible(w)
    BY <1>6 DEF Spawn, Goto, Responsible
  <2>2. tasks = <<>> /\ Steps = 8
    BY <2>1, StepsKnown, StepsValues DEF IInv, OneProducerTask
  <2>3. CASE tasks' = tasks
    BY <1>6, <2>3, <1>1, StepsValues DEF Spawn
  <2>4. CASE tasks' = Append(tasks, "poll")
    <3>1. tasks' # <<>> /\ Head(tasks') = "poll"
      BY <2>2, <2>4
    <3>2. Steps' = 7
      BY <3>1, StepsKnownNext, StepsValues
    <3> QED
      BY <2>2, <3>2
  <2> QED
    BY <1>6, <2>3, <2>4 DEF Spawn
<1>7. CASE PollBegin(w)
  BY <1>7, <1>1, StepsValues DEF PollBegin
<1>8. CASE PollConstruct(w)
  BY <1>8, <1>1, StepsValues DEF PollConstruct
<1>9. CASE PollTest(w)
  <2>1. CASE producer_run
    BY <1>9, <2>1, <1>1, StepsValues DEF PollTest
  <2>2. CASE ~producer_run
    BY <1>9, <2>2, <1>1, StepsValues DEF PollTest
  <2> QED
    BY <2>1, <2>2
<1>10. CASE PollSize(w)
  <2>1. producer_q # <<>>
    BY <1>10 DEF PollSize, Goto, Idling
  <2> QED
    BY <1>10, <2>1, <1>1, StepsValues DEF PollSize
<1>11. CASE PollPop(w)
  BY <1>11, <1>1, StepsValues DEF PollPop
<1>12. CASE PollClose(w)
  BY <1>12, <1>1, StepsValues DEF PollClose
<1>13. CASE CatchClear(w)
  BY <1>13, <1>1, StepsValues DEF CatchClear
<1>14. CASE CatchRepush(w)
  <2>1. pc[w] = "repush" /\ Responsible(w) /\ tasks' = Append(tasks, "validate")
    BY <1>14 DEF CatchRepush, Goto, Responsible
  <2>2. tasks = <<>> /\ Steps = 12
    BY <2>1, StepsKnown, StepsValues DEF IInv, OneProducerTask
  <2>3. tasks' # <<>> /\ Head(tasks') = "validate"
    BY <2>1, <2>2
  <2>4. Steps' = 11
    BY <2>3, StepsKnownNext, StepsValues
  <2> QED
    BY <2>2, <2>4
<1> QED
  BY <1>0, <1>2, <1>3, <1>4, <1>5, <1>6, <1>7, <1>8, <1>9, <1>10, <1>11, <1>12, <1>13, <1>14
     DEF Worker, Validator, Poller, CatchLeave, Goto

\* A step that changes neither the pool nor the payloads leaves what is to do.
LEMMA ToDoKept ==
    ASSUME IInv, IInv', UNCHANGED <<tasks, pc, payload, producer_q>>
    PROVE  ToDo' = ToDo
BY WaitingKept DEF ToDo, Steps, Responsible

\* What any step does to the work that is left.
LEMMA ProgressStep ==
    ASSUME IInv, IInv', [Next]_vars
    PROVE  /\ (\E w \in Workers : (Worker(w) \/ PollSendThrows(w)) /\ ~Idling(w)) => ToDo' < ToDo
           /\ ToDo' > ToDo => \/ \E p \in Payloads : Publish(p)
                              \/ Start
                              \/ \E w \in Workers : PollSize(w) /\ producer_q = <<>>
<1> USE DEF flags, work, env, hist, ctl
<1>1. /\ Len(Waiting) \in Nat /\ Len(Waiting)' \in Nat
      /\ Steps \in 0..13 /\ Steps' \in 0..13
  <2>1. Waiting \in Seq(Payloads) /\ Waiting' \in Seq(Payloads)
    BY SizedHere, SizedNext DEF Sized
  <2> QED
    BY <2>1, SizedHere, SizedNext, LenProperties DEF Sized
<1>2. ASSUME NEW w \in Workers, Worker(w) \/ PollSendThrows(w), ~Idling(w)
      PROVE  ToDo' < ToDo
  <2>1. CASE PollDrop(w) \/ PollSend(w) \/ PollSendThrows(w)
    <3>1. Waiting # <<>> /\ Waiting' = Tail(Waiting)
      BY <2>1, FinishTakes
    <3>2. Len(Waiting)' = Len(Waiting) - 1
      BY <3>1, WaitingType, HeadTailProperties
    <3>3. pc[w] = "send" /\ Responsible(w)
      BY <2>1 DEF PollDrop, PollSend, PollSendThrows, Goto, Responsible
    <3>4. Steps = 1
      BY <3>3, StepsKnown, StepsValues DEF StepsRule
    <3> QED
      BY <1>1, <3>2, <3>4 DEF ToDo
  <2>2. CASE ~(PollDrop(w) \/ PollSend(w) \/ PollSendThrows(w))
    <3>1. Steps' < Steps
      BY <1>2, <2>2, Closer
    <3>2. PollPop(w) \/ UNCHANGED <<payload, producer_q>>
      BY <1>2, <2>2 DEF Worker, Validator, Poller, TakeTask, ValidateDisabled, ValidateBegin,
         Connected, Spawn, PollBegin, PollConstruct, PollTest, PollSize, PollClose,
         CatchClear, CatchRepush, CatchLeave
    <3>3. Waiting' = Waiting
      BY <3>2, PopKeeps, WaitingKept
    <3> QED
      BY <1>1, <3>1, <3>3 DEF ToDo
  <2> QED
    BY <2>1, <2>2
<1>3. ASSUME NEW w \in Workers, CatchLeave(w) PROVE ToDo' = ToDo
  <2>1. /\ pc[w] = "leave" /\ pc' = [pc EXCEPT ![w] = "idle"]
        /\ UNCHANGED <<tasks, payload, producer_q>>
    BY <1>3 DEF CatchLeave, Goto
  <2>2. \A v \in Workers : /\ Responsible(v)' <=> Responsible(v)
                           /\ Responsible(v) => pc'[v] = pc[v]
    <3>1. \A v \in Workers : pc'[v] = IF v = w THEN "idle" ELSE pc[v]
      BY <2>1 DEF IInv, TypeOK
    <3> QED
      BY <2>1, <3>1 DEF Responsible
  <2>3. Waiting' = Waiting
    BY <2>1, WaitingKept
  <2>4. Steps' = Steps
    <3>1. CASE tasks # <<>>
      BY <2>1, <3>1 DEF Steps
    <3>2. ASSUME NEW v \in Workers, Responsible(v) PROVE Steps' = Steps
      BY <2>2, <3>2, StepsKnown, StepsKnownNext DEF StepsRule
    <3>3. CASE tasks = <<>> /\ \A v \in Workers : ~Responsible(v)
      BY <2>1, <2>2, <3>3, StepsKnown, StepsKnownNext DEF StepsRule
    <3> QED
      BY <3>1, <3>2, <3>3
  <2> QED
    BY <2>3, <2>4 DEF ToDo
<1>4. ASSUME NEW w \in Workers, Worker(w), Idling(w), ~CatchLeave(w)
      PROVE  PollSize(w) /\ producer_q = <<>>
  <2>1. PollSize(w)
    BY <1>4 DEF Idling, Worker, Validator, Poller, TakeTask, ValidateDisabled, ValidateBegin,
       Connected, Spawn, PollBegin, PollConstruct, PollTest, PollPop, PollDrop, PollSend,
       PollClose, CatchClear, CatchRepush, Goto
  <2> QED
    BY <1>4, <2>1 DEF PollSize, Goto, Idling
<1>5. ASSUME NEW w \in Workers, PollSendThrows(w) PROVE ~Idling(w)
  BY <1>5 DEF PollSendThrows, Goto, Idling
<1>6. \/ \E p \in Payloads : Publish(p)
      \/ Start
      \/ \E w \in Workers : Worker(w) \/ PollSendThrows(w)
      \/ UNCHANGED <<tasks, pc, payload, producer_q>>
  BY DEF Next, Stopper, vars, SetConfigs, Delivered, DeliveryFails, StopCall, StopSkip,
     StopDrained, StopReturn, ConnectThrows, PollConstructThrows, BrokerDown, BrokerUp
<1>7. ToDo \in Nat /\ ToDo' \in Nat
  BY <1>1 DEF ToDo
<1>8. CASE UNCHANGED <<tasks, pc, payload, producer_q>>
  BY <1>2, <1>7, <1>8, ToDoKept
<1> QED
  BY <1>2, <1>3, <1>4, <1>5, <1>6, <1>7, <1>8

\* The pool makes progress while payloads wait: every step of a worker that
\* does not look at an empty queue lowers a measure that only publish(),
\* start() and looking at an empty queue raise, however often send() fails.
THEOREM AlwaysProgress == Spec => WorkIsProgress
BY ProgressStep, Invariant, PTL DEF Spec, WorkIsProgress

-----------------------------------------------------------------------------
(* Refinement.                                                             *)

\* The component implements the abstract channel.
THEOREM ImplementsChannel == Spec => ChannelSpec
<1>1. Init => Channel!Init
  <2> SUFFICES ASSUME Init PROVE Channel!Init
    OBVIOUS
  <2>1. InHand = <<>>
    BY InHandIdle DEF Init
  <2> QED
    BY <2>1 DEF Init, Channel!Init, Waiting
<1>2. IInv /\ IInv' /\ [Next]_vars => [Channel!Next]_(Channel!vars)
  BY WaitingStep DEF Channel!Next, Channel!Put, Channel!Handle, Channel!vars
<1> QED
  BY <1>1, <1>2, Invariant, PTL DEF Spec, ChannelSpec, Channel!Spec

-----------------------------------------------------------------------------
(* The invariants the runs check.                                          *)

\* The types are kept.
THEOREM TypeCorrect == Spec => []TypeOK
BY Invariant, PTL DEF IInv

\* The pool never has two tasks or workers responsible for the producer.
THEOREM SingleProducer == Spec => []OneProducerTask
BY Invariant, PTL DEF IInv

\* No worker calls front() or pop() on an empty queue.
THEOREM NoPopOnEmpty == Spec => []PopFindsPayload
BY Invariant, PTL DEF IInv

\* While get_run_state() is true, a worker is in _poll_producer.
THEOREM RunningIsAlive == Spec => []RunFlagMeansProducer
BY Invariant, PTL DEF IInv

\* No validation finds the run flag set and leaves the broker without a
\* producer.
THEOREM AlwaysRespawned == Spec => []RespawnNotSkipped
<1>1. IInv => RespawnNotSkipped
  BY DEF IInv, RespawnNotSkipped, RunFlagMeansProducer, OneProducerTask, Responsible
<1> QED
  BY <1>1, Invariant, PTL
=============================================================================
