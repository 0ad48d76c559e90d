-------------------------- MODULE ProcessingProofs --------------------------
(***************************************************************************)
(* Theorems about the overlay, for any number of frames and any batch      *)
(* size; some hold of any number of sources, some of at most ten.          *)
(***************************************************************************)
EXTENDS Processing, SequenceTheorems, FiniteSetTheorems, TLAPS

\* The queue that osd_callback uses is there.
LEMMA QueueExists == \A s \in Sources : StreamId(s) \in Sources
BY SourcesAssumption DEF StreamId

\* There are at most ten sources.
OneDigit == Sources \subseteq 0..9

\* The stream id of a source with one digit is its number.
LEMMA OneDigitId == OneDigit => \A s \in Sources : StreamId(s) = s
BY DEF OneDigit, StreamId

\* The frames of source s in batch b that are before k, and those from k on.
Passed(b, k, s) == {i \in 1..Len(b) : b[i].source = s /\ i < k}
Left(b, k, s) == {i \in 1..Len(b) : b[i].source = s /\ i >= k}

-----------------------------------------------------------------------------
(* Types, with the place of the thread.                                    *)

Shape ==
    /\ batch \in Seq(Frame)
    /\ step \in {"mux", "probe", "demux"}
    /\ step = "mux" => index = 1
    /\ step # "mux" => index \in 1..Len(batch)
    /\ display_queue \in [Sources -> Seq(Frame)]
    /\ frames \in [Sources -> Nat]
    /\ drawn \in Seq([on : Frame, of : Frame])
    /\ kafka \in SUBSET Frame /\ saved \in SUBSET Frame /\ unwritten \in SUBSET Frame

\* The thread goes on to a place where there is a frame.
LEMMA AdvanceStep ==
    ASSUME Shape, step # "mux", NEW next \in {"mux", "demux"}, next # step,
           Advance(next)
    PROVE  /\ batch' \in Seq(Frame)
           /\ step' \in {step, next}
           /\ step' = "mux" => index' = 1
           /\ step' # "mux" => index' \in 1..Len(batch') /\ batch' = batch
           /\ step' = step => batch' = batch /\ index' = index + 1
<1>1. Len(batch) \in Nat
  BY LenProperties DEF Shape
<1>2. CASE index < Len(batch)
  BY <1>1, <1>2 DEF Advance, Shape
<1>3. CASE ~(index < Len(batch))
  <2>1. index' = 1 /\ step' = next /\ batch' = IF next = "mux" THEN <<>> ELSE batch
    BY <1>3 DEF Advance
  <2>2. CASE next = "mux"
    BY <2>1, <2>2 DEF Shape
  <2>3. CASE next = "demux"
    <3>1. 1 \in 1..Len(batch)
      BY <1>1 DEF Shape
    <3> QED
      BY <2>1, <2>3, <3>1, <1>1, <1>3 DEF Shape
  <2> QED
    BY <2>2, <2>3
<1> QED
  BY <1>2, <1>3

\* The last frame of a batch ends the step, and leaves nothing behind.
LEMMA AdvanceEnds ==
    ASSUME Shape, step # "mux", NEW next \in {"mux", "demux"}, next # step, Advance(next)
    PROVE  \/ /\ index < Len(batch)
              /\ step' = step /\ batch' = batch /\ index' = index + 1
           \/ /\ index = Len(batch)
              /\ step' = next /\ index' = 1
              /\ batch' = IF next = "mux" THEN <<>> ELSE batch
<1>1. Len(batch) \in Nat /\ index \in 1..Len(batch)
  BY LenProperties DEF Shape
<1> QED
  BY <1>1 DEF Advance

\* What MakeBatch puts in a batch: frames of the sources, numbered after
\* those that came before.
LEMMA BatchStep ==
    ASSUME Shape, MakeBatch
    PROVE  /\ batch' \in Seq(Frame) /\ Len(batch') >= 1 /\ Len(batch') <= MaxBatch
           /\ frames' \in [Sources -> Nat]
           /\ \A s \in Sources : frames'[s] = frames[s] + Cardinality(Left(batch', 1, s))
           /\ \A s \in Sources : frames[s] <= frames'[s]
           /\ \A i \in 1..Len(batch') :
                 /\ batch'[i].source \in Sources
                 /\ frames[batch'[i].source] < batch'[i].number
                 /\ batch'[i].number <= frames'[batch'[i].source]
                 /\ batch'[i].number + Cardinality(Left(batch', i, batch'[i].source))
                       = frames'[batch'[i].source] + 1
           /\ \A i, j \in 1..Len(batch') :
                 i < j /\ batch'[i].source = batch'[j].source => batch'[i].number < batch'[j].number
<1> DEFINE Earlier(b, i) == {j \in 1..i : b[j][1] = b[i][1]}
           Of(b, n, s) == {i \in 1..n : b[i][1] = s}
<1>0. PICK n \in 1..MaxBatch : \E b \in [1..n -> Sources \X BOOLEAN] :
         /\ batch' = [i \in 1..n |-> [source   |-> b[i][1],
                                      number   |-> frames[b[i][1]] + Cardinality(Earlier(b, i)),
                                      detected |-> b[i][2]]]
         /\ frames' = [s \in Sources |-> frames[s] + Cardinality(Of(b, n, s))]
  BY DEF MakeBatch
<1>1. PICK b \in [1..n -> Sources \X BOOLEAN] :
         /\ batch' = [i \in 1..n |-> [source   |-> b[i][1],
                                      number   |-> frames[b[i][1]] + Cardinality(Earlier(b, i)),
                                      detected |-> b[i][2]]]
         /\ frames' = [s \in Sources |-> frames[s] + Cardinality(Of(b, n, s))]
  BY <1>0
<1>2. n \in Nat \ {0}
  BY BoundsAssumption
<1>3. \A m \in Nat : IsFiniteSet(1..m)
  BY FS_Interval
<1>4. \A i \in 1..n : /\ IsFiniteSet(Earlier(b, i)) /\ Cardinality(Earlier(b, i)) \in Nat
                      /\ Cardinality(Earlier(b, i)) # 0
  <2> TAKE i \in 1..n
  <2>1. IsFiniteSet(1..i) /\ Earlier(b, i) \subseteq 1..i
    BY <1>2, <1>3
  <2>2. IsFiniteSet(Earlier(b, i))
    BY <2>1, FS_Subset
  <2>3. i \in Earlier(b, i)
    BY <1>2
  <2>4. Earlier(b, i) # {}
    BY <2>3
  <2> HIDE DEF Earlier
  <2> QED
    BY <2>2, <2>4, FS_CardinalityType, FS_EmptySet
<1>5. \A s \in Sources : IsFiniteSet(Of(b, n, s)) /\ Cardinality(Of(b, n, s)) \in Nat
  <2> TAKE s \in Sources
  <2>1. IsFiniteSet(1..n) /\ Of(b, n, s) \subseteq 1..n
    BY <1>2, <1>3
  <2>2. IsFiniteSet(Of(b, n, s))
    BY <2>1, FS_Subset
  <2> HIDE DEF Of
  <2> QED
    BY <2>2, FS_CardinalityType
<1>6. \A i \in 1..n : b[i][1] \in Sources /\ b[i][2] \in BOOLEAN
  OBVIOUS
<1>7. \A i \in 1..n : Cardinality(Earlier(b, i)) <= Cardinality(Of(b, n, b[i][1]))
  <2> TAKE i \in 1..n
  <2>1. Earlier(b, i) \subseteq Of(b, n, b[i][1])
    BY <1>2
  <2>2. IsFiniteSet(Of(b, n, b[i][1]))
    BY <1>5, <1>6
  <2> HIDE DEF Earlier, Of
  <2> QED
    BY <2>1, <2>2, FS_Subset
<1>8. \A i, j \in 1..n : i < j /\ b[i][1] = b[j][1] =>
         Cardinality(Earlier(b, i)) < Cardinality(Earlier(b, j))
  <2> SUFFICES ASSUME NEW i \in 1..n, NEW j \in 1..n, i < j, b[i][1] = b[j][1]
               PROVE  Cardinality(Earlier(b, i)) < Cardinality(Earlier(b, j))
    OBVIOUS
  <2>1. Earlier(b, i) \subseteq Earlier(b, j) /\ j \in Earlier(b, j) /\ j \notin Earlier(b, i)
    BY <1>2
  <2>2. IsFiniteSet(Earlier(b, j))
    BY <1>4
  <2> HIDE DEF Earlier
  <2>3. Earlier(b, i) # Earlier(b, j)
    BY <2>1
  <2>4. Cardinality(Earlier(b, i)) <= Cardinality(Earlier(b, j))
        /\ (Cardinality(Earlier(b, i)) = Cardinality(Earlier(b, j)) => Earlier(b, i) = Earlier(b, j))
    BY <2>1, <2>2, FS_Subset
  <2> QED
    BY <1>4, <2>3, <2>4
<1> HIDE DEF Earlier, Of
<1>9. Len(batch') = n /\ \A i \in 1..n :
         /\ batch'[i].source = b[i][1] /\ batch'[i].detected = b[i][2]
         /\ batch'[i].number = frames[b[i][1]] + Cardinality(Earlier(b, i))
  BY <1>1, <1>2
<1>10. frames' \in [Sources -> Nat] /\ \A s \in Sources : frames[s] <= frames'[s]
  <2>1. ASSUME NEW s \in Sources PROVE frames'[s] \in Nat /\ frames[s] <= frames'[s]
    <3>1. frames'[s] = frames[s] + Cardinality(Of(b, n, s)) /\ frames[s] \in Nat
      BY <1>1 DEF Shape
    <3>2. Cardinality(Of(b, n, s)) \in Nat
      BY <1>5
    <3> QED
      BY <3>1, <3>2
  <2> QED
    BY <1>1, <2>1
<1>11. \A i \in 1..n : /\ frames[b[i][1]] < batch'[i].number
                       /\ batch'[i].number <= frames'[b[i][1]]
  <2> TAKE i \in 1..n
  <2> DEFINE before == Cardinality(Earlier(b, i))
             all == Cardinality(Of(b, n, b[i][1]))
  <2>1. before \in Nat \ {0} /\ all \in Nat /\ before <= all /\ frames[b[i][1]] \in Nat
    BY <1>4, <1>5, <1>6, <1>7 DEF Shape
  <2>2. /\ batch'[i].number = frames[b[i][1]] + before
        /\ frames'[b[i][1]] = frames[b[i][1]] + all
    BY <1>1, <1>6, <1>9
  <2> HIDE DEF before, all
  <2> QED
    BY <2>1, <2>2
<1>12. batch' \in Seq(Frame)
  <2>1. \A i \in 1..n : batch'[i] \in Frame
    <3> TAKE i \in 1..n
    <3> DEFINE number == frames[b[i][1]] + Cardinality(Earlier(b, i))
    <3>1. frames[b[i][1]] \in Nat /\ frames'[b[i][1]] \in Nat /\ number \in Nat
      BY <1>4, <1>6, <1>10 DEF Shape
    <3>2. frames[b[i][1]] < number /\ number <= frames'[b[i][1]]
      BY <1>9, <1>11
    <3>3. frames'[b[i][1]] <= MaxFrames
      BY <1>6 DEF MakeBatch
    <3>4. batch'[i] = [source |-> b[i][1], number |-> number, detected |-> b[i][2]]
      BY <1>1
    <3> HIDE DEF number
    <3>5. number \in 1..MaxFrames
      BY <3>1, <3>2, <3>3, BoundsAssumption
    <3> QED
      BY <1>6, <3>4, <3>5 DEF Frame
  <2>2. batch' \in [1..n -> Frame]
    BY <1>1, <2>1
  <2> QED
    BY <1>2, <2>2
<1>13. \A i, j \in 1..n : i < j /\ b[i][1] = b[j][1] => batch'[i].number < batch'[j].number
  <2> SUFFICES ASSUME NEW i \in 1..n, NEW j \in 1..n, i < j, b[i][1] = b[j][1]
               PROVE  batch'[i].number < batch'[j].number
    OBVIOUS
  <2> DEFINE e == Cardinality(Earlier(b, i))
             f == Cardinality(Earlier(b, j))
  <2>1. e \in Nat /\ f \in Nat /\ e < f /\ frames[b[i][1]] \in Nat
    BY <1>4, <1>6, <1>8 DEF Shape
  <2>2. batch'[i].number = frames[b[i][1]] + e /\ batch'[j].number = frames[b[i][1]] + f
    BY <1>9
  <2> HIDE DEF e, f
  <2> QED
    BY <2>1, <2>2
<1>14. \A s \in Sources : frames'[s] = frames[s] + Cardinality(Left(batch', 1, s))
  <2> TAKE s \in Sources
  <2>1. Of(b, n, s) = Left(batch', 1, s)
    BY <1>2, <1>9 DEF Of, Left
  <2>2. frames'[s] = frames[s] + Cardinality(Of(b, n, s))
    BY <1>1
  <2> QED
    BY <2>1, <2>2
<1>15. \A i \in 1..n : batch'[i].number + Cardinality(Left(batch', i, b[i][1])) = frames'[b[i][1]] + 1
  <2> TAKE i \in 1..n
  <2> DEFINE left == Left(batch', i, b[i][1])
             before == Earlier(b, i)
             all == Of(b, n, b[i][1])
  <2>0. left = {j \in 1..n : b[j][1] = b[i][1] /\ j >= i}
    BY <1>9 DEF Left
  <2>1. before \cup left = all /\ before \cap left = {i} /\ left \subseteq 1..n
    <3>1. i \in before /\ i \in left
      BY <1>2, <2>0 DEF Earlier
    <3>2. \A j : j \in before => j \in 1..n /\ j <= i /\ b[j][1] = b[i][1]
      BY <1>2 DEF Earlier
    <3>3. \A j \in 1..n : j <= i /\ b[j][1] = b[i][1] => j \in before
      BY <1>2 DEF Earlier
    <3>4. \A j : j \in all <=> j \in 1..n /\ b[j][1] = b[i][1]
      BY DEF Of
    <3>5. \A j \in 1..n : (j <= i \/ j >= i) /\ (j <= i /\ j >= i => j = i)
      BY <1>2
    <3> HIDE DEF before, all, left
    <3> QED
      BY <2>0, <3>1, <3>2, <3>3, <3>4, <3>5
  <2>2. IsFiniteSet(before) /\ IsFiniteSet(left)
    BY <1>2, <1>3, <1>4, <2>1, FS_Subset
  <2>3. /\ batch'[i].number = frames[b[i][1]] + Cardinality(before)
        /\ frames'[b[i][1]] = frames[b[i][1]] + Cardinality(all)
        /\ frames[b[i][1]] \in Nat /\ Cardinality(before) \in Nat
    BY <1>1, <1>4, <1>6, <1>9 DEF Shape
  <2> HIDE DEF before, left, all
  <2>4. Cardinality(before \cup left) =
           Cardinality(before) + Cardinality(left) - Cardinality(before \cap left)
    BY <2>2, FS_Union
  <2>5. Cardinality({i}) = 1 /\ Cardinality(left) \in Nat
    BY <2>2, FS_Singleton, FS_CardinalityType
  <2>6. Cardinality(all) = Cardinality(before) + Cardinality(left) - 1
    <3>1. Cardinality(all) = Cardinality(before) + Cardinality(left) - Cardinality({i})
      BY <2>1, <2>4
    <3> QED
      BY <2>5, <3>1
  <2>7. batch'[i].number + Cardinality(left) = frames'[b[i][1]] + 1
    <3> DEFINE m == Cardinality(before)
               l == Cardinality(left)
               a == Cardinality(all)
               old == frames[b[i][1]]
    <3>1. m \in Nat /\ l \in Nat /\ old \in Nat /\ a = m + l - 1
      BY <2>3, <2>5, <2>6
    <3>2. batch'[i].number = old + m /\ frames'[b[i][1]] = old + a
      BY <2>3
    <3> HIDE DEF m, l, a, old
    <3>3. batch'[i].number + l = frames'[b[i][1]] + 1
      BY <3>1, <3>2
    <3> QED
      BY <3>3 DEF l
  <2> QED
    BY <2>7 DEF left
<1>16. n <= MaxBatch
  BY BoundsAssumption
<1> QED
  BY <1>2, <1>6, <1>9, <1>10, <1>11, <1>12, <1>13, <1>14, <1>15, <1>16

\* The frame at which the thread is.
LEMMA FrameHere ==
    ASSUME Shape, step # "mux"
    PROVE  batch[index] \in Frame /\ batch[index].source \in Sources
<1>1. batch[index] \in Frame
  BY ElementOfSeq DEF Shape
<1> QED
  BY <1>1 DEF Frame

\* osd_callback takes the head of a queue.
LEMMA TakeStep ==
    ASSUME Shape, NEW q \in Sources, Take(q)
    PROVE  /\ display_queue' \in [Sources -> Seq(Frame)]
           /\ \A s \in Sources \ {q} : display_queue'[s] = display_queue[s]
           /\ Len(display_queue[q]) \in Nat \ {0}
           /\ Len(display_queue'[q]) = Len(display_queue[q]) - 1
           /\ \A i \in 1..Len(display_queue'[q]) : display_queue'[q][i] = display_queue[q][i + 1]
           /\ Head(display_queue[q]) = display_queue[q][1]
           /\ Head(display_queue[q]) \in Frame
<1>1. display_queue[q] \in Seq(Frame) /\ display_queue[q] # <<>>
  BY DEF Shape, Take
<1>2. display_queue' = [display_queue EXCEPT ![q] = Tail(display_queue[q])]
  BY DEF Take
<1>3. /\ Tail(display_queue[q]) \in Seq(Frame) /\ Head(display_queue[q]) \in Frame
      /\ Len(Tail(display_queue[q])) = Len(display_queue[q]) - 1
      /\ \A i \in 1..Len(Tail(display_queue[q])) : Tail(display_queue[q])[i] = display_queue[q][i + 1]
      /\ Len(display_queue[q]) \in Nat /\ Len(display_queue[q]) # 0
      /\ Head(display_queue[q]) = display_queue[q][1]
  BY <1>1, HeadTailProperties, LenProperties, EmptySeq
<1>4. display_queue'[q] = Tail(display_queue[q])
  BY <1>2 DEF Shape
<1> QED
  BY <1>2, <1>3, <1>4 DEF Shape

\* probe_callback may put the frame behind the others of its source.
LEMMA QueueStep ==
    ASSUME Shape, ProbeFrame
    PROVE  /\ display_queue' \in [Sources -> Seq(Frame)]
           /\ \A s \in Sources : \A i \in 1..Len(display_queue[s]) :
                 display_queue'[s][i] = display_queue[s][i]
           /\ \A s \in Sources :
                 \/ display_queue'[s] = display_queue[s]
                 \/ /\ s = batch[index].source /\ batch[index].detected
                    /\ Len(display_queue'[s]) = Len(display_queue[s]) + 1
                    /\ display_queue'[s][Len(display_queue[s]) + 1] = batch[index]
<1> DEFINE f == batch[index]
<1>1. f \in Frame /\ f.source \in Sources
  BY FrameHere DEF ProbeFrame
<1>2. CASE display_queue' = display_queue
  BY <1>2 DEF Shape
<1>3. CASE f.detected /\ display_queue' = [display_queue EXCEPT ![f.source] = Append(@, f)]
  <2>1. display_queue[f.source] \in Seq(Frame)
    BY <1>1 DEF Shape
  <2>2. display_queue'[f.source] = Append(display_queue[f.source], f)
    BY <1>1, <1>3 DEF Shape
  <2>3. \A s \in Sources : s # f.source => display_queue'[s] = display_queue[s]
    BY <1>1, <1>3 DEF Shape
  <2>4. /\ Append(display_queue[f.source], f) \in Seq(Frame)
        /\ Len(Append(display_queue[f.source], f)) = Len(display_queue[f.source]) + 1
        /\ Append(display_queue[f.source], f)[Len(display_queue[f.source]) + 1] = f
        /\ \A i \in 1..Len(display_queue[f.source]) :
              Append(display_queue[f.source], f)[i] = display_queue[f.source][i]
    BY <1>1, <2>1, AppendProperties
  <2>5. display_queue' \in [Sources -> Seq(Frame)]
    BY <1>1, <1>3, <2>4 DEF Shape
  <2> QED
    BY <1>3, <2>2, <2>3, <2>4, <2>5
<1> QED
  BY <1>2, <1>3 DEF ProbeFrame

\* A detection is drawn.
LEMMA DrawnStep ==
    ASSUME Shape, NEW d \in [on : Frame, of : Frame], drawn' = Append(drawn, d)
    PROVE  /\ drawn' \in Seq([on : Frame, of : Frame])
           /\ Len(drawn) \in Nat /\ Len(drawn') = Len(drawn) + 1
           /\ drawn'[Len(drawn) + 1] = d
           /\ \A i \in 1..Len(drawn) : drawn'[i] = drawn[i]
BY AppendProperties, LenProperties DEF Shape

\* Every step keeps the shape.
LEMMA ShapeStep == Shape /\ [Next]_vars => Shape'
<1> SUFFICES ASSUME Shape, [Next]_vars PROVE Shape'
  OBVIOUS
<1>1. CASE MakeBatch
  <2>1. 1 \in 1..Len(batch')
    BY <1>1, BatchStep, LenProperties
  <2> QED
    BY <1>1, <2>1, BatchStep DEF MakeBatch, Shape
<1>2. CASE ProbeFrame
  <2>1. step = "probe" /\ Advance("demux") /\ UNCHANGED <<frames, drawn>>
    BY <1>2 DEF ProbeFrame
  <2>2. kafka' \in SUBSET Frame /\ saved' \in SUBSET Frame /\ unwritten' \in SUBSET Frame
    BY <1>2, <2>1, FrameHere DEF ProbeFrame, SaveJson, Others, Shape
  <2> QED
    BY <1>2, <2>1, <2>2, AdvanceStep, QueueStep DEF Shape
<1>3. CASE ProbeUnmapped
  BY <1>3 DEF ProbeUnmapped, Shape
<1>4. CASE DropFrame \/ OsdNothing
  <2>1. /\ step = "demux" /\ Advance("mux")
        /\ UNCHANGED <<frames, drawn, display_queue, kafka, saved, unwritten>>
    BY <1>4 DEF DropFrame, OsdNothing
  <2> QED
    BY <2>1, AdvanceStep DEF Shape
<1>5. CASE OsdDraw \/ OsdUnmapped
  <2> DEFINE q == StreamId(batch[index].source)
  <2>1. step = "demux" /\ Advance("mux") /\ Take(q) /\ UNCHANGED <<frames, kafka, saved, unwritten>>
    BY <1>5 DEF OsdDraw, OsdUnmapped
  <2>2. q \in Sources
    BY <2>1, FrameHere, QueueExists
  <2>3. drawn' = drawn \/ drawn' = Append(drawn, [on |-> batch[index], of |-> Head(display_queue[q])])
    BY <1>5 DEF OsdDraw, OsdUnmapped
  <2> HIDE DEF q
  <2>4. drawn' \in Seq([on : Frame, of : Frame])
    BY <2>1, <2>2, <2>3, FrameHere, TakeStep, DrawnStep DEF Shape
  <2> QED
    BY <2>1, <2>2, <2>4, AdvanceStep, TakeStep DEF Shape
<1>6. CASE UNCHANGED vars
  BY <1>6 DEF vars, Shape
<1> QED
  BY <1>1, <1>2, <1>3, <1>4, <1>5, <1>6 DEF Next

-----------------------------------------------------------------------------
(* What the queues hold.                                                   *)

\* Detections are in the queue of their source.
QueueOwnSource ==
    \A s \in Sources : \A i \in 1..Len(display_queue[s]) : display_queue[s][i].source = s

\* Only frames with detections are published.
PublishedDetected == \A f \in kafka : f.detected = TRUE

IInv == Shape /\ QueueOwnSource /\ PublishedDetected /\ LossIsExplained

\* Every step keeps it.
LEMMA ContentsStep == IInv /\ [Next]_vars => IInv'
<1> SUFFICES ASSUME IInv, [Next]_vars PROVE IInv'
  OBVIOUS
<1>0. Shape'
  BY ShapeStep DEF IInv
<1>1. CASE MakeBatch \/ ProbeUnmapped \/ DropFrame \/ OsdNothing \/ UNCHANGED vars
  <2>1. UNCHANGED <<publish, save, display_queue, kafka, saved, unwritten, drawn>>
    BY <1>1 DEF MakeBatch, ProbeUnmapped, DropFrame, OsdNothing, vars, config
  <2> QED
    BY <1>0, <2>1 DEF IInv, QueueOwnSource, PublishedDetected, LossIsExplained
<1>2. CASE ProbeFrame
  <2> DEFINE f == batch[index]
  <2>1. /\ step = "probe" /\ UNCHANGED <<publish, save, drawn>>
        /\ IF save /\ f.detected THEN SaveJson(f) ELSE UNCHANGED <<saved, unwritten>>
        /\ kafka' = IF publish /\ f.detected THEN kafka \cup {f} ELSE kafka
    BY <1>2 DEF ProbeFrame, config
  <2>2. f \in Frame
    BY <2>1, FrameHere DEF IInv
  <2>3. \A s \in Sources : Len(display_queue[s]) \in Nat
    BY LenProperties DEF IInv, Shape
  <2>4. QueueOwnSource'
    BY <1>2, <2>3, QueueStep DEF IInv, QueueOwnSource
  <2>5. PublishedDetected'
    BY <2>1, <2>2 DEF IInv, PublishedDetected, Frame
  <2>6. LossIsExplained'
    <3> DEFINE Explains(h, g) == h.number = g.number /\ h.source # g.source
    <3> SUFFICES ASSUME publish, save, NEW g \in kafka', g \notin saved', g \notin unwritten'
                 PROVE  \E h \in saved' \cup unwritten' : Explains(h, g)
      BY <2>1 DEF LossIsExplained
    <3>1. CASE f.detected = TRUE
      <4>1. SaveJson(f) /\ kafka' = kafka \cup {f}
        BY <2>1, <3>1
      <4>2. /\ f \in saved' \cup unwritten' /\ unwritten \subseteq unwritten'
            /\ saved' \subseteq saved \cup {f}
            /\ \A h \in saved : h.number # f.number => h \in saved'
        BY <4>1 DEF SaveJson, Others
      <4>3. g \in kafka /\ g # f
        BY <4>1, <4>2
      <4>4. g.number = f.number => g.source # f.source
        <5>1. g.detected = TRUE /\ g \in Frame
          BY <4>3 DEF IInv, PublishedDetected, Shape
        <5> QED
          BY <2>2, <3>1, <4>3, <5>1 DEF Frame
      <4>5. CASE g.number = f.number
        BY <4>2, <4>4, <4>5
      <4>6. CASE g.number # f.number
        <5>1. g \notin saved /\ g \notin unwritten
          BY <4>2, <4>6
        <5>2. PICK h \in saved \cup unwritten : Explains(h, g)
          BY <4>3, <5>1 DEF IInv, LossIsExplained
        <5>3. h \in saved' \cup unwritten'
          BY <4>2, <4>6, <5>2
        <5> QED
          BY <5>2, <5>3
      <4> QED
        BY <4>5, <4>6
    <3>2. CASE f.detected # TRUE
      <4>1. saved' = saved /\ unwritten' = unwritten /\ kafka' = kafka
        BY <2>1, <2>2, <3>2 DEF Frame
      <4> QED
        BY <4>1 DEF IInv, LossIsExplained
    <3> QED
      BY <3>1, <3>2
  <2> QED
    BY <1>0, <2>4, <2>5, <2>6 DEF IInv
<1>3. CASE OsdDraw \/ OsdUnmapped
  <2> DEFINE q == StreamId(batch[index].source)
             d == [on |-> batch[index], of |-> Head(display_queue[q])]
  <2>1. step = "demux" /\ Take(q) /\ UNCHANGED <<publish, save, kafka, saved, unwritten>>
    BY <1>3 DEF OsdDraw, OsdUnmapped, config
  <2>2. q \in Sources /\ batch[index] \in Frame
    BY <2>1, FrameHere, QueueExists DEF IInv
  <2>3. drawn' = drawn \/ drawn' = Append(drawn, d)
    BY <1>3 DEF OsdDraw, OsdUnmapped
  <2> HIDE DEF q
  <2>4. /\ \A s \in Sources \ {q} : display_queue'[s] = display_queue[s]
        /\ Len(display_queue[q]) \in Nat \ {0}
        /\ Len(display_queue'[q]) = Len(display_queue[q]) - 1
        /\ \A i \in 1..Len(display_queue'[q]) : display_queue'[q][i] = display_queue[q][i + 1]
        /\ Head(display_queue[q]) = display_queue[q][1] /\ Head(display_queue[q]) \in Frame
    BY <2>1, <2>2, TakeStep DEF IInv
  <2>5. QueueOwnSource'
    BY <2>4 DEF IInv, QueueOwnSource
  <2> QED
    BY <1>0, <2>1, <2>5 DEF IInv, PublishedDetected, LossIsExplained
<1> QED
  BY <1>1, <1>2, <1>3 DEF Next

\* The inductive invariant holds in every reachable state.
THEOREM Invariant == Spec => []IInv
<1>1. Init => IInv
  BY DEF Init, IInv, Shape, QueueOwnSource, PublishedDetected, LossIsExplained
<1>2. IInv /\ [Next]_vars => IInv'
  BY ContentsStep
<1> QED
  BY <1>1, <1>2, PTL DEF Spec

\* With publish and save set, what was published and is not on the disk was
\* not written, or lost to a frame of another source.
THEOREM LossExplained == Spec => []LossIsExplained
BY Invariant, PTL DEF IInv

-----------------------------------------------------------------------------
(* At most ten sources.                                                    *)

\* With at most ten sources, detections are drawn on frames of their own
\* source.
THEOREM OwnSource == OneDigit => (Spec => []OverlayOwnSource)
<1> SUFFICES ASSUME OneDigit PROVE Spec => []OverlayOwnSource
  OBVIOUS
<1> DEFINE Own == \A i \in 1..Len(drawn) : drawn[i].on.source = drawn[i].of.source
<1>2. Init => Own
  BY DEF Init
<1>3. IInv /\ Own /\ [Next]_vars => Own'
  <2> SUFFICES ASSUME IInv, Own, [Next]_vars PROVE Own'
    OBVIOUS
  <2>1. CASE OsdDraw
    <3> DEFINE q == StreamId(batch[index].source)
               d == [on |-> batch[index], of |-> Head(display_queue[q])]
    <3>1. step = "demux" /\ Take(q) /\ drawn' = Append(drawn, d)
      BY <2>1 DEF OsdDraw
    <3>2. batch[index] \in Frame /\ q = batch[index].source /\ q \in Sources
      BY <3>1, FrameHere, OneDigitId DEF IInv
    <3> HIDE DEF q
    <3>3. /\ Head(display_queue[q]) \in Frame /\ Head(display_queue[q]) = display_queue[q][1]
          /\ Len(display_queue[q]) \in Nat \ {0}
      BY <3>1, <3>2, TakeStep DEF IInv
    <3>4. Head(display_queue[q]).source = q
      BY <3>2, <3>3 DEF IInv, QueueOwnSource
    <3>5. d \in [on : Frame, of : Frame] /\ d.on.source = d.of.source
      BY <3>2, <3>3, <3>4
    <3> HIDE DEF d
    <3> QED
      BY <3>1, <3>5, DrawnStep DEF IInv
  <2>2. CASE ~OsdDraw
    <3>1. drawn' = drawn
      BY <2>2 DEF Next, MakeBatch, ProbeFrame, ProbeUnmapped, DropFrame, OsdNothing,
                  OsdUnmapped, vars
    <3> QED
      BY <3>1
  <2> QED
    BY <2>1, <2>2
<1>4. Own => OverlayOwnSource
  BY DEF OverlayOwnSource, Overlays
<1> HIDE DEF Own
<1> QED
  BY <1>2, <1>3, <1>4, Invariant, PTL DEF Spec

-----------------------------------------------------------------------------
(* The order of the overlays.                                              *)

\* Along the overlays, the queue and the rest of the batch, the frames of a
\* source have growing numbers, up to the last one it had.
DrawnInOrder ==
    /\ OverlayInOrder
    /\ \A i \in 1..Len(drawn) : drawn[i].of.number <= frames[drawn[i].of.source]

QueuesInOrder ==
    \A s \in Sources :
        /\ \A i, j \in 1..Len(display_queue[s]) :
              i < j => display_queue[s][i].number < display_queue[s][j].number
        /\ \A i \in 1..Len(display_queue[s]) :
              /\ display_queue[s][i].number <= frames[s]
              /\ \A d \in 1..Len(drawn) :
                    drawn[d].of.source = s => drawn[d].of.number < display_queue[s][i].number

BatchInOrder ==
    /\ step # "mux" => \A k \in 1..Len(batch) : batch[k].number <= frames[batch[k].source]
    /\ step = "probe" =>
          \A k \in 1..Len(batch) :
              k >= index =>
                 /\ \A j \in 1..Len(batch) :
                       k < j /\ batch[k].source = batch[j].source => batch[k].number < batch[j].number
                 /\ \A d \in 1..Len(drawn) :
                       drawn[d].of.source = batch[k].source => drawn[d].of.number < batch[k].number
                 /\ \A i \in 1..Len(display_queue[batch[k].source]) :
                       display_queue[batch[k].source][i].number < batch[k].number

OrderInv == DrawnInOrder /\ QueuesInOrder /\ BatchInOrder

\* Every step keeps the order.
LEMMA OrderStep ==
    ASSUME IInv, OrderInv, [Next]_vars
    PROVE  OrderInv'
<1>0. /\ Len(batch) \in Nat /\ Len(drawn) \in Nat
      /\ \A s \in Sources : Len(display_queue[s]) \in Nat /\ frames[s] \in Nat
      /\ \A k \in 1..Len(batch) : batch[k].source \in Sources /\ batch[k].number \in Nat
      /\ \A i \in 1..Len(drawn) : drawn[i].of.source \in Sources /\ drawn[i].of.number \in Nat
      /\ \A s \in Sources : \A i \in 1..Len(display_queue[s]) : display_queue[s][i].number \in Nat
  <2>1. \A k \in 1..Len(batch) : batch[k] \in Frame
    BY ElementOfSeq DEF IInv, Shape
  <2>2. \A i \in 1..Len(drawn) : drawn[i] \in [on : Frame, of : Frame]
    BY ElementOfSeq DEF IInv, Shape
  <2>3. \A s \in Sources : \A i \in 1..Len(display_queue[s]) : display_queue[s][i] \in Frame
    BY ElementOfSeq DEF IInv, Shape
  <2>4. \A f \in Frame : f.source \in Sources /\ f.number \in Nat
    BY BoundsAssumption DEF Frame
  <2> QED
    BY <2>1, <2>2, <2>3, <2>4, LenProperties DEF IInv, Shape
<1>1. CASE MakeBatch
  <2>1. /\ step' = "probe" /\ UNCHANGED <<index, display_queue, drawn>>
        /\ index = 1
    BY <1>1 DEF MakeBatch, IInv, Shape
  <2>2. /\ Len(batch') \in Nat /\ frames' \in [Sources -> Nat]
        /\ \A s \in Sources : frames[s] <= frames'[s]
        /\ \A k \in 1..Len(batch') :
              /\ batch'[k].source \in Sources /\ batch'[k].number \in Nat
              /\ frames[batch'[k].source] < batch'[k].number
              /\ batch'[k].number <= frames'[batch'[k].source]
        /\ \A i, j \in 1..Len(batch') :
              i < j /\ batch'[i].source = batch'[j].source => batch'[i].number < batch'[j].number
    <3>1. \A k \in 1..Len(batch') : batch'[k] \in Frame
      BY <1>1, BatchStep, ElementOfSeq DEF IInv
    <3>2. \A k \in 1..Len(batch') : batch'[k].source \in Sources /\ batch'[k].number \in Nat
      BY <3>1 DEF Frame
    <3>3. Len(batch') \in Nat
      BY <1>1, BatchStep, LenProperties DEF IInv
    <3> QED
      BY <1>1, <3>2, <3>3, BatchStep DEF IInv
  <2>3. DrawnInOrder'
    <3>1. OverlayInOrder'
      BY <2>1 DEF OrderInv, DrawnInOrder, OverlayInOrder
    <3>2. ASSUME NEW i \in 1..Len(drawn) PROVE drawn[i].of.number <= frames'[drawn[i].of.source]
      <4>1. drawn[i].of.number <= frames[drawn[i].of.source]
        BY DEF OrderInv, DrawnInOrder
      <4> QED
        BY <1>0, <2>2, <4>1
    <3> QED
      BY <2>1, <3>1, <3>2 DEF DrawnInOrder
  <2>4. QueuesInOrder'
    <3>1. ASSUME NEW s \in Sources, NEW i \in 1..Len(display_queue[s])
          PROVE  display_queue[s][i].number <= frames'[s]
      <4>1. display_queue[s][i].number <= frames[s]
        BY DEF OrderInv, QueuesInOrder
      <4> QED
        BY <1>0, <2>2, <4>1
    <3> QED
      BY <2>1, <3>1 DEF OrderInv, QueuesInOrder
  <2>5. BatchInOrder'
    <3>1. \A k \in 1..Len(batch') : \A i \in 1..Len(display_queue[batch'[k].source]) :
             display_queue[batch'[k].source][i].number < batch'[k].number
      <4> SUFFICES ASSUME NEW k \in 1..Len(batch'), NEW s \in Sources, s = batch'[k].source,
                          NEW i \in 1..Len(display_queue[s])
                   PROVE  display_queue[s][i].number < batch'[k].number
        BY <2>2
      <4>1. display_queue[s][i].number <= frames[s] /\ frames[s] < batch'[k].number
        BY <2>2 DEF OrderInv, QueuesInOrder
      <4> QED
        BY <1>0, <2>2, <4>1
    <3>2. \A k \in 1..Len(batch') : \A e \in 1..Len(drawn) :
             drawn[e].of.source = batch'[k].source => drawn[e].of.number < batch'[k].number
      <4> SUFFICES ASSUME NEW k \in 1..Len(batch'), NEW e \in 1..Len(drawn),
                          drawn[e].of.source = batch'[k].source
                   PROVE  drawn[e].of.number < batch'[k].number
        OBVIOUS
      <4>1. drawn[e].of.number <= frames[batch'[k].source] /\ frames[batch'[k].source] < batch'[k].number
        BY <2>2 DEF OrderInv, DrawnInOrder
      <4> QED
        BY <1>0, <2>2, <4>1
    <3> QED
      BY <2>1, <2>2, <3>1, <3>2 DEF BatchInOrder
  <2> QED
    BY <2>3, <2>4, <2>5 DEF OrderInv
<1>2. CASE ProbeFrame
  <2>1. /\ step = "probe" /\ Advance("demux") /\ UNCHANGED <<frames, drawn>>
        /\ index \in 1..Len(batch)
    BY <1>2 DEF ProbeFrame, IInv, Shape
  <2>2. batch' = batch /\ (step' = "probe" => index' = index + 1) /\ step' \in {"probe", "demux"}
    BY <2>1, AdvanceStep DEF IInv
  <2>3. /\ \A s \in Sources : \A i \in 1..Len(display_queue[s]) :
              display_queue'[s][i] = display_queue[s][i]
        /\ \A s \in Sources :
              \/ display_queue'[s] = display_queue[s]
              \/ /\ s = batch[index].source
                 /\ Len(display_queue'[s]) = Len(display_queue[s]) + 1
                 /\ display_queue'[s][Len(display_queue[s]) + 1] = batch[index]
    BY <1>2, QueueStep DEF IInv
  <2>4. DrawnInOrder'
    BY <2>1 DEF OrderInv, DrawnInOrder, OverlayInOrder
  <2>5. QueuesInOrder'
    <3> SUFFICES ASSUME NEW s \in Sources
                 PROVE  /\ \A i, j \in 1..Len(display_queue'[s]) :
                              i < j => display_queue'[s][i].number < display_queue'[s][j].number
                        /\ \A i \in 1..Len(display_queue'[s]) :
                              /\ display_queue'[s][i].number <= frames[s]
                              /\ \A d \in 1..Len(drawn) : drawn[d].of.source = s =>
                                    drawn[d].of.number < display_queue'[s][i].number
      BY <2>1 DEF QueuesInOrder
    <3>1. CASE display_queue'[s] = display_queue[s]
      BY <3>1 DEF OrderInv, QueuesInOrder
    <3>2. CASE /\ s = batch[index].source
               /\ Len(display_queue'[s]) = Len(display_queue[s]) + 1
               /\ display_queue'[s][Len(display_queue[s]) + 1] = batch[index]
      <4>1. /\ \A i \in 1..Len(display_queue[s]) : display_queue[s][i].number < batch[index].number
            /\ \A d \in 1..Len(drawn) : drawn[d].of.source = s => drawn[d].of.number < batch[index].number
            /\ batch[index].number <= frames[s]
        <5>1. s = batch[index].source /\ step # "mux" /\ index >= index
          BY <1>0, <2>1, <3>2
        <5> QED
          BY <2>1, <5>1 DEF OrderInv, BatchInOrder
      <4>2. \A i \in 1..Len(display_queue'[s]) :
               i \in 1..Len(display_queue[s]) \/ i = Len(display_queue[s]) + 1
        BY <1>0, <3>2
      <4>3. /\ \A i \in 1..Len(display_queue[s]) :
                   /\ display_queue'[s][i] = display_queue[s][i]
                   /\ display_queue[s][i].number <= frames[s]
                   /\ \A d \in 1..Len(drawn) : drawn[d].of.source = s =>
                         drawn[d].of.number < display_queue[s][i].number
            /\ \A i, j \in 1..Len(display_queue[s]) :
                   i < j => display_queue[s][i].number < display_queue[s][j].number
        BY <2>3 DEF OrderInv, QueuesInOrder
      <4>4. ASSUME NEW i \in 1..Len(display_queue'[s]), NEW j \in 1..Len(display_queue'[s]), i < j
            PROVE  display_queue'[s][i].number < display_queue'[s][j].number
        <5>1. i \in 1..Len(display_queue[s])
          BY <1>0, <3>2, <4>4
        <5>2. CASE j \in 1..Len(display_queue[s])
          BY <4>3, <4>4, <5>1, <5>2
        <5>3. CASE j = Len(display_queue[s]) + 1
          BY <3>2, <4>1, <4>3, <5>1, <5>3
        <5> QED
          BY <4>2, <5>2, <5>3
      <4>5. \A i \in 1..Len(display_queue'[s]) :
               /\ display_queue'[s][i].number <= frames[s]
               /\ \A d \in 1..Len(drawn) : drawn[d].of.source = s =>
                     drawn[d].of.number < display_queue'[s][i].number
        BY <3>2, <4>1, <4>2, <4>3
      <4> QED
        BY <4>4, <4>5
    <3> QED
      BY <2>3, <3>1, <3>2
  <2>6. BatchInOrder'
    <3>1. \A k \in 1..Len(batch) : batch[k].number <= frames[batch[k].source]
      BY <2>1 DEF OrderInv, BatchInOrder
    <3>2. ASSUME step' = "probe", NEW k \in 1..Len(batch), k >= index + 1
          PROVE  /\ \A j \in 1..Len(batch) :
                       k < j /\ batch[k].source = batch[j].source => batch[k].number < batch[j].number
                 /\ \A d \in 1..Len(drawn) :
                       drawn[d].of.source = batch[k].source => drawn[d].of.number < batch[k].number
                 /\ \A i \in 1..Len(display_queue'[batch[k].source]) :
                       display_queue'[batch[k].source][i].number < batch[k].number
      <4> DEFINE s == batch[k].source
      <4>1. k >= index /\ index < k /\ s \in Sources
        BY <1>0, <2>1, <3>2
      <4>2. /\ \A j \in 1..Len(batch) :
                  k < j /\ batch[k].source = batch[j].source => batch[k].number < batch[j].number
            /\ \A d \in 1..Len(drawn) :
                  drawn[d].of.source = batch[k].source => drawn[d].of.number < batch[k].number
            /\ \A i \in 1..Len(display_queue[s]) : display_queue[s][i].number < batch[k].number
        BY <2>1, <3>2, <4>1 DEF OrderInv, BatchInOrder
      <4>3. s = batch[index].source => batch[index].number < batch[k].number
        <5>1. \A j \in 1..Len(batch) : index < j /\ batch[index].source = batch[j].source =>
                 batch[index].number < batch[j].number
          BY <1>0, <2>1 DEF OrderInv, BatchInOrder
        <5> QED
          BY <3>2, <4>1, <5>1
      <4> HIDE DEF s
      <4>4. \A i \in 1..Len(display_queue'[s]) : display_queue'[s][i].number < batch[k].number
        <5>1. CASE display_queue'[s] = display_queue[s]
          BY <4>2, <5>1
        <5>2. CASE /\ s = batch[index].source
                   /\ Len(display_queue'[s]) = Len(display_queue[s]) + 1
                   /\ display_queue'[s][Len(display_queue[s]) + 1] = batch[index]
          <6>1. \A i \in 1..Len(display_queue'[s]) :
                   i \in 1..Len(display_queue[s]) \/ i = Len(display_queue[s]) + 1
            BY <1>0, <4>1, <5>2
          <6> QED
            BY <2>3, <4>1, <4>2, <4>3, <5>2, <6>1
        <5> QED
          BY <2>3, <4>1, <5>1, <5>2
      <4> QED
        BY <4>2, <4>4 DEF s
    <3> QED
      BY <2>1, <2>2, <3>1, <3>2 DEF BatchInOrder
  <2> QED
    BY <2>4, <2>5, <2>6 DEF OrderInv
<1>3. CASE ProbeUnmapped \/ UNCHANGED vars
  <2>1. UNCHANGED <<batch, index, display_queue, frames, drawn>>
        /\ \/ step' = step
           \/ step # "mux" /\ step' = "demux"
    BY <1>3 DEF ProbeUnmapped, vars
  <2> QED
    BY <2>1 DEF OrderInv, DrawnInOrder, OverlayInOrder, QueuesInOrder, BatchInOrder
<1>4. CASE DropFrame \/ OsdNothing
  <2>1. step = "demux" /\ Advance("mux") /\ UNCHANGED <<frames, drawn, display_queue>>
    BY <1>4 DEF DropFrame, OsdNothing
  <2>2. step' \in {"demux", "mux"} /\ (step' # "mux" => batch' = batch)
    BY <2>1, AdvanceStep DEF IInv
  <2> QED
    BY <2>1, <2>2 DEF OrderInv, DrawnInOrder, OverlayInOrder, QueuesInOrder, BatchInOrder
<1>5. CASE OsdDraw \/ OsdUnmapped
  <2> DEFINE q == StreamId(batch[index].source)
             d == [on |-> batch[index], of |-> Head(display_queue[q])]
  <2>1. step = "demux" /\ Advance("mux") /\ Take(q) /\ UNCHANGED frames
    BY <1>5 DEF OsdDraw, OsdUnmapped
  <2>2. q \in Sources /\ batch[index] \in Frame
    BY <2>1, FrameHere, QueueExists DEF IInv
  <2>3. drawn' = drawn \/ drawn' = Append(drawn, d)
    BY <1>5 DEF OsdDraw, OsdUnmapped
  <2> HIDE DEF q
  <2>4. /\ \A s \in Sources \ {q} : display_queue'[s] = display_queue[s]
        /\ Len(display_queue[q]) \in Nat \ {0}
        /\ Len(display_queue'[q]) = Len(display_queue[q]) - 1
        /\ \A i \in 1..Len(display_queue'[q]) : display_queue'[q][i] = display_queue[q][i + 1]
        /\ Head(display_queue[q]) = display_queue[q][1] /\ Head(display_queue[q]) \in Frame
    BY <2>1, <2>2, TakeStep DEF IInv
  <2>5. d \in [on : Frame, of : Frame] /\ d.of = display_queue[q][1]
        /\ d.of.source = q
    BY <2>2, <2>4 DEF IInv, QueueOwnSource
  <2> HIDE DEF d
  <2>6. step' \in {"demux", "mux"} /\ (step' # "mux" => batch' = batch)
    BY <2>1, AdvanceStep DEF IInv
  <2>7. \/ drawn' = drawn
        \/ /\ Len(drawn') = Len(drawn) + 1 /\ drawn'[Len(drawn) + 1] = d
           /\ \A i \in 1..Len(drawn) : drawn'[i] = drawn[i]
    BY <2>3, <2>5, DrawnStep DEF IInv
  <2>8. DrawnInOrder'
    <3>1. CASE drawn' = drawn
      BY <2>1, <3>1 DEF OrderInv, DrawnInOrder, OverlayInOrder
    <3>2. CASE /\ Len(drawn') = Len(drawn) + 1 /\ drawn'[Len(drawn) + 1] = d
               /\ \A i \in 1..Len(drawn) : drawn'[i] = drawn[i]
      <4>1. /\ \A e \in 1..Len(drawn) : drawn[e].of.source = q => drawn[e].of.number < d.of.number
            /\ d.of.number <= frames[q]
        BY <2>2, <2>4, <2>5 DEF OrderInv, QueuesInOrder
      <4>2. \A i \in 1..Len(drawn') : i \in 1..Len(drawn) \/ i = Len(drawn) + 1
        BY <1>0, <3>2
      <4>3. \A i \in 1..Len(drawn') : drawn'[i].of.number <= frames[drawn'[i].of.source]
        BY <2>5, <3>2, <4>1, <4>2 DEF OrderInv, DrawnInOrder
      <4>4. OverlayInOrder'
        <5> SUFFICES ASSUME NEW i \in 1..Len(drawn'), NEW j \in 1..Len(drawn'), i < j,
                            drawn'[i].of.source = drawn'[j].of.source
                     PROVE  drawn'[i].of.number < drawn'[j].of.number
          BY DEF OverlayInOrder
        <5>1. i \in 1..Len(drawn)
          BY <1>0, <3>2, <4>2
        <5>2. CASE j \in 1..Len(drawn)
          BY <3>2, <5>1, <5>2 DEF OrderInv, DrawnInOrder, OverlayInOrder
        <5>3. CASE j = Len(drawn) + 1
          BY <2>5, <3>2, <4>1, <5>1, <5>3
        <5> QED
          BY <4>2, <5>2, <5>3
      <4> QED
        BY <2>1, <4>3, <4>4 DEF DrawnInOrder
    <3> QED
      BY <2>7, <3>1, <3>2
  <2>9. QueuesInOrder'
    <3> SUFFICES ASSUME NEW s \in Sources
                 PROVE  /\ \A i, j \in 1..Len(display_queue'[s]) :
                              i < j => display_queue'[s][i].number < display_queue'[s][j].number
                        /\ \A i \in 1..Len(display_queue'[s]) :
                              /\ display_queue'[s][i].number <= frames[s]
                              /\ \A e \in 1..Len(drawn') : drawn'[e].of.source = s =>
                                    drawn'[e].of.number < display_queue'[s][i].number
      BY <2>1 DEF QueuesInOrder
    <3>1. \A i \in 1..Len(display_queue'[s]) : \E k \in 1..Len(display_queue[s]) :
             /\ display_queue'[s][i] = display_queue[s][k]
             /\ s = q => k = i + 1
             /\ s # q => k = i
      <4>1. CASE s = q
        <5>1. \A i \in 1..Len(display_queue'[q]) : i + 1 \in 1..Len(display_queue[q])
          BY <2>4
        <5> QED
          BY <2>4, <4>1, <5>1
      <4>2. CASE s # q
        BY <2>4, <4>2
      <4> QED
        BY <4>1, <4>2
    <3>2. \A e \in 1..Len(drawn') :
             \/ e \in 1..Len(drawn) /\ drawn'[e] = drawn[e]
             \/ drawn'[e] = d
      BY <1>0, <2>7
    <3>3. ASSUME NEW i \in 1..Len(display_queue'[s]), NEW j \in 1..Len(display_queue'[s]), i < j
          PROVE  display_queue'[s][i].number < display_queue'[s][j].number
      <4>1. PICK k \in 1..Len(display_queue[s]) :
               /\ display_queue'[s][i] = display_queue[s][k]
               /\ s = q => k = i + 1
               /\ s # q => k = i
        BY <3>1
      <4>2. PICK l \in 1..Len(display_queue[s]) :
               /\ display_queue'[s][j] = display_queue[s][l]
               /\ s = q => l = j + 1
               /\ s # q => l = j
        BY <3>1
      <4>3. k < l
        BY <3>3, <4>1, <4>2
      <4> QED
        BY <4>1, <4>2, <4>3 DEF OrderInv, QueuesInOrder
    <3>4. ASSUME NEW i \in 1..Len(display_queue'[s]), NEW e \in 1..Len(drawn'),
                 drawn'[e].of.source = s
          PROVE  drawn'[e].of.number < display_queue'[s][i].number
      <4>1. PICK k \in 1..Len(display_queue[s]) :
               /\ display_queue'[s][i] = display_queue[s][k]
               /\ s = q => k = i + 1
        BY <3>1
      <4>2. CASE e \in 1..Len(drawn) /\ drawn'[e] = drawn[e]
        BY <3>4, <4>1, <4>2 DEF OrderInv, QueuesInOrder
      <4>3. CASE drawn'[e] = d
        <5>1. s = q /\ k > 1 /\ 1 \in 1..Len(display_queue[q])
          BY <2>4, <2>5, <3>4, <4>1, <4>3
        <5>2. display_queue[q][1].number < display_queue[q][k].number
          BY <2>2, <5>1 DEF OrderInv, QueuesInOrder
        <5> QED
          BY <2>5, <4>1, <4>3, <5>1, <5>2
      <4> QED
        BY <3>2, <4>2, <4>3
    <3>5. \A i \in 1..Len(display_queue'[s]) : display_queue'[s][i].number <= frames[s]
      BY <3>1 DEF OrderInv, QueuesInOrder
    <3> QED
      BY <3>3, <3>4, <3>5
  <2>10. BatchInOrder'
    BY <2>1, <2>6 DEF OrderInv, BatchInOrder
  <2> QED
    BY <2>8, <2>9, <2>10 DEF OrderInv
<1> QED
  BY <1>1, <1>2, <1>3, <1>4, <1>5 DEF Next

\* The detections of a source are drawn in the order of its frames, each at
\* most once.
THEOREM DrawnOnceInOrder == Spec => []OverlayInOrder
<1>1. Init => OrderInv
  BY DEF Init, OrderInv, DrawnInOrder, OverlayInOrder, QueuesInOrder, BatchInOrder
<1>2. IInv /\ OrderInv /\ [Next]_vars => OrderInv'
  BY OrderStep
<1>3. OrderInv => OverlayInOrder
  BY DEF OrderInv, DrawnInOrder
<1> QED
  BY <1>1, <1>2, <1>3, Invariant, PTL DEF Spec

-----------------------------------------------------------------------------
(* Counting: the backlog of a queue, and the type invariant.               *)

\* One frame more or less is one index more or less.
LEMMA Counts ==
    ASSUME NEW b \in Seq(Frame), NEW k \in 1..Len(b), NEW s \in Sources
    PROVE  /\ Cardinality(Passed(b, k, s)) \in Nat /\ Cardinality(Left(b, k, s)) \in Nat
           /\ Cardinality(Left(b, k + 1, s)) \in Nat
           /\ b[k].source = s =>
                 /\ Cardinality(Passed(b, k + 1, s)) = Cardinality(Passed(b, k, s)) + 1
                 /\ Cardinality(Left(b, k, s)) = Cardinality(Left(b, k + 1, s)) + 1
           /\ b[k].source # s =>
                 /\ Passed(b, k + 1, s) = Passed(b, k, s)
                 /\ Left(b, k, s) = Left(b, k + 1, s)
<1>1. Len(b) \in Nat /\ IsFiniteSet(1..Len(b))
  BY LenProperties, FS_Interval
<1>2. /\ Passed(b, k, s) \subseteq 1..Len(b) /\ Left(b, k, s) \subseteq 1..Len(b)
      /\ Left(b, k + 1, s) \subseteq 1..Len(b)
  BY DEF Passed, Left
<1>3. /\ IsFiniteSet(Passed(b, k, s)) /\ IsFiniteSet(Left(b, k, s))
      /\ IsFiniteSet(Left(b, k + 1, s))
  BY <1>1, <1>2, FS_Subset
<1>4. k \notin Passed(b, k, s) /\ k \notin Left(b, k + 1, s)
  BY <1>1 DEF Passed, Left
<1>5. CASE b[k].source = s
  <2>1. /\ Passed(b, k + 1, s) = Passed(b, k, s) \cup {k}
        /\ Left(b, k, s) = Left(b, k + 1, s) \cup {k}
    BY <1>1, <1>5 DEF Passed, Left
  <2> QED
    BY <1>3, <1>4, <1>5, <2>1, FS_AddElement, FS_CardinalityType
<1>6. CASE b[k].source # s
  <2>1. Passed(b, k + 1, s) = Passed(b, k, s) /\ Left(b, k, s) = Left(b, k + 1, s)
    BY <1>1, <1>6 DEF Passed, Left
  <2> QED
    BY <1>3, <1>6, <2>1, FS_CardinalityType
<1> QED
  BY <1>5, <1>6

\* At the ends of a batch.
LEMMA CountEnds ==
    ASSUME NEW b \in Seq(Frame), NEW s \in Sources
    PROVE  /\ Passed(b, 1, s) = {} /\ Left(b, Len(b) + 1, s) = {}
           /\ Passed(b, Len(b) + 1, s) = Left(b, 1, s)
           /\ Passed(<<>>, 1, s) = {} /\ Left(<<>>, 1, s) = {}
           /\ Cardinality({}) = 0
           /\ Cardinality(Left(b, 1, s)) \in Nat
<1>1. Len(b) \in Nat /\ IsFiniteSet(1..Len(b))
  BY LenProperties, FS_Interval
<1>2. /\ Passed(b, 1, s) = {} /\ Left(b, Len(b) + 1, s) = {}
      /\ Passed(b, Len(b) + 1, s) = Left(b, 1, s)
  BY <1>1 DEF Passed, Left
<1>3. Passed(<<>>, 1, s) = {} /\ Left(<<>>, 1, s) = {}
  BY DEF Passed, Left
<1>4. Left(b, 1, s) \subseteq 1..Len(b)
  BY DEF Left
<1> QED
  BY <1>1, <1>2, <1>3, <1>4, FS_Subset, FS_CardinalityType, FS_EmptySet

\* No source had more frames dropped than it had: those that are on their way
\* to osd_callback are not among them.
Ahead(s) == Cardinality(Left(batch, IF step = "demux" THEN index ELSE 1, s))

Room ==
    /\ publish \in BOOLEAN /\ save \in BOOLEAN
    /\ display_detections \in BOOLEAN /\ one_per_source \in BOOLEAN
    /\ payload_dir \in BOOLEAN
    /\ step = "mux" => batch = <<>>
    /\ dropped \in [Sources -> Nat]
    /\ \A s \in Sources : dropped[s] + Ahead(s) <= frames[s] /\ frames[s] <= MaxFrames

\* How the step of a frame counts.
LEMMA AheadStep ==
    ASSUME Shape, step = "demux", Advance("mux"), NEW s \in Sources
    PROVE  /\ step' = "mux" => batch' = <<>>
           /\ Ahead(s) \in Nat /\ Ahead(s)' \in Nat
           /\ batch[index].source = s => Ahead(s) = Ahead(s)' + 1
           /\ batch[index].source # s => Ahead(s) = Ahead(s)'
<1>1. index \in 1..Len(batch) /\ batch \in Seq(Frame) /\ Len(batch) \in Nat
  BY LenProperties DEF Shape
<1>2. Ahead(s) = Cardinality(Left(batch, index, s))
  BY DEF Ahead
<1>3. Ahead(s)' = Cardinality(Left(batch, index + 1, s)) /\ (step' = "mux" => batch' = <<>>)
  <2>1. CASE step' = step /\ batch' = batch /\ index' = index + 1
    BY <2>1 DEF Ahead
  <2>2. CASE index = Len(batch) /\ step' = "mux" /\ batch' = <<>>
    <3>1. Ahead(s)' = Cardinality(Left(<<>>, 1, s))
      BY <2>2 DEF Ahead
    <3> QED
      BY <1>1, <2>2, <3>1, CountEnds
  <2> QED
    BY <2>1, <2>2, AdvanceEnds
<1> QED
  BY <1>1, <1>2, <1>3, Counts

\* Every step keeps it.
LEMMA RoomStep == Shape /\ Room /\ [Next]_vars => Room'
<1> SUFFICES ASSUME Shape, Room, [Next]_vars PROVE Room'
  OBVIOUS
<1>0. /\ \A s \in Sources : frames[s] \in Nat /\ dropped[s] \in Nat
      /\ UNCHANGED config
  BY DEF Shape, Room, Next, MakeBatch, ProbeFrame, ProbeUnmapped, DropFrame, OsdNothing,
         OsdDraw, OsdUnmapped, vars
<1>1. CASE MakeBatch
  <2>1. /\ step = "mux" /\ batch = <<>> /\ step' = "probe" /\ dropped' = dropped
        /\ \A s \in Sources : frames'[s] <= MaxFrames
    BY <1>1 DEF MakeBatch, Room
  <2>2. ASSUME NEW s \in Sources PROVE dropped'[s] + Ahead(s)' <= frames'[s]
    <3>1. Ahead(s) = 0 /\ dropped[s] <= frames[s]
      <4>1. Ahead(s) = Cardinality(Left(<<>>, 1, s))
        BY <2>1 DEF Ahead
      <4>2. Ahead(s) = 0
        BY <4>1, CountEnds DEF Shape
      <4>3. dropped[s] + Ahead(s) <= frames[s]
        BY DEF Room
      <4> QED
        BY <1>0, <4>2, <4>3
    <3>2. Ahead(s)' = Cardinality(Left(batch', 1, s))
      BY <2>1 DEF Ahead
    <3>3. Cardinality(Left(batch', 1, s)) \in Nat
      BY <1>1, BatchStep, CountEnds
    <3>4. frames'[s] = frames[s] + Ahead(s)'
      BY <1>1, <3>2, BatchStep
    <3> QED
      BY <1>0, <2>1, <3>1, <3>2, <3>3, <3>4
  <2> QED
    BY <1>0, <2>1, <2>2 DEF Room, config
<1>2. CASE ProbeFrame \/ ProbeUnmapped
  <2>1. step = "probe" /\ UNCHANGED <<frames, dropped>>
    BY <1>2 DEF ProbeFrame, ProbeUnmapped
  <2>2. /\ batch' = batch /\ step' \in {"probe", "demux"}
        /\ step' = "demux" => index' = 1
    <3>1. CASE ProbeFrame
      BY <2>1, <3>1, AdvanceEnds DEF ProbeFrame
    <3>2. CASE ProbeUnmapped
      BY <3>2 DEF ProbeUnmapped
    <3> QED
      BY <1>2, <3>1, <3>2
  <2>3. \A s \in Sources : Ahead(s)' = Ahead(s)
    BY <2>1, <2>2 DEF Ahead
  <2> QED
    BY <1>0, <2>1, <2>2, <2>3 DEF Room, config
<1>3. CASE DropFrame \/ OsdNothing \/ OsdDraw \/ OsdUnmapped
  <2> DEFINE q == batch[index].source
  <2>1. /\ step = "demux" /\ Advance("mux") /\ frames' = frames
        /\ dropped' = dropped \/ dropped' = [dropped EXCEPT ![q] = @ + 1]
    BY <1>3 DEF DropFrame, OsdNothing, OsdDraw, OsdUnmapped
  <2>2. q \in Sources
    BY <2>1, FrameHere
  <2> HIDE DEF q
  <2>3. /\ dropped' \in [Sources -> Nat]
        /\ \A s \in Sources : dropped'[s] = dropped[s] \/ (s = q /\ dropped'[s] = dropped[s] + 1)
    BY <2>1, <2>2 DEF Room
  <2>4. ASSUME NEW s \in Sources PROVE dropped'[s] + Ahead(s)' <= frames[s]
    <3>1. /\ Ahead(s) \in Nat /\ Ahead(s)' \in Nat
          /\ s = q => Ahead(s) = Ahead(s)' + 1
          /\ s # q => Ahead(s) = Ahead(s)'
      BY <2>1, AheadStep DEF q
    <3>2. dropped[s] + Ahead(s) <= frames[s]
      BY DEF Room
    <3> QED
      BY <1>0, <2>3, <3>1, <3>2
  <2>5. step' = "mux" => batch' = <<>>
    BY <2>1, AdvanceEnds
  <2> QED
    BY <1>0, <2>1, <2>3, <2>4, <2>5 DEF Room, config
<1>4. CASE UNCHANGED vars
  <2>1. UNCHANGED <<step, batch, index, frames, dropped>>
    BY <1>4 DEF vars
  <2>2. \A s \in Sources : Ahead(s)' = Ahead(s)
    BY <2>1 DEF Ahead
  <2> QED
    BY <1>0, <2>1, <2>2 DEF Room, config
<1> QED
  BY <1>1, <1>2, <1>3, <1>4 DEF Next

\* The variables have their types, and a source has at most as many frames
\* dropped as it had.
THEOREM TypeCorrect == Spec => []TypeOK
<1>1. Init => Shape /\ Room
  <2> SUFFICES ASSUME Init PROVE Shape /\ Room
    OBVIOUS
  <2>1. Shape
    BY DEF Init, Shape
  <2>2. \A s \in Sources : Ahead(s) = 0
    BY <2>1, CountEnds DEF Init, Ahead, Shape
  <2> QED
    BY <2>1, <2>2, BoundsAssumption DEF Init, Room
<1>2. Shape /\ Room /\ [Next]_vars => Shape' /\ Room'
  BY ShapeStep, RoomStep
<1>3. Shape /\ Room => TypeOK
  <2> SUFFICES ASSUME Shape, Room PROVE TypeOK
    OBVIOUS
  <2>1. Len(batch) \in Nat /\ (step = "mux" <=> batch = <<>>)
    BY LenProperties, EmptySeq DEF Shape, Room
  <2>2. index \in 1..(IF batch = <<>> THEN 1 ELSE Len(batch))
    BY <2>1 DEF Shape
  <2>3. \A s \in Sources : /\ frames[s] \in 0..MaxFrames /\ dropped[s] \in 0..MaxFrames
    <3> TAKE s \in Sources
    <3>1. Ahead(s) \in Nat
      <4>1. CASE step = "demux"
        BY <4>1, Counts DEF Ahead, Shape
      <4>2. CASE step # "demux"
        BY <4>2, CountEnds DEF Ahead, Shape
      <4> QED
        BY <4>1, <4>2
    <3>2. /\ frames[s] \in Nat /\ dropped[s] \in Nat
          /\ dropped[s] + Ahead(s) <= frames[s] /\ frames[s] <= MaxFrames
      BY DEF Shape, Room
    <3> QED
      BY <3>1, <3>2, BoundsAssumption
  <2>4. frames \in [Sources -> 0..MaxFrames] /\ dropped \in [Sources -> 0..MaxFrames]
    BY <2>3 DEF Shape, Room
  <2> QED
    BY <2>1, <2>2, <2>4 DEF Shape, Room, TypeOK
<1> QED
  BY <1>1, <1>2, <1>3, PTL DEF Spec

\* A queue holds a frame that was dropped, or one of the batch that went
\* through probe_callback and not yet through osd_callback.
Waiting(s) ==
    Cardinality(IF step = "demux" THEN Left(batch, index, s) ELSE Passed(batch, index, s))

Backlog == \A s \in Sources : Len(display_queue[s]) <= dropped[s] + Waiting(s)

\* Every step keeps it.
LEMMA BacklogStep ==
    ASSUME OneDigit, Shape, Room, Backlog, [Next]_vars
    PROVE  Backlog'
<1>0. \A s \in Sources : dropped[s] \in Nat /\ Len(display_queue[s]) \in Nat
  BY LenProperties DEF Shape, Room
<1>1. CASE MakeBatch
  <2>1. /\ step = "mux" /\ index = 1 /\ batch = <<>> /\ step' = "probe" /\ index' = 1
        /\ UNCHANGED <<dropped, display_queue>>
    BY <1>1 DEF MakeBatch, Room, Shape
  <2>2. ASSUME NEW s \in Sources PROVE Waiting(s) = 0 /\ Waiting(s)' = 0
    <3>1. Waiting(s) = Cardinality(Passed(<<>>, 1, s)) /\ Waiting(s)' = Cardinality(Passed(batch', 1, s))
      BY <2>1 DEF Waiting
    <3> QED
      BY <1>1, <3>1, CountEnds, BatchStep
  <2>3. ASSUME NEW s \in Sources PROVE Len(display_queue[s]) <= dropped[s] + Waiting(s)'
    BY <2>2 DEF Backlog
  <2> QED
    BY <2>1, <2>3 DEF Backlog
<1>2. CASE ProbeFrame
  <2>1. /\ step = "probe" /\ Advance("demux") /\ dropped' = dropped
        /\ index \in 1..Len(batch) /\ batch \in Seq(Frame)
    BY <1>2 DEF ProbeFrame, Shape
  <2>2. ASSUME NEW s \in Sources
        PROVE  /\ Waiting(s) = Cardinality(Passed(batch, index, s))
               /\ Waiting(s)' = Cardinality(Passed(batch, index + 1, s))
    <3>1. Waiting(s) = Cardinality(Passed(batch, index, s))
      BY <2>1 DEF Waiting
    <3>2. CASE step' = "probe" /\ batch' = batch /\ index' = index + 1
      BY <3>1, <3>2 DEF Waiting
    <3>3. CASE index = Len(batch) /\ step' = "demux" /\ index' = 1 /\ batch' = batch
      <4>1. Waiting(s)' = Cardinality(Left(batch, 1, s))
        BY <3>3 DEF Waiting
      <4> QED
        BY <2>1, <3>1, <3>3, <4>1, CountEnds
    <3> QED
      BY <2>1, <3>2, <3>3, AdvanceEnds
  <2>3. ASSUME NEW s \in Sources PROVE Len(display_queue'[s]) <= dropped[s] + Waiting(s)'
    <3>1. Waiting(s) \in Nat /\ Len(display_queue[s]) <= dropped[s] + Waiting(s)
      BY <2>1, <2>2, Counts DEF Backlog
    <3>2. /\ batch[index].source = s => Waiting(s)' = Waiting(s) + 1
          /\ batch[index].source # s => Waiting(s)' = Waiting(s)
      BY <2>1, <2>2, Counts
    <3>3. \/ display_queue'[s] = display_queue[s]
          \/ s = batch[index].source /\ Len(display_queue'[s]) = Len(display_queue[s]) + 1
      BY <1>2, QueueStep
    <3> QED
      BY <1>0, <3>1, <3>2, <3>3
  <2> QED
    BY <2>1, <2>3 DEF Backlog
<1>3. CASE ProbeUnmapped
  <2>1. /\ step = "probe" /\ index = 1 /\ step' = "demux" /\ index' = 1 /\ batch' = batch
        /\ UNCHANGED <<dropped, display_queue>>
    BY <1>3 DEF ProbeUnmapped
  <2>2. ASSUME NEW s \in Sources PROVE Len(display_queue[s]) <= dropped[s] + Waiting(s)'
    <3>1. Waiting(s) = Cardinality(Passed(batch, 1, s)) /\ Waiting(s)' = Cardinality(Left(batch, 1, s))
      BY <2>1 DEF Waiting
    <3>2. Waiting(s) = 0 /\ Waiting(s)' \in Nat
      BY <3>1, CountEnds DEF Shape
    <3>3. Len(display_queue[s]) <= dropped[s] + Waiting(s)
      BY DEF Backlog
    <3> QED
      BY <1>0, <3>2, <3>3
  <2> QED
    BY <2>1, <2>2 DEF Backlog
<1>4. CASE DropFrame \/ OsdNothing \/ OsdDraw \/ OsdUnmapped
  <2> DEFINE q == batch[index].source
  <2>1. /\ step = "demux" /\ Advance("mux")
        /\ DropFrame => /\ dropped' = [dropped EXCEPT ![q] = @ + 1]
                        /\ display_queue' = display_queue
        /\ ~DropFrame => dropped' = dropped
    BY <1>4 DEF DropFrame, OsdNothing, OsdDraw, OsdUnmapped
  <2>2. q \in Sources /\ StreamId(q) = q
    BY <2>1, FrameHere, OneDigitId
  <2>3. ASSUME NEW s \in Sources
        PROVE  /\ Waiting(s) = Ahead(s) /\ Waiting(s)' = Ahead(s)'
               /\ Ahead(s) \in Nat /\ Ahead(s)' \in Nat
               /\ q = s => Ahead(s) = Ahead(s)' + 1
               /\ q # s => Ahead(s) = Ahead(s)'
    <3>1. Waiting(s) = Ahead(s)
      BY <2>1 DEF Waiting, Ahead
    <3>2. Waiting(s)' = Ahead(s)'
      <4>1. CASE step' = "demux"
        BY <4>1 DEF Waiting, Ahead
      <4>2. CASE step' = "mux" /\ index' = 1 /\ batch' = <<>>
        <5>1. Waiting(s)' = Cardinality(Passed(<<>>, 1, s)) /\ Ahead(s)' = Cardinality(Left(<<>>, 1, s))
          BY <4>2 DEF Waiting, Ahead
        <5> QED
          BY <5>1, CountEnds DEF Shape
      <4> QED
        BY <2>1, <4>1, <4>2, AdvanceEnds
    <3> QED
      BY <2>1, <3>1, <3>2, AheadStep DEF q
  <2>4. ~DropFrame => /\ \A s \in Sources \ {q} : display_queue'[s] = display_queue[s]
                      /\ \/ Len(display_queue'[q]) = 0
                         \/ Len(display_queue'[q]) = Len(display_queue[q]) - 1
    <3>1. CASE OsdNothing
      <4>1. display_queue' = display_queue /\ display_queue[q] = <<>>
        BY <2>2, <3>1 DEF OsdNothing
      <4> QED
        BY <4>1
    <3>2. CASE OsdDraw \/ OsdUnmapped
      <4>1. Take(q)
        BY <2>2, <3>2 DEF OsdDraw, OsdUnmapped
      <4> HIDE DEF q
      <4> QED
        BY <2>2, <4>1, TakeStep
    <3> QED
      BY <1>4, <3>1, <3>2
  <2> HIDE DEF q
  <2>5. ASSUME NEW s \in Sources PROVE Len(display_queue'[s]) <= dropped'[s] + Waiting(s)'
    <3>1. Len(display_queue[s]) <= dropped[s] + Waiting(s)
      BY DEF Backlog
    <3>2. CASE DropFrame
      <4>1. /\ s = q => dropped'[s] = dropped[s] + 1
            /\ s # q => dropped'[s] = dropped[s]
            /\ display_queue' = display_queue
        BY <2>1, <2>2, <3>2 DEF Room
      <4> QED
        BY <1>0, <2>3, <3>1, <4>1
    <3>3. CASE ~DropFrame
      <4>1. /\ dropped'[s] = dropped[s]
            /\ \/ s # q /\ display_queue'[s] = display_queue[s]
               \/ Len(display_queue'[s]) = 0
               \/ s = q /\ Len(display_queue'[s]) = Len(display_queue[s]) - 1
        BY <2>1, <2>4, <3>3
      <4> QED
        BY <1>0, <2>3, <3>1, <4>1
    <3> QED
      BY <3>2, <3>3
  <2> QED
    BY <2>5 DEF Backlog
<1>5. CASE UNCHANGED vars
  BY <1>5 DEF vars, Backlog, Waiting
<1> QED
  BY <1>1, <1>2, <1>3, <1>4, <1>5 DEF Next

\* The counts hold in every state.
LEMMA CountInv == OneDigit => (Spec => [](Shape /\ Room /\ Backlog))
<1> SUFFICES ASSUME OneDigit PROVE Spec => [](Shape /\ Room /\ Backlog)
  OBVIOUS
<1>1. Init => Shape /\ Room /\ Backlog
  <2> SUFFICES ASSUME Init PROVE Shape /\ Room /\ Backlog
    OBVIOUS
  <2>1. Shape
    BY DEF Init, Shape
  <2>2. \A s \in Sources : Ahead(s) = 0 /\ Waiting(s) = 0
    BY <2>1, CountEnds DEF Init, Ahead, Waiting, Shape
  <2> QED
    BY <2>1, <2>2, BoundsAssumption DEF Init, Room, Backlog
<1>2. Shape /\ Room /\ Backlog /\ [Next]_vars => Shape' /\ Room' /\ Backlog'
  BY ShapeStep, RoomStep, BacklogStep
<1> QED
  BY <1>1, <1>2, PTL DEF Spec

\* With at most ten sources, what a queue holds beyond the current batch was
\* left there by frames that were dropped.
THEOREM BacklogBounded == OneDigit => (Spec => []BacklogFromDrops)
<1> SUFFICES ASSUME OneDigit PROVE Spec => []BacklogFromDrops
  OBVIOUS
<1>1. Shape /\ Room /\ Backlog => BacklogFromDrops
  <2> SUFFICES ASSUME Shape, Room, Backlog, NEW s \in Sources
               PROVE  Len(display_queue[s]) <= dropped[s] + Cardinality({i \in 1..Len(batch) :
                         batch[i].source = s /\ (step = "demux" => i >= index)})
    BY DEF BacklogFromDrops
  <2> DEFINE Here == {i \in 1..Len(batch) : batch[i].source = s /\ (step = "demux" => i >= index)}
             Some == IF step = "demux" THEN Left(batch, index, s) ELSE Passed(batch, index, s)
  <2>1. IsFiniteSet(1..Len(batch))
    BY LenProperties, FS_Interval DEF Shape
  <2>2. Some \subseteq Here /\ Here \subseteq 1..Len(batch)
    BY DEF Left, Passed
  <2>3. Waiting(s) = Cardinality(Some)
    BY DEF Waiting
  <2> HIDE DEF Some, Here
  <2>4. IsFiniteSet(Here) /\ IsFiniteSet(Some)
    BY <2>1, <2>2, FS_Subset
  <2>5. Cardinality(Some) <= Cardinality(Here) /\ Cardinality(Some) \in Nat /\ Cardinality(Here) \in Nat
    BY <2>2, <2>4, FS_Subset, FS_CardinalityType
  <2>6. /\ Len(display_queue[s]) <= dropped[s] + Cardinality(Some)
        /\ dropped[s] \in Nat /\ Len(display_queue[s]) \in Nat
    BY <2>3, LenProperties DEF Backlog, Room, Shape
  <2>7. Len(display_queue[s]) <= dropped[s] + Cardinality(Here)
    BY <2>5, <2>6
  <2> QED
    BY <2>7 DEF Here
<1>2. Spec => [](Shape /\ Room /\ Backlog)
  BY CountInv
<1> QED
  BY <1>1, <1>2, PTL

-----------------------------------------------------------------------------
(* Late overlays.                                                          *)

\* A frame of the batch has the number that the frames of its source from it
\* on leave; with one frame of each source, that is the last.
Numbered ==
    /\ Len(batch) <= MaxBatch
    /\ step # "mux" =>
          \A k \in 1..Len(batch) :
              /\ batch[k].number + Cardinality(Left(batch, k, batch[k].source))
                    = frames[batch[k].source] + 1
              /\ one_per_source => batch[k].number = frames[batch[k].source]

\* The next frame of source s that comes to osd_callback is frames[s] -
\* Ahead(s) + 1.  The i-th detection of a queue is for the i-th frame from
\* there on, or it is late, by no more frames than were dropped.
LateQueues ==
    \A s \in Sources : \A i \in 1..Len(display_queue[s]) :
        frames[s] + i <= display_queue[s][i].number + dropped[s] + Ahead(s)

LateInv == Numbered /\ LateQueues /\ OverlayLateByDrops

\* A batch with one frame of each source.
LEMMA OnePerSourceBatch ==
    ASSUME Shape, MakeBatch, one_per_source
    PROVE  /\ \A k, l \in 1..Len(batch') : batch'[k].source = batch'[l].source => k = l
           /\ \A k \in 1..Len(batch') : batch'[k].number = frames[batch'[k].source] + 1
           /\ \A k \in 1..Len(batch') : frames'[batch'[k].source] = frames[batch'[k].source] + 1
<1> DEFINE Earlier(b, i) == {j \in 1..i : b[j][1] = b[i][1]}
           Of(b, n, s) == {i \in 1..n : b[i][1] = s}
<1>0. PICK n \in 1..MaxBatch : \E b \in [1..n -> Sources \X BOOLEAN] :
         /\ \A i \in 1..n : Cardinality(Earlier(b, i)) = 1
         /\ batch' = [i \in 1..n |-> [source   |-> b[i][1],
                                      number   |-> frames[b[i][1]] + Cardinality(Earlier(b, i)),
                                      detected |-> b[i][2]]]
         /\ frames' = [s \in Sources |-> frames[s] + Cardinality(Of(b, n, s))]
  BY DEF MakeBatch
<1>1. PICK b \in [1..n -> Sources \X BOOLEAN] :
         /\ \A i \in 1..n : Cardinality(Earlier(b, i)) = 1
         /\ batch' = [i \in 1..n |-> [source   |-> b[i][1],
                                      number   |-> frames[b[i][1]] + Cardinality(Earlier(b, i)),
                                      detected |-> b[i][2]]]
         /\ frames' = [s \in Sources |-> frames[s] + Cardinality(Of(b, n, s))]
  BY <1>0
<1>2. n \in Nat \ {0} /\ \A i \in 1..n : b[i][1] \in Sources
  BY BoundsAssumption
<1>3. \A i \in 1..n : Earlier(b, i) = {i}
  <2> TAKE i \in 1..n
  <2>1. i \in Earlier(b, i) /\ Earlier(b, i) \subseteq 1..i /\ IsFiniteSet(1..i)
    BY <1>2, FS_Interval
  <2>2. Cardinality(Earlier(b, i)) = 1
    BY <1>1
  <2> HIDE DEF Earlier
  <2>3. IsFiniteSet(Earlier(b, i))
    BY <2>1, FS_Subset
  <2>4. PICK x : Earlier(b, i) = {x}
    BY <2>2, <2>3, FS_Singleton
  <2> QED
    BY <2>1, <2>4
<1>4. \A i, j \in 1..n : b[i][1] = b[j][1] => i = j
  <2> SUFFICES ASSUME NEW i \in 1..n, NEW j \in 1..n, b[i][1] = b[j][1], i < j PROVE FALSE
    BY <1>2
  <2>1. i \in Earlier(b, j)
    BY <1>2
  <2> HIDE DEF Earlier
  <2> QED
    BY <1>3, <2>1
<1>5. \A i \in 1..n : Cardinality(Of(b, n, b[i][1])) = 1
  <2> TAKE i \in 1..n
  <2>1. Of(b, n, b[i][1]) = {i}
    BY <1>4
  <2> QED
    BY <2>1, FS_Singleton
<1>6. \A i \in 1..n : Cardinality(Earlier(b, i)) = 1
  BY <1>1
<1> HIDE DEF Earlier, Of
<1>7. Len(batch') = n /\ \A i \in 1..n :
         batch'[i].source = b[i][1] /\ batch'[i].number = frames[b[i][1]] + 1
  BY <1>1, <1>2, <1>6
<1>8. \A i \in 1..n : frames'[b[i][1]] = frames[b[i][1]] + 1
  BY <1>1, <1>2, <1>5
<1> QED
  BY <1>4, <1>7, <1>8

\* Every step keeps the numbers.
LEMMA NumberedStep ==
    ASSUME Shape, Room, Numbered, [Next]_vars
    PROVE  Numbered'
<1>0. UNCHANGED one_per_source
  BY DEF Next, MakeBatch, ProbeFrame, ProbeUnmapped, DropFrame, OsdNothing, OsdDraw,
         OsdUnmapped, vars, config
<1>1. CASE MakeBatch
  <2>1. one_per_source => \A k \in 1..Len(batch') : batch'[k].number = frames'[batch'[k].source]
    BY <1>1, OnePerSourceBatch
  <2> QED
    BY <1>0, <1>1, <2>1, BatchStep DEF Numbered
<1>2. CASE ~MakeBatch
  <2>1. frames' = frames
    BY <1>2 DEF Next, ProbeFrame, ProbeUnmapped, DropFrame, OsdNothing, OsdDraw, OsdUnmapped, vars
  <2>2. CASE batch' = batch /\ (step' # "mux" => step # "mux")
    BY <1>0, <2>1, <2>2 DEF Numbered
  <2>3. CASE batch' = <<>> /\ step' = "mux"
    BY <2>3, BoundsAssumption DEF Numbered
  <2>4. \/ batch' = batch /\ (step' # "mux" => step # "mux")
        \/ batch' = <<>> /\ step' = "mux"
    <3>1. CASE ProbeFrame
      BY <3>1, AdvanceEnds DEF ProbeFrame
    <3>2. CASE DropFrame \/ OsdNothing \/ OsdDraw \/ OsdUnmapped
      BY <3>2, AdvanceEnds DEF DropFrame, OsdNothing, OsdDraw, OsdUnmapped
    <3>3. CASE ProbeUnmapped \/ UNCHANGED vars
      BY <3>3 DEF ProbeUnmapped, vars
    <3> QED
      BY <1>2, <3>1, <3>2, <3>3 DEF Next
  <2> QED
    BY <2>2, <2>3, <2>4
<1> QED
  BY <1>1, <1>2

\* The frames of a source in a batch are those before k and those from k on.
LEMMA Splits ==
    ASSUME NEW b \in Seq(Frame), NEW k \in 1..Len(b), NEW s \in Sources
    PROVE  Cardinality(Passed(b, k, s)) + Cardinality(Left(b, k, s)) = Cardinality(Left(b, 1, s))
<1>1. Len(b) \in Nat /\ IsFiniteSet(1..Len(b))
  BY LenProperties, FS_Interval
<1>2. /\ Passed(b, k, s) \subseteq 1..Len(b) /\ Left(b, k, s) \subseteq 1..Len(b)
      /\ Passed(b, k, s) \cup Left(b, k, s) = Left(b, 1, s)
      /\ Passed(b, k, s) \cap Left(b, k, s) = {}
  BY <1>1 DEF Passed, Left
<1>3. IsFiniteSet(Passed(b, k, s)) /\ IsFiniteSet(Left(b, k, s))
  BY <1>1, <1>2, FS_Subset
<1> DEFINE p == Passed(b, k, s)
           l == Left(b, k, s)
<1>4. p \cup l = Left(b, 1, s) /\ p \cap l = {}
  BY <1>2
<1> HIDE DEF p, l
<1>5. Cardinality(p \cup l) = Cardinality(p) + Cardinality(l) - Cardinality(p \cap l)
  BY <1>3, FS_Union DEF p, l
<1>6. Cardinality(p) \in Nat /\ Cardinality(l) \in Nat /\ Cardinality({}) = 0
  BY <1>3, FS_CardinalityType, FS_EmptySet DEF p, l
<1>7. Cardinality(p) + Cardinality(l) = Cardinality(Left(b, 1, s))
  <2>1. Cardinality(Left(b, 1, s)) = Cardinality(p) + Cardinality(l) - Cardinality({})
    BY <1>4, <1>5
  <2> QED
    BY <1>6, <2>1
<1> QED
  BY <1>7 DEF p, l

\* There are no more frames of a source than frames.
LEMMA LeftFits ==
    ASSUME NEW b \in Seq(Frame), NEW k \in 1..Len(b), NEW s \in Sources
    PROVE  Cardinality(Left(b, k, s)) <= Len(b)
<1>1. Len(b) \in Nat /\ Left(b, k, s) \subseteq 1..Len(b)
  BY LenProperties DEF Left
<1>2. IsFiniteSet(1..Len(b)) /\ Cardinality(1..Len(b)) = Len(b)
  BY <1>1, FS_Interval
<1> QED
  BY <1>1, <1>2, FS_Subset

\* What is compared are numbers.
LEMMA LateTypes ==
    ASSUME Shape, Room
    PROVE  /\ Len(batch) \in Nat /\ Len(drawn) \in Nat
           /\ \A s \in Sources : /\ frames[s] \in Nat /\ dropped[s] \in Nat
                                 /\ Ahead(s) \in Nat /\ Len(display_queue[s]) \in Nat
           /\ \A s \in Sources : \A i \in 1..Len(display_queue[s]) :
                 display_queue[s][i].number \in Nat
           /\ \A k \in 1..Len(batch) : batch[k].number \in Nat
           /\ \A i \in 1..Len(drawn) :
                 /\ drawn[i].on.source \in Sources /\ drawn[i].on.number \in Nat
                 /\ drawn[i].of.number \in Nat
<1>1. \A f \in Frame : f.source \in Sources /\ f.number \in Nat
  BY BoundsAssumption DEF Frame
<1>2. \A s \in Sources : \A i \in 1..Len(display_queue[s]) : display_queue[s][i] \in Frame
  BY ElementOfSeq DEF Shape
<1>3. \A k \in 1..Len(batch) : batch[k] \in Frame
  BY ElementOfSeq DEF Shape
<1>4. \A i \in 1..Len(drawn) : drawn[i].on \in Frame /\ drawn[i].of \in Frame
  <2>1. \A i \in 1..Len(drawn) : drawn[i] \in [on : Frame, of : Frame]
    BY ElementOfSeq DEF Shape
  <2> QED
    BY <2>1
<1>5. \A s \in Sources : Ahead(s) \in Nat
  <2>1. CASE step = "demux"
    BY <2>1, Counts DEF Ahead, Shape
  <2>2. CASE step # "demux"
    BY <2>2, CountEnds DEF Ahead, Shape
  <2> QED
    BY <2>1, <2>2
<1> QED
  BY <1>1, <1>2, <1>3, <1>4, <1>5, LenProperties DEF Shape, Room

\* Every step keeps the queues no later than their drops.
LEMMA LateQueuesStep ==
    ASSUME OneDigit, Shape, Room, Backlog, Numbered, LateQueues, [Next]_vars
    PROVE  LateQueues'
<1>0. \A s \in Sources : /\ frames[s] \in Nat /\ dropped[s] \in Nat
                         /\ Ahead(s) \in Nat /\ Len(display_queue[s]) \in Nat
                         /\ \A i \in 1..Len(display_queue[s]) : display_queue[s][i].number \in Nat
  BY LateTypes
<1>1. CASE MakeBatch
  <2>1. step = "mux" /\ batch = <<>> /\ step' = "probe" /\ UNCHANGED <<dropped, display_queue>>
    BY <1>1 DEF MakeBatch, Room
  <2>2. ASSUME NEW s \in Sources, NEW i \in 1..Len(display_queue[s])
        PROVE  frames'[s] + i <= display_queue[s][i].number + dropped[s] + Ahead(s)'
    <3>1. Ahead(s) = 0
      <4>1. Ahead(s) = Cardinality(Left(<<>>, 1, s))
        BY <2>1 DEF Ahead
      <4> QED
        BY <4>1, CountEnds DEF Shape
    <3>2. /\ Ahead(s)' = Cardinality(Left(batch', 1, s)) /\ Ahead(s)' \in Nat
      <4>1. Ahead(s)' = Cardinality(Left(batch', 1, s))
        BY <2>1 DEF Ahead
      <4> QED
        BY <1>1, <4>1, BatchStep, CountEnds
    <3>3. frames'[s] = frames[s] + Ahead(s)'
      BY <1>1, <3>2, BatchStep
    <3>4. frames[s] + i <= display_queue[s][i].number + dropped[s] + Ahead(s)
      BY DEF LateQueues
    <3> DEFINE number == display_queue[s][i].number
               next == Ahead(s)'
               old == frames[s]
    <3>5. number \in Nat /\ next \in Nat /\ old \in Nat /\ dropped[s] \in Nat /\ i \in Nat
      BY <1>0, <3>2
    <3>6. frames'[s] = old + next /\ old + i <= number + dropped[s] + 0
      BY <3>1, <3>3, <3>4
    <3> HIDE DEF number, next, old
    <3>7. frames'[s] + i <= number + dropped[s] + next
      BY <3>5, <3>6
    <3> QED
      BY <3>7 DEF number, next
  <2> QED
    BY <2>1, <2>2 DEF LateQueues
<1>2. CASE ProbeFrame
  <2>1. /\ step = "probe" /\ Advance("demux") /\ UNCHANGED <<frames, dropped>>
        /\ index \in 1..Len(batch) /\ batch \in Seq(Frame)
    BY <1>2 DEF ProbeFrame, Shape
  <2>2. batch' = batch /\ step' \in {"probe", "demux"} /\ (step' = "demux" => index' = 1)
    BY <2>1, AdvanceEnds
  <2>3. \A s \in Sources : Ahead(s) = Cardinality(Left(batch, 1, s)) /\ Ahead(s)' = Ahead(s)
    BY <2>1, <2>2 DEF Ahead
  <2>4. ASSUME NEW s \in Sources, NEW i \in 1..Len(display_queue'[s])
        PROVE  frames[s] + i <= display_queue'[s][i].number + dropped[s] + Ahead(s)
    <3>1. CASE i \in 1..Len(display_queue[s])
      <4>1. display_queue'[s][i] = display_queue[s][i]
        BY <1>2, <3>1, QueueStep
      <4> QED
        BY <3>1, <4>1 DEF LateQueues
    <3>2. CASE /\ s = batch[index].source /\ i = Len(display_queue[s]) + 1
               /\ display_queue'[s][i] = batch[index]
      <4> DEFINE passed == Cardinality(Passed(batch, index, s))
                 left == Cardinality(Left(batch, index, s))
                 n == Len(display_queue[s])
      <4>1. /\ passed \in Nat /\ left \in Nat /\ passed + left = Ahead(s)
        BY <2>1, <2>3, Counts, Splits
      <4>2. n <= dropped[s] + passed
        BY <2>1 DEF Backlog, Waiting
      <4>3. batch[index].number + left = frames[s] + 1 /\ batch[index].number \in Nat
        BY <2>1, <3>2, LateTypes DEF Numbered
      <4>4. n \in Nat /\ dropped[s] \in Nat /\ frames[s] \in Nat
        BY <1>0
      <4>5. i = n + 1 /\ display_queue'[s][i].number = batch[index].number
        BY <3>2
      <4> DEFINE number == batch[index].number
                 total == frames[s]
                 drops == dropped[s]
      <4>6. number + left = total + 1 /\ n <= drops + passed /\ number \in Nat /\ total \in Nat
            /\ drops \in Nat /\ n \in Nat
        BY <4>2, <4>3, <4>4
      <4> HIDE DEF passed, left, n, number, total, drops
      <4>7. total + (n + 1) <= number + drops + (passed + left)
        BY <4>1, <4>6
      <4> QED
        BY <4>1, <4>5, <4>7 DEF number, total, drops
    <3>3. \/ i \in 1..Len(display_queue[s])
          \/ /\ s = batch[index].source /\ i = Len(display_queue[s]) + 1
             /\ display_queue'[s][i] = batch[index]
      <4>1. CASE display_queue'[s] = display_queue[s]
        BY <4>1
      <4>2. CASE /\ s = batch[index].source
                 /\ Len(display_queue'[s]) = Len(display_queue[s]) + 1
                 /\ display_queue'[s][Len(display_queue[s]) + 1] = batch[index]
        BY <1>0, <4>2
      <4> QED
        BY <1>2, <4>1, <4>2, QueueStep
    <3> QED
      BY <3>1, <3>2, <3>3
  <2> QED
    BY <2>1, <2>3, <2>4 DEF LateQueues
<1>3. CASE ProbeUnmapped
  <2>1. /\ step = "probe" /\ index = 1 /\ step' = "demux"
        /\ UNCHANGED <<batch, index, frames, dropped, display_queue>>
    BY <1>3 DEF ProbeUnmapped
  <2>2. \A s \in Sources : Ahead(s)' = Ahead(s)
    BY <2>1 DEF Ahead
  <2> QED
    BY <2>1, <2>2 DEF LateQueues
<1>4. CASE DropFrame \/ OsdNothing \/ OsdDraw \/ OsdUnmapped
  <2> DEFINE q == batch[index].source
  <2>1. /\ step = "demux" /\ Advance("mux") /\ frames' = frames
    BY <1>4 DEF DropFrame, OsdNothing, OsdDraw, OsdUnmapped
  <2>2. q \in Sources /\ StreamId(q) = q
    BY <2>1, FrameHere, OneDigitId
  <2>3. \A s \in Sources : /\ Ahead(s) \in Nat /\ Ahead(s)' \in Nat
                           /\ q = s => Ahead(s) = Ahead(s)' + 1
                           /\ q # s => Ahead(s) = Ahead(s)'
    BY <2>1, AheadStep
  <2>4. CASE DropFrame
    <3>1. /\ display_queue' = display_queue
          /\ \A s \in Sources : dropped'[s] = IF s = q THEN dropped[s] + 1 ELSE dropped[s]
      BY <2>2, <2>4 DEF DropFrame, Room
    <3> HIDE DEF q
    <3>2. ASSUME NEW s \in Sources, NEW i \in 1..Len(display_queue[s])
          PROVE  frames[s] + i <= display_queue[s][i].number + dropped'[s] + Ahead(s)'
      <4> DEFINE number == display_queue[s][i].number
                 ahead == Ahead(s)
                 next == Ahead(s)'
                 drops == dropped[s]
      <4>1. frames[s] + i <= number + drops + ahead
        BY DEF LateQueues
      <4>2. /\ number \in Nat /\ ahead \in Nat /\ next \in Nat /\ drops \in Nat
            /\ i \in Nat /\ frames[s] \in Nat
        BY <1>0, <2>3
      <4>3. \/ dropped'[s] = drops + 1 /\ ahead = next + 1
            \/ dropped'[s] = drops /\ ahead = next
        BY <2>3, <3>1
      <4> HIDE DEF number, ahead, next, drops
      <4>4. frames[s] + i <= number + dropped'[s] + next
        BY <4>1, <4>2, <4>3
      <4> QED
        BY <4>4 DEF number, next
    <3> QED
      BY <2>1, <3>1, <3>2 DEF LateQueues
  <2>5. CASE OsdNothing
    <3>1. display_queue' = display_queue /\ dropped' = dropped /\ display_queue[q] = <<>>
      BY <2>2, <2>5 DEF OsdNothing
    <3> HIDE DEF q
    <3>2. ASSUME NEW s \in Sources, NEW i \in 1..Len(display_queue[s])
          PROVE  frames[s] + i <= display_queue[s][i].number + dropped[s] + Ahead(s)'
      <4>1. frames[s] + i <= display_queue[s][i].number + dropped[s] + Ahead(s)
        BY DEF LateQueues
      <4>2. s # q
        BY <3>1
      <4> QED
        BY <2>3, <4>1, <4>2
    <3> QED
      BY <2>1, <3>1, <3>2 DEF LateQueues
  <2>6. CASE OsdDraw \/ OsdUnmapped
    <3>1. Take(q) /\ dropped' = dropped
      BY <2>2, <2>6 DEF OsdDraw, OsdUnmapped
    <3> HIDE DEF q
    <3>2. /\ \A s \in Sources \ {q} : display_queue'[s] = display_queue[s]
          /\ Len(display_queue'[q]) = Len(display_queue[q]) - 1
          /\ \A i \in 1..Len(display_queue'[q]) : display_queue'[q][i] = display_queue[q][i + 1]
      BY <2>2, <3>1, TakeStep
    <3>3. ASSUME NEW s \in Sources, NEW i \in 1..Len(display_queue'[s])
          PROVE  frames[s] + i <= display_queue'[s][i].number + dropped[s] + Ahead(s)'
      <4>1. CASE s # q
        <5>1. display_queue'[s] = display_queue[s]
          BY <3>2, <4>1
        <5>2. frames[s] + i <= display_queue[s][i].number + dropped[s] + Ahead(s)
          BY <5>1 DEF LateQueues
        <5> QED
          BY <2>3, <4>1, <5>1, <5>2
      <4>2. CASE s = q
        <5>1. i \in Nat /\ i + 1 \in 1..Len(display_queue[s])
          BY <1>0, <3>2, <4>2
        <5>2. frames[s] + (i + 1) <= display_queue[s][i + 1].number + dropped[s] + Ahead(s)
          BY <5>1 DEF LateQueues
        <5>3. display_queue'[s][i] = display_queue[s][i + 1] /\ display_queue[s][i + 1].number \in Nat
          BY <1>0, <3>2, <4>2, <5>1
        <5>4. Ahead(s) = Ahead(s)' + 1 /\ Ahead(s)' \in Nat
          BY <2>3, <4>2
        <5> HIDE DEF LateQueues
        <5> QED
          BY <1>0, <5>1, <5>2, <5>3, <5>4
      <4> QED
        BY <4>1, <4>2
    <3> QED
      BY <2>1, <3>1, <3>3 DEF LateQueues
  <2> QED
    BY <1>4, <2>4, <2>5, <2>6
<1>5. CASE UNCHANGED vars
  BY <1>5 DEF vars, LateQueues, Ahead
<1> QED
  BY <1>1, <1>2, <1>3, <1>4, <1>5 DEF Next

\* Every step keeps the overlays no later than their drops: the detection
\* that osd_callback draws is the first of a queue.
LEMMA LateDrawnStep ==
    ASSUME OneDigit, Shape, Room, QueuesInOrder, Numbered, LateQueues, OverlayLateByDrops,
           [Next]_vars
    PROVE  OverlayLateByDrops'
<1> DEFINE Fits(d, drops) == /\ d.on.number <= d.of.number + drops[d.on.source]
                             /\ d.of.number < d.on.number + MaxBatch
                             /\ one_per_source => d.of.number <= d.on.number
<1>0. UNCHANGED one_per_source
  BY DEF Next, MakeBatch, ProbeFrame, ProbeUnmapped, DropFrame, OsdNothing, OsdDraw,
         OsdUnmapped, vars, config
<1>1. \A i \in 1..Len(drawn) : Fits(drawn[i], dropped)
  BY DEF OverlayLateByDrops, Overlays
<1>2. (\A i \in 1..Len(drawn') : Fits(drawn'[i], dropped')) => OverlayLateByDrops'
  BY <1>0 DEF OverlayLateByDrops, Overlays
<1>3. CASE DropFrame
  <2>1. /\ drawn' = drawn /\ step = "demux"
        /\ dropped' = [dropped EXCEPT ![batch[index].source] = @ + 1]
    BY <1>3 DEF DropFrame
  <2>2. \A s \in Sources : dropped[s] \in Nat /\ dropped'[s] \in Nat /\ dropped[s] <= dropped'[s]
    BY <2>1, FrameHere DEF Room
  <2>3. ASSUME NEW i \in 1..Len(drawn) PROVE Fits(drawn[i], dropped')
    <3>1. /\ drawn[i].on.source \in Sources /\ drawn[i].on.number \in Nat /\ drawn[i].of.number \in Nat
      BY LateTypes
    <3>2. Fits(drawn[i], dropped)
      BY <1>1
    <3> QED
      BY <2>2, <3>1, <3>2
  <2> QED
    BY <1>2, <2>1, <2>3
<1>4. CASE OsdDraw
  <2> DEFINE q == batch[index].source
             d == [on |-> batch[index], of |-> Head(display_queue[q])]
  <2>1. step = "demux" /\ dropped' = dropped
    BY <1>4 DEF OsdDraw
  <2>2. batch[index] \in Frame /\ q \in Sources /\ StreamId(q) = q
    BY <2>1, FrameHere, OneDigitId
  <2>3. Take(q) /\ drawn' = Append(drawn, d)
    BY <1>4, <2>2 DEF OsdDraw
  <2>4. d.on = batch[index] /\ d.of = Head(display_queue[q]) /\ d.on.source = q
    OBVIOUS
  <2>5. index \in 1..Len(batch) /\ batch \in Seq(Frame) /\ Ahead(q) = Cardinality(Left(batch, index, q))
    BY <2>1 DEF Shape, Ahead
  <2>6. /\ batch[index].number + Ahead(q) = frames[q] + 1 /\ Ahead(q) <= Len(batch)
        /\ one_per_source => batch[index].number = frames[q]
        /\ Len(batch) <= MaxBatch /\ Len(batch) \in Nat
    BY <2>1, <2>2, <2>5, LeftFits, LateTypes DEF Numbered
  <2> HIDE DEF q
  <2>7. /\ Head(display_queue[q]) = display_queue[q][1] /\ Head(display_queue[q]) \in Frame
        /\ 1 \in 1..Len(display_queue[q])
    BY <2>2, <2>3, TakeStep
  <2>8. /\ display_queue[q][1].number <= frames[q]
        /\ frames[q] + 1 <= display_queue[q][1].number + dropped[q] + Ahead(q)
    BY <2>2, <2>7 DEF QueuesInOrder, LateQueues
  <2>9. /\ frames[q] \in Nat /\ dropped[q] \in Nat /\ Ahead(q) \in Nat
        /\ batch[index].number \in Nat /\ display_queue[q][1].number \in Nat
    BY <2>2, <2>5, <2>7, LateTypes
  <2>10. d \in [on : Frame, of : Frame]
    BY <2>2, <2>7
  <2>11. /\ batch[index].number <= display_queue[q][1].number + dropped[q]
         /\ display_queue[q][1].number < batch[index].number + MaxBatch
         /\ one_per_source => display_queue[q][1].number <= batch[index].number
    <3> DEFINE on == batch[index].number
               of == display_queue[q][1].number
               total == frames[q]
               drops == dropped[q]
               ahead == Ahead(q)
               size == Len(batch)
    <3>1. /\ on \in Nat /\ of \in Nat /\ total \in Nat /\ drops \in Nat /\ ahead \in Nat
          /\ size \in Nat /\ MaxBatch \in Nat
      BY <2>6, <2>9, BoundsAssumption
    <3>2. /\ on + ahead = total + 1 /\ ahead <= size /\ size <= MaxBatch
          /\ of <= total /\ total + 1 <= of + drops + ahead
      BY <2>6, <2>8
    <3>3. one_per_source => on = total
      BY <2>6
    <3> HIDE DEF on, of, total, drops, ahead, size
    <3>4. on <= of + drops /\ of < on + MaxBatch
      BY <3>1, <3>2
    <3>5. one_per_source => of <= on
      BY <3>2, <3>3
    <3> QED
      BY <3>4, <3>5 DEF on, of, drops
  <2>12. Fits(d, dropped)
    BY <2>4, <2>7, <2>11
  <2> HIDE DEF d
  <2>13. /\ Len(drawn) \in Nat /\ Len(drawn') = Len(drawn) + 1 /\ drawn'[Len(drawn) + 1] = d
         /\ \A i \in 1..Len(drawn) : drawn'[i] = drawn[i]
    BY <2>3, <2>10, DrawnStep
  <2>14. \A i \in 1..Len(drawn') : drawn'[i] = d \/ (i \in 1..Len(drawn) /\ drawn'[i] = drawn[i])
    BY <2>13
  <2> HIDE DEF Fits
  <2>15. \A i \in 1..Len(drawn') : Fits(drawn'[i], dropped)
    BY <1>1, <2>12, <2>14
  <2> QED
    BY <1>2, <2>1, <2>15
<1>5. CASE ~(DropFrame \/ OsdDraw)
  <2>1. drawn' = drawn /\ dropped' = dropped
    BY <1>5 DEF Next, MakeBatch, ProbeFrame, ProbeUnmapped, OsdNothing, OsdUnmapped, vars
  <2> HIDE DEF Fits
  <2> QED
    BY <1>1, <1>2, <2>1
<1> QED
  BY <1>3, <1>4, <1>5

\* However the batches are mixed, an overlay of at most ten sources is late by
\* no more frames than its source had dropped, and early by less than a batch;
\* while a batch has one frame of each source, it is never early.
THEOREM LateByDrops == OneDigit => (Spec => []OverlayLateByDrops)
<1> SUFFICES ASSUME OneDigit PROVE Spec => []OverlayLateByDrops
  OBVIOUS
<1>1. Init => OrderInv /\ LateInv
  <2> SUFFICES ASSUME Init PROVE OrderInv /\ LateInv
    OBVIOUS
  <2>1. Numbered
    BY BoundsAssumption DEF Init, Numbered
  <2> QED
    BY <2>1 DEF Init, OrderInv, DrawnInOrder, OverlayInOrder, QueuesInOrder, BatchInOrder,
                LateInv, LateQueues, OverlayLateByDrops, Overlays
<1>2. IInv /\ OrderInv /\ [Next]_vars => OrderInv'
  BY OrderStep
<1>3. /\ Shape /\ Room /\ Backlog /\ OrderInv /\ LateInv /\ [Next]_vars => LateInv'
  BY NumberedStep, LateQueuesStep, LateDrawnStep DEF LateInv, OrderInv
<1>4. Spec => [](Shape /\ Room /\ Backlog)
  BY CountInv
<1>5. LateInv => OverlayLateByDrops
  BY DEF LateInv
<1> QED
  BY <1>1, <1>2, <1>3, <1>4, <1>5, Invariant, PTL DEF Spec
=============================================================================
