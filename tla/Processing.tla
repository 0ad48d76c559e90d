----------------------------- MODULE Processing -----------------------------
(***************************************************************************)
(* The path of a frame's detections to the overlay: core::Processing       *)
(* (processing/Processing.cpp) with the two pad probes that                *)
(* Pipeline::_create_pipeline installs.                                    *)
(*                                                                         *)
(* One streaming thread pushes a batch out of nv_tracker.  On the src pad  *)
(* of nv_tracker it runs probe_callback, which queues the detections of    *)
(* each frame for its source.  The same thread then carries the frames     *)
(* one after the other through nv_demux and the converters of their        *)
(* sinkBin - there is no queue element on that path - and on the src pad   *)
(* of sink_caps it runs osd_callback, which takes the oldest detection     *)
(* from a queue and draws it.                                              *)
(*                                                                         *)
(* A frame is a record: its source, its number, whether nvinfer detected   *)
(* something.  A detection is named by the frame in which it was detected. *)
(***************************************************************************)
EXTENDS Naturals, Sequences, FiniteSets

CONSTANTS
    Sources,       \* the ids of the sources, among 0..source_count-1
    MaxFrames,     \* bound on the frames of each source
    MaxBatch,      \* the batch-size of nv_mux
    Faults,        \* what may happen: "drop", a converter drops a late frame;
                   \* "unmap", gst_buffer_map fails
    MaxUnwritten   \* bound on the files of BASE_DIR/payload that cannot be
                   \* opened or written although the directory is there

\* Processing::set_up makes a queue for each of 0..source_count-1: a number
\* that is cut to its last digit is still one of them.
ASSUME SourcesAssumption == Sources \subseteq Nat /\ \A s \in Sources : s % 10 \in Sources
ASSUME BoundsAssumption == MaxFrames \in Nat /\ MaxBatch \in Nat /\ MaxUnwritten \in Nat
ASSUME FaultsAssumption == Faults \subseteq {"drop", "unmap"}

VARIABLES
    publish, save, display_detections,  \* the fields of _configs
    payload_dir,    \* whether somebody made the directory BASE_DIR/payload: the
                    \* program does not, it makes BASE_DIR/outputs/payload
    one_per_source, \* whether nv_mux, which is free to mix, puts at most one
                    \* frame of each source in a batch (sources of one rate)
    step,           \* "mux", "probe" or "demux": where the thread is
    batch,          \* the batch it carries
    index,          \* the frame of the batch it is about to handle
    display_queue,  \* _display_queue, one queue for each source
    frames,         \* how many frames each source has had
    dropped,        \* how many frames of each source were dropped
    kafka,          \* the detections handed to the messaging component
    saved,          \* the detections that are in a file of BASE_DIR/payload
    unwritten,      \* history: the detections whose file was not written
    drawn           \* what was drawn: detection "of" on frame "on", in order

config == <<publish, save, display_detections, payload_dir, one_per_source>>
vars == <<config, step, batch, index, display_queue, frames, dropped, kafka, saved, unwritten, drawn>>

Frame == [source : Sources, number : 1..MaxFrames, detected : BOOLEAN]

\* set_up makes an empty queue for each source.
Init ==
    /\ publish \in BOOLEAN /\ save \in BOOLEAN
    /\ display_detections \in BOOLEAN /\ one_per_source \in BOOLEAN
    /\ payload_dir \in BOOLEAN
    /\ step = "mux"
    /\ batch = <<>>
    /\ index = 1
    /\ display_queue = [s \in Sources |-> <<>>]
    /\ frames = [s \in Sources |-> 0]
    /\ dropped = [s \in Sources |-> 0]
    /\ kafka = {}
    /\ saved = {}
    /\ unwritten = {}
    /\ drawn = <<>>

\* Mutant: the first queue serves all streams.
FirstStreamId(s) == CHOOSE t \in Sources : \A u \in Sources : t <= u

\* The queue that osd_callback uses for sinkBin<s>: the number that the last
\* character of the name stands for.
StreamId(s) == s % 10

\* Mutant: one frame too many.
AdvancePast(next) ==
    IF index <= Len(batch)
    THEN index' = index + 1 /\ UNCHANGED <<step, batch>>
    ELSE /\ index' = 1
         /\ step' = next
         /\ batch' = IF next = "mux" THEN <<>> ELSE batch

\* On to the next frame of the batch, or to the next step.
Advance(next) ==
    IF index < Len(batch)
    THEN index' = index + 1 /\ UNCHANGED <<step, batch>>
    ELSE /\ index' = 1
         /\ step' = next
         /\ batch' = IF next = "mux" THEN <<>> ELSE batch

-----------------------------------------------------------------------------
(* nv_mux, nv_infer and nv_tracker.                                        *)

\* A batch of at most MaxBatch frames; frames of a source keep their order.
MakeBatch ==
    /\ step = "mux"
    /\ \E n \in 1..MaxBatch :
       \E b \in [1..n -> Sources \X BOOLEAN] :
          LET Earlier(i) == {j \in 1..i : b[j][1] = b[i][1]}
          IN  /\ one_per_source => \A i \in 1..n : Cardinality(Earlier(i)) = 1
              /\ batch' = [i \in 1..n |-> [source   |-> b[i][1],
                                           number   |-> frames[b[i][1]] + Cardinality(Earlier(i)),
                                           detected |-> b[i][2]]]
              /\ frames' = [s \in Sources |->
                               frames[s] + Cardinality({i \in 1..n : b[i][1] = s})]
    /\ \A s \in Sources : frames'[s] <= MaxFrames
    /\ step' = "probe"
    /\ UNCHANGED <<config, index, display_queue, dropped, kafka, saved, unwritten, drawn>>

-----------------------------------------------------------------------------
(* probe_callback.                                                         *)

\* The files that remain when the file of f is opened: its name is the number
\* of f, and a file of that name, of whatever source, is truncated.
Others(f) == {g \in saved : g.number # f.number}

\* Mutant: all frames are written to one file.
SaveOneJson(f) ==
    \/ /\ payload_dir
       /\ saved' = {f}
       /\ UNCHANGED unwritten
    \/ /\ payload_dir => Cardinality(unwritten) < MaxUnwritten
       /\ saved' \in IF payload_dir THEN {saved, {}} ELSE {saved}
       /\ unwritten' = unwritten \cup {f}

\* The stream is never tested: without the directory nothing is written, and
\* with it the file may not be opened, or be opened and not written.
SaveJson(f) ==
    \/ /\ payload_dir
       /\ saved' = Others(f) \cup {f}
       /\ UNCHANGED unwritten
    \/ /\ payload_dir => Cardinality(unwritten) < MaxUnwritten
       /\ saved' \in IF payload_dir THEN {saved, Others(f)} ELSE {saved}
       /\ unwritten' = unwritten \cup {f}

\* Mutant: the queue is chosen by the position in the batch.
ProbeByPosition ==
    /\ step = "probe"
    /\ LET f == batch[index]
           ids == {s \in Sources : Cardinality({t \in Sources : t < s}) + 1 = index}
       IN  /\ IF save /\ f.detected THEN SaveJson(f) ELSE UNCHANGED <<saved, unwritten>>
           /\ kafka' = IF publish /\ f.detected THEN kafka \cup {f} ELSE kafka
           /\ display_queue' = [s \in Sources |->
                 IF display_detections /\ f.detected /\ s \in ids
                 THEN Append(display_queue[s], f) ELSE display_queue[s]]
    /\ Advance("demux")
    /\ UNCHANGED <<config, frames, dropped, drawn>>

\* Mutant: display_detections is ignored, and only what is not published is
\* displayed.
ProbeEither ==
    /\ step = "probe"
    /\ LET f == batch[index]
       IN  /\ IF save /\ f.detected THEN SaveJson(f) ELSE UNCHANGED <<saved, unwritten>>
           /\ kafka' = IF publish /\ f.detected /\ ~display_detections THEN kafka \cup {f} ELSE kafka
           /\ display_queue' = IF display_detections /\ f.detected
                               THEN [display_queue EXCEPT ![f.source] = Append(@, f)]
                               ELSE display_queue
    /\ Advance("demux")
    /\ UNCHANGED <<config, frames, dropped, drawn>>

\* One frame of the batch: its detections go to the messaging component and
\* to the display queue of its source, as far as the configuration says.
ProbeFrame ==
    /\ step = "probe"
    /\ LET f == batch[index]
       IN  /\ IF save /\ f.detected THEN SaveJson(f) ELSE UNCHANGED <<saved, unwritten>>
           /\ kafka' = IF publish /\ f.detected THEN kafka \cup {f} ELSE kafka
           /\ display_queue' = IF display_detections /\ f.detected
                               THEN [display_queue EXCEPT ![f.source] = Append(@, f)]
                               ELSE display_queue
    /\ Advance("demux")
    /\ UNCHANGED <<config, frames, dropped, drawn>>

\* The batch cannot be mapped: its detections are neither published nor drawn.
ProbeUnmapped ==
    /\ "unmap" \in Faults
    /\ step = "probe" /\ index = 1
    /\ step' = "demux"
    /\ UNCHANGED <<config, batch, index, display_queue, frames, dropped, kafka, saved, unwritten, drawn>>

-----------------------------------------------------------------------------
(* nv_demux, the converters of the sinkBin, and osd_callback.              *)

\* A converter drops the frame before it reaches sink_caps.
DropFrame ==
    /\ "drop" \in Faults
    /\ step = "demux"
    /\ dropped' = [dropped EXCEPT ![batch[index].source] = @ + 1]
    /\ Advance("mux")
    /\ UNCHANGED <<config, display_queue, frames, kafka, saved, unwritten, drawn>>

\* Mutant: size > 1, one detection always stays on the queue.
OsdLeavesOne ==
    /\ step = "demux"
    /\ Len(display_queue[StreamId(batch[index].source)]) <= 1
    /\ Advance("mux")
    /\ UNCHANGED <<config, display_queue, frames, dropped, kafka, saved, unwritten, drawn>>

\* osd_callback with an empty queue: nothing is drawn.
OsdNothing ==
    /\ step = "demux"
    /\ display_queue[StreamId(batch[index].source)] = <<>>
    /\ Advance("mux")
    /\ UNCHANGED <<config, display_queue, frames, dropped, kafka, saved, unwritten, drawn>>

\* The detection that osd_callback takes from the queue of stream q.
Take(q) ==
    /\ display_queue[q] # <<>>
    /\ display_queue' = [display_queue EXCEPT ![q] = Tail(@)]

\* Mutant: front() without pop().
OsdPeek ==
    /\ step = "demux"
    /\ LET q == StreamId(batch[index].source)
       IN  /\ display_queue[q] # <<>>
           /\ drawn' = Append(drawn, [on |-> batch[index], of |-> Head(display_queue[q])])
    /\ Advance("mux")
    /\ UNCHANGED <<config, display_queue, frames, dropped, kafka, saved, unwritten>>

\* osd_callback: the oldest detection is drawn on this frame.
OsdDraw ==
    /\ step = "demux"
    /\ LET q == StreamId(batch[index].source)
       IN  /\ Take(q)
           /\ drawn' = Append(drawn, [on |-> batch[index], of |-> Head(display_queue[q])])
    /\ Advance("mux")
    /\ UNCHANGED <<config, frames, dropped, kafka, saved, unwritten>>

\* Mutant: the detection is taken only once the frame is mapped.
OsdUnmappedKeeps ==
    /\ "unmap" \in Faults
    /\ step = "demux"
    /\ display_queue[StreamId(batch[index].source)] # <<>>
    /\ Advance("mux")
    /\ UNCHANGED <<config, display_queue, frames, dropped, kafka, saved, unwritten, drawn>>

\* osd_callback: the frame cannot be mapped, the detection is taken and lost.
OsdUnmapped ==
    /\ "unmap" \in Faults
    /\ step = "demux"
    /\ Take(StreamId(batch[index].source))
    /\ Advance("mux")
    /\ UNCHANGED <<config, frames, dropped, kafka, saved, unwritten, drawn>>

-----------------------------------------------------------------------------
Next ==
    \/ MakeBatch
    \/ ProbeFrame \/ ProbeUnmapped
    \/ DropFrame \/ OsdNothing \/ OsdDraw \/ OsdUnmapped

Spec == Init /\ [][Next]_vars

-----------------------------------------------------------------------------
(* Properties.                                                             *)

\* The types; a batch is there outside step "mux".
TypeOK ==
    /\ publish \in BOOLEAN /\ save \in BOOLEAN
    /\ display_detections \in BOOLEAN /\ one_per_source \in BOOLEAN
    /\ payload_dir \in BOOLEAN
    /\ step \in {"mux", "probe", "demux"}
    /\ batch \in Seq(Frame)
    /\ step = "mux" <=> batch = <<>>
    /\ index \in 1..(IF batch = <<>> THEN 1 ELSE Len(batch))
    /\ display_queue \in [Sources -> Seq(Frame)]
    /\ frames \in [Sources -> 0..MaxFrames] /\ dropped \in [Sources -> 0..MaxFrames]
    /\ kafka \in SUBSET Frame /\ saved \in SUBSET Frame /\ unwritten \in SUBSET Frame
    /\ drawn \in Seq([on : Frame, of : Frame])

Overlays == {drawn[i] : i \in 1..Len(drawn)}

\* Detections are drawn on the frame in which they were detected
\* (Processing.cpp:243-253, 283-295).
OverlayOwnFrame == \A d \in Overlays : d.on = d.of

\* Detections are drawn on frames of their own source (Processing.cpp:279-290).
OverlayOwnSource == \A d \in Overlays : d.on.source = d.of.source

\* The detections of a source are drawn in the order of its frames, and each
\* at most once, whatever frames are dropped (Processing.cpp:285-295).
OverlayInOrder ==
    \A i, j \in 1..Len(drawn) :
        i < j /\ drawn[i].of.source = drawn[j].of.source
            => drawn[i].of.number < drawn[j].of.number

\* However nv_mux mixes the frames, an overlay is late by no more frames than
\* its source had dropped - an unmapped buffer shifts nothing - and early by
\* less than a batch; while a batch has one frame of each source, it is never
\* early (Processing.cpp:141-154, 163-256, 283-315).
OverlayLateByDrops ==
    \A d \in Overlays :
        /\ d.on.number <= d.of.number + dropped[d.on.source]
        /\ d.of.number < d.on.number + MaxBatch
        /\ one_per_source => d.of.number <= d.on.number

\* The display queue of a source grows only by frames that were dropped: what
\* it holds beyond the frames of the current batch was left by them
\* (Processing.cpp:248, 290).
BacklogFromDrops ==
    \A s \in Sources :
        Len(display_queue[s]) <=
            dropped[s] + Cardinality({i \in 1..Len(batch) :
                                         batch[i].source = s /\ (step = "demux" => i >= index)})

\* With publish and save set, a detection that is not on the disk although it
\* was published has an explanation: its own file was not written, or a frame
\* of another source that has the same number came to its file
\* (Processing.cpp:226-240).
LossIsExplained ==
    publish /\ save =>
        \A f \in kafka \ saved :
            \/ f \in unwritten
            \/ \E g \in saved \cup unwritten : g.number = f.number /\ g.source # f.source
=============================================================================
