--------------------------- MODULE Configuration ---------------------------
(***************************************************************************)
(* From config.json to a pipeline: ApplicationContext::_load_module_configs*)
(* the three set_configs that CONFIGURE_MODULES calls in turn, and         *)
(* Pipeline::_create_pipeline with the bin factories of pipelineUtils.     *)
(*                                                                         *)
(* pc is the call the main thread is about to make, or how it ended:       *)
(*   load                 _load_module_configs                             *)
(*   pipeline, processing, messaging    set_configs of the module          *)
(*   start                START_MODULES                                    *)
(*   sources, inference, sinks, link_sources, link_sinks  the parts of     *)
(*                        _create_pipeline; b is the loop variable         *)
(*   running              the pipeline is built                            *)
(*   refused              run_state = false                                *)
(*   fatal                LOG(FATAL) ended the process                     *)
(*   thrown               an exception nobody catches ended the process    *)
(*                                                                         *)
(* A field of a section that is absent or of a wrong type has one effect   *)
(* whatever field it is, refusal: the sections are enumerated with all     *)
(* their fields, and beside them the case that a field is wrong.           *)
(***************************************************************************)
EXTENDS SequencesExt, Bins

CONSTANTS
    Strings,  \* the strings in sources and sinks
    Mp4,      \* those that end with ".mp4"
    Rtsp,     \* those that start with "rtsp://"
    Rtmp,     \* those that start with "rtmp://"
    Empty,    \* the empty string
    MaxLen    \* bound on the length of sources and of sinks

ASSUME StringsAssumption ==
    /\ Mp4 \subseteq Strings /\ Rtsp \subseteq Strings /\ Rtmp \subseteq Strings
    /\ Empty \in Strings \ (Mp4 \cup Rtsp \cup Rtmp)
    /\ Rtsp \cap Rtmp = {}
ASSUME MaxLenAssumption == MaxLen \in Nat

VARIABLES
    pc, b,
    loaded,      \* ApplicationContext::_configs has the three sections
    files,       \* the strings that name an existing file below BASE_DIR
    conf,        \* the section pipeline of config.json, once it is read
    configs,     \* Pipeline::_configs: where the sources and the sinks are
    refused_by,  \* the module whose set_configs returned false
    queues,      \* the number of display queues that set_up made
    bins,        \* the bins in the pipeline
    links        \* the linked pads

vars == <<pc, b, loaded, files, conf, configs, refused_by, queues, bins, links>>
graph == <<queues, bins, links>>

Section == [src_type  : {"file", "rtsp", "other"},
            sink_type : {"display", "file", "rtmp", "other"},
            sources   : SeqOf(Strings, MaxLen),
            sinks     : SeqOf(Strings, MaxLen),
            sized     : BOOLEAN]  \* input_width and input_height are not 0

NoSection == [src_type |-> "other", sink_type |-> "other",
              sources |-> <<>>, sinks |-> <<>>, sized |-> FALSE]

\* A path or url: a string, with the directory that was put before it.
Location == {"base", "video", "as_is"} \X Strings

Init ==
    /\ pc = "load" /\ b = 0
    /\ loaded = FALSE
    /\ files \in SUBSET Mp4
    /\ conf = NoSection
    /\ configs = [sources |-> <<>>, sinks |-> <<>>]
    /\ refused_by = "none"
    /\ queues = 0
    /\ bins = {} /\ links = {}

-----------------------------------------------------------------------------
(* ApplicationContext.                                                     *)

\* The file is there and parsed; a file that lacks a section is not kept.
Load ==
    /\ pc = "load"
    /\ loaded' \in BOOLEAN
    /\ pc' = "pipeline"
    /\ UNCHANGED <<b, files, conf, configs, refused_by, graph>>

\* No config.json, or one that the parser throws at.
LoadEnds ==
    /\ pc = "load"
    /\ pc' \in {"fatal", "thrown"}
    /\ UNCHANGED <<b, loaded, files, conf, configs, refused_by, graph>>

-----------------------------------------------------------------------------
(* CONFIGURE_MODULES.                                                      *)

Refuse(module) == pc' = "refused" /\ refused_by' = module

\* Pipeline::set_configs: an empty section, or a field of a wrong type.
SetPipelineMistyped ==
    /\ pc = "pipeline"
    /\ Refuse("pipeline")
    /\ UNCHANGED <<b, loaded, files, conf, configs, graph>>

\* Pipeline::set_configs: detection.yml or tracker.yml is missing.
SetPipelineNoModel ==
    /\ pc = "pipeline" /\ loaded
    /\ pc' = "fatal"
    /\ UNCHANGED <<b, loaded, files, conf, configs, refused_by, graph>>

\* Mutant: duplicates are not looked for.
SourcesRepeated(c) ==
    /\ c.src_type \in {"file", "rtsp"}
    /\ c.sources # <<>>
    /\ \A i \in DOMAIN c.sources :
          /\ c.sources[i] # Empty
          /\ c.src_type = "file" => c.sources[i] \in Mp4
          /\ c.src_type = "rtsp" => c.sources[i] \in Rtsp

\* What set_configs asks of the sources.
SourcesOk(c) ==
    /\ c.src_type \in {"file", "rtsp"}
    /\ c.sources # <<>>
    /\ \A i \in DOMAIN c.sources :
          /\ c.sources[i] # Empty
          /\ c.src_type = "file" => c.sources[i] \in Mp4
          /\ c.src_type = "rtsp" => c.sources[i] \in Rtsp
    /\ IsInjective(c.sources)

\* Mutant: sinks must end with ".mp4" for the display as well.
SinksAlwaysMp4(c) ==
    /\ c.sink_type \in {"display", "file", "rtmp"}
    /\ c.sink_type # "display" => c.sinks # <<>>
    /\ \A i \in DOMAIN c.sinks :
          /\ c.sinks[i] \in Mp4
          /\ c.sink_type = "rtmp" => c.src_type # "file" /\ c.sources[i] \in Rtmp
    /\ IsInjective(c.sinks)

\* What set_configs asks of the sinks; the test of a rtmp sink looks at the
\* source with its index.
SinksOk(c) ==
    /\ c.sink_type \in {"display", "file", "rtmp"}
    /\ c.sink_type # "display" => c.sinks # <<>>
    /\ \A i \in DOMAIN c.sinks :
          /\ c.sinks[i] # Empty
          /\ c.sink_type = "file" => c.sinks[i] \in Mp4
          /\ c.sink_type = "rtmp" => c.src_type # "file" /\ c.sources[i] \in Rtmp
    /\ IsInjective(c.sinks)

\* A source file that does not exist: LOG(FATAL), whatever else is wrong. The
\* empty string names BASE_DIR itself, which opens.
MissingSource(c) ==
    c.src_type = "file"
    /\ \E i \in DOMAIN c.sources : c.sources[i] \notin files \cup {Empty}

\* A rtmp sink with an index past the sources: a null element is converted.
NullSource(c) == c.sink_type = "rtmp" /\ Len(c.sinks) > Len(c.sources)

\* The directories are put in front after the test of the sizes.
Located(c) ==
    LET at(dir, seq) == [i \in DOMAIN seq |-> <<dir, seq[i]>>]
    IN  [sources |-> at(IF c.sized /\ c.src_type = "file" THEN "base" ELSE "as_is", c.sources),
         sinks   |-> at(IF c.sized /\ c.sink_type = "file" THEN "video" ELSE "as_is", c.sinks)]

\* Pipeline::set_configs with a section c whose fields have their types.
SetPipeline(c) ==
    /\ pc = "pipeline" /\ loaded
    /\ conf' = c
    /\ configs' = Located(c)
    /\ \/ ~c.sized /\ Refuse("pipeline")
       \/ c.sized /\ MissingSource(c)
          /\ pc' = "fatal" /\ UNCHANGED refused_by
       \/ c.sized /\ ~MissingSource(c) /\ NullSource(c)
          /\ pc' = "thrown" /\ UNCHANGED refused_by
       \/ c.sized /\ ~MissingSource(c) /\ ~NullSource(c) /\ ~(SourcesOk(c) /\ SinksOk(c))
          /\ Refuse("pipeline")
       \/ c.sized /\ ~MissingSource(c) /\ ~NullSource(c) /\ SourcesOk(c) /\ SinksOk(c)
          /\ pc' = "processing" /\ UNCHANGED refused_by
    /\ UNCHANGED <<b, loaded, files, graph>>

\* Processing::set_configs: all ten fields have their types, or not.
SetProcessing ==
    /\ pc = "processing"
    /\ \/ pc' = "messaging" /\ UNCHANGED refused_by
       \/ Refuse("processing")
    /\ UNCHANGED <<b, loaded, files, conf, configs, graph>>

\* KafkaBroker::set_configs: all three fields have their types, or not.
SetMessaging ==
    /\ pc = "messaging"
    /\ \/ pc' = "start" /\ UNCHANGED refused_by
       \/ Refuse("messaging")
    /\ UNCHANGED <<b, loaded, files, conf, configs, graph>>

-----------------------------------------------------------------------------
(* START_MODULES: Pipeline::_set_up and _create_pipeline.                  *)

source_count == Len(configs.sources)
given == <<loaded, files, conf, configs, refused_by>>

\* _set_up: Processing::set_up makes the display queues.
SetUp ==
    /\ pc = "start"
    /\ pc' = "sources" /\ b' = 0
    /\ queues' = source_count
    /\ UNCHANGED <<given, bins, links>>

\* One round of the loop at place.
Round(place) == pc = place /\ b < source_count /\ b' = b + 1

\* The loop at place ends.
LoopEnds(place, next) ==
    /\ pc = place /\ b = source_count
    /\ pc' = next /\ b' = 0
    /\ UNCHANGED <<given, graph>>

\* srcBin<b>; an index counts from 0, a sequence from 1.
AddSource ==
    /\ Round("sources")
    /\ bins' = bins \cup {[kind |-> "src", index |-> b, location |-> configs.sources[b + 1],
                          elements |-> SrcBin(conf.src_type)]}
    /\ UNCHANGED <<pc, given, queues, links>>

\* inferenceBin, with the pads input<i> and output<i> for each source.
AddInference ==
    /\ pc = "inference"
    /\ bins' = bins \cup {[kind |-> "inference", pads |-> source_count,
                          elements |-> createInferenceBinToStreamDemux]}
    /\ pc' = "sinks"
    /\ UNCHANGED <<b, given, queues, links>>

\* Mutant: the display takes a sink from the list as well.
HasListedSink == b < Len(configs.sinks)

\* Whether bin b of the loop over sinks has a sink to take.
HasSink == conf.sink_type = "display" \/ b < Len(configs.sinks)

\* Mutant: all bins get the first sink.
AddFirstSink ==
    /\ Round("sinks")
    /\ HasSink
    /\ bins' = bins \cup
           {[kind |-> "sink", index |-> b, elements |-> SinkBin(conf.sink_type),
             location |-> IF conf.sink_type = "display" THEN "screen" ELSE configs.sinks[1]]}
    /\ UNCHANGED <<pc, given, queues, links>>

\* sinkBin<b>, with the probe osd_callback on its sink_caps.
AddSink ==
    /\ Round("sinks")
    /\ HasSink
    /\ HasElement(SinkBin(conf.sink_type), "sink_caps")
    /\ bins' = bins \cup
           {[kind |-> "sink", index |-> b, elements |-> SinkBin(conf.sink_type),
             location |-> IF conf.sink_type = "display" THEN "screen" ELSE configs.sinks[b + 1]]}
    /\ UNCHANGED <<pc, given, queues, links>>

\* sinks[b] past the end is null, and null is converted to a string.
AddSinkThrows ==
    /\ pc = "sinks" /\ b < source_count
    /\ ~HasSink
    /\ pc' = "thrown"
    /\ UNCHANGED <<b, given, graph>>

\* Mutant: all sources are linked to the first pad, which takes one.
LinkFirstPad ==
    /\ Round("link_sources")
    /\ links' = links \cup {<<"srcBin", b, "input", 0>>}
    /\ UNCHANGED <<pc, given, queues, bins>>

\* Mutant: the pads are counted from 1.
LinkPadBefore ==
    /\ Round("link_sources")
    /\ links' = links \cup {<<"srcBin", b, "input", b - 1>>}
    /\ UNCHANGED <<pc, given, queues, bins>>

\* output0 of srcBin<b> to input<b> of inferenceBin.
LinkSource ==
    /\ Round("link_sources")
    /\ links' = links \cup {<<"srcBin", b, "input", b>>}
    /\ UNCHANGED <<pc, given, queues, bins>>

\* output<b> of inferenceBin to input0 of sinkBin<b>.
LinkSink ==
    /\ Round("link_sinks")
    /\ links' = links \cup {<<"output", b, "sinkBin", b>>}
    /\ UNCHANGED <<pc, given, queues, bins>>

\* probe_callback goes on nv_tracker, once the bins are there.
AddProbe ==
    /\ LoopEnds("sinks", "link_sources")
    /\ HasElement(createInferenceBinToStreamDemux, "nv_tracker")

\* GStreamer has no such element, or refuses a bin, a pad, a probe or a link.
BuildFails ==
    /\ pc \in {"start", "sources", "inference", "sinks", "link_sources", "link_sinks"}
    /\ pc' = "fatal"
    /\ UNCHANGED <<b, given, graph>>

-----------------------------------------------------------------------------
Next ==
    \/ Load \/ LoadEnds
    \/ SetPipelineMistyped \/ SetPipelineNoModel
    \/ pc = "pipeline" /\ \E c \in Section : SetPipeline(c)
    \/ SetProcessing \/ SetMessaging
    \/ SetUp
    \/ AddSource \/ LoopEnds("sources", "inference")
    \/ AddInference
    \/ AddSink \/ AddSinkThrows \/ AddProbe
    \/ LinkSource \/ LoopEnds("link_sources", "link_sinks")
    \/ LinkSink \/ LoopEnds("link_sinks", "running")
    \/ BuildFails

Spec == Init /\ [][Next]_vars

-----------------------------------------------------------------------------
(* Properties.                                                             *)

Bin == [kind : {"src"}, index : Nat, location : Location,
        elements : {SrcBin(t) : t \in {"file", "rtsp"}}]
       \cup [kind : {"inference"}, pads : Nat, elements : {createInferenceBinToStreamDemux}]
       \cup [kind : {"sink"}, index : Nat, location : Location \cup {"screen"},
             elements : {SinkBin(t) : t \in {"display", "file", "rtmp"}}]
Link == ({"srcBin"} \X Nat \X {"input"} \X Nat) \cup ({"output"} \X Nat \X {"sinkBin"} \X Nat)

\* The types.
TypeOK ==
    /\ pc \in {"load", "pipeline", "processing", "messaging", "start", "sources", "inference",
               "sinks", "link_sources", "link_sinks", "running", "refused", "fatal", "thrown"}
    /\ b \in 0..source_count
    /\ loaded \in BOOLEAN /\ files \in SUBSET Strings
    /\ conf.src_type \in {"file", "rtsp", "other"}
    /\ conf.sink_type \in {"display", "file", "rtmp", "other"}
    /\ conf.sources \in Seq(Strings) /\ conf.sinks \in Seq(Strings)
    /\ conf.sized \in BOOLEAN
    /\ configs.sources \in Seq(Location) /\ configs.sinks \in Seq(Location)
    /\ refused_by \in {"none", "pipeline", "processing", "messaging"}
    /\ queues \in Nat
    /\ bins \subseteq Bin /\ links \subseteq Link

Sinks == {s \in bins : s.kind = "sink"}

\* A pipeline that runs reads each of its sources once, all of the files exist,
\* and the frames of source i leave by sinkBin<i>, over pads that the inference
\* bin has and each of which is linked once; the callbacks have a display queue
\* for each of them (Pipeline.cpp:188-216, 277-470).
RunningIsConnected ==
    pc = "running" =>
        /\ {<<s.index, s.location>> : s \in {t \in bins : t.kind = "src"}} =
              {<<i - 1, configs.sources[i]>> : i \in 1..source_count}
        /\ IsInjective(configs.sources)
        /\ \A i \in 1..source_count :
              configs.sources[i][1] = "base" => configs.sources[i][2] \in files
        /\ {s.pads : s \in {t \in bins : t.kind = "inference"}} = {source_count}
        /\ links = {<<"srcBin", i, "input", i>> : i \in 0..(source_count - 1)}
                   \cup {<<"output", i, "sinkBin", i>> : i \in 0..(source_count - 1)}
        /\ {s.index : s \in Sinks} = 0..(source_count - 1)
        /\ queues = source_count

\* On the way from probe_callback to osd_callback no element hands the frames to
\* another thread, so that a batch meets its own detections on the display
\* queues, and the frames are raw video, which osd_callback can draw on; behind
\* the drawing the sink has a thread of its own (Pipeline.cpp:341-391, 399-403,
\* pipelineUtils.hpp:467-468, 532-533, 582-583, 633-634).
OneThreadToOverlay ==
    pc = "running" =>
        /\ \A s \in Sinks :
              /\ Queues \cap UpTo(s.elements, "sink_caps") = {}
              /\ "sink_encode" \notin UpTo(s.elements, "sink_caps")
              /\ \E e \in Queues : HasElement(s.elements, e)
        /\ \A s \in bins : s.kind = "inference" => Queues \cap ToSet(s.elements) = {}

\* No two sink bins write to one file, which would destroy both: uniqueness is
\* tested on the strings, before the directory is put in front of them, and
\* the sinks are taken by index (Pipeline.cpp:215-247, 372-380).
SinksDisjoint ==
    \A s, t \in Sinks : s.location = t.location => s = t \/ s.location = "screen"

\* What iva.md asks of the section pipeline.
Usable(c) ==
    /\ c.sized
    /\ c.src_type \in {"file", "rtsp"} /\ c.sink_type \in {"display", "file", "rtmp"}
    /\ c.sources # <<>>
    /\ c.src_type = "file" => ToSet(c.sources) \subseteq files \cap Mp4
    /\ c.src_type = "rtsp" => ToSet(c.sources) \subseteq Rtsp
    /\ c.sink_type = "file" => ToSet(c.sinks) \subseteq Mp4
    /\ c.sink_type = "rtmp" => ToSet(c.sinks) \subseteq Rtmp
    /\ c.sink_type # "display" => Len(c.sinks) >= Len(c.sources)
    /\ Empty \notin ToSet(c.sinks)
    /\ IsInjective(c.sources) /\ IsInjective(c.sinks)

\* A usable configuration that shows its video or writes it to files is neither
\* refused by the pipeline nor ends the process by an exception
\* (Pipeline.cpp:54-251, 324-395).
UsableIsAccepted ==
    Usable(conf) /\ conf.sink_type # "rtmp" => refused_by # "pipeline" /\ pc # "thrown"

\* The number of sinks is the only thing in the section for which an exception
\* ends the process: too many rtmp sinks while it is tested, too few files once
\* it was accepted - the display wants none, and rtmp sinks do not get that far
\* (Pipeline.cpp:215-247, 324-380).
ThrownForSinks ==
    pc = "thrown" /\ conf # NoSection =>
        \/ /\ queues = 0 /\ conf.sink_type = "rtmp"
           /\ Len(conf.sinks) > Len(conf.sources)
        \/ /\ queues > 0 /\ conf.sink_type = "file"
           /\ Len(conf.sinks) < Len(conf.sources)

\* "sink_type: may be one of (file, rtmp)" (.iva/iva.md:99): a usable
\* configuration with rtmp sinks is not refused by the pipeline.
RtmpIsAccepted == Usable(conf) /\ conf.sink_type = "rtmp" => refused_by # "pipeline"

\* "Must have at least one sink!" (Pipeline.cpp:172): a configuration that was
\* accepted does not end the process by an exception.
AcceptedIsBuilt == queues > 0 => pc # "thrown"
=============================================================================
