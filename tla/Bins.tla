-------------------------------- MODULE Bins --------------------------------
(***************************************************************************)
(* What the bin factories of pipelineUtils make: the elements of a bin, by *)
(* the names they get, in the order in which the video passes them.  Each  *)
(* factory ends the process if two neighbours cannot be linked, and gives  *)
(* the ends of the bin ghost pads.                                         *)
(***************************************************************************)
EXTENDS Integers, Sequences

\* src_demux and src_parser are linked by on_pad_added.
createMp4SrcBin ==
    <<"source", "src_demux", "src_parser", "src_decoder", "src_queue">>

\* source and source_depay are linked by on_pad_added.
createRtspSrcBin ==
    <<"source", "source_depay", "src_parse", "src_decoder", "src_queue">>

createInferenceBinToStreamDemux ==
    <<"nv_mux", "nv_detection", "nv_tracker", "nv_convert", "nv_demux">>

createSinkBinToDisplay ==
    <<"sink_nvconvert", "sink_convert", "sink_caps", "sink_queue", "sink">>

createSinkBinToRTMP ==
    <<"sink_nvconvert", "sink_convert", "sink_caps", "sink_encode", "sink_mux",
      "sink_queue", "sink">>

\* Mutant: the queue before the probe.
QueueFirst ==
    <<"sink_queue", "sink_nvconvert", "sink_convert", "sink_caps", "sink_encode",
      "sink_mux", "sink">>

createSinkBinToFile ==
    <<"sink_nvconvert", "sink_convert", "sink_caps", "sink_encode", "sink_mux",
      "sink_queue", "sink">>

SrcBin(src_type) == IF src_type = "file" THEN createMp4SrcBin ELSE createRtspSrcBin

SinkBin(sink_type) ==
    IF sink_type = "display" THEN createSinkBinToDisplay
    ELSE IF sink_type = "rtmp" THEN createSinkBinToRTMP ELSE createSinkBinToFile

\* gst_bin_get_by_name: whether the bin has an element of that name.
HasElement(bin, name) == \E i \in DOMAIN bin : bin[i] = name

\* The elements from the first one to the one of that name.
UpTo(bin, name) == {bin[i] : i \in {j \in DOMAIN bin : \A k \in 1..(j - 1) : bin[k] # name}}

\* An element that hands the video to another thread.
Queues == {"source_queue", "src_queue", "sink_queue"}
=============================================================================
