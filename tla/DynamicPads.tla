---------------------------- MODULE DynamicPads ----------------------------
(***************************************************************************)
(* A pipeline that plays: the demuxers of the source bins that meet their  *)
(* parsers only when pads appear (pipelineUtils::on_pad_added), the bus    *)
(* with its callback (bus_call), and the thread of the Pipeline module     *)
(* that runs the main loop (Pipeline::_run_pipeline).                      *)
(*                                                                         *)
(* pc, the pipeline thread:                                                *)
(*   ready    before PLAYING                loop     in the main loop      *)
(*   quit     out of the loop               null     state NULL, bus gone  *)
(* pads[s][t], the pad for track t of source s, and its callback:          *)
(*   none     no pad yet                                                   *)
(*   test     on_pad_added has found the element, gst_pad_is_linked next   *)
(*   link     found it free, gst_pad_link next                             *)
(*   linked   the parser gets this track                                   *)
(*   ignored  the callback returned without a link                         *)
(* flow[s], what the source sends to nv_mux:                               *)
(*   opening  nothing yet     flowing  video     ended   end of stream     *)
(*   failed   it posted ERROR          silent   nothing, and no message    *)
(*                                                                         *)
(* The demuxer of a file adds its pads from one thread.  A camera may have *)
(* a thread for each of its streams, so that two callbacks of a rtsp bin   *)
(* can be between the test and the link at once.                           *)
(***************************************************************************)
EXTENDS Naturals, Bins

CONSTANTS
    Sources,   \* the sources
    MaxTracks  \* bounds on the tracks of each source

ASSUME MaxTracksAssumption == MaxTracks \in [Sources -> Nat]

VARIABLES
    src_type,         \* PipelineConfigs::src_type
    media,            \* what the tracks of each source are
    pc, pads, flow,
    linked,           \* the track linked to the first element behind the demuxer, or 0
    bus,              \* the messages that bus_call has not seen
    timeout_counter,  \* BusStruct::timeout_counter
    fatal             \* LOG(FATAL) ended the process

sources == <<src_type, media>>
vars == <<sources, pc, pads, flow, linked, bus, timeout_counter, fatal>>

\* A track: H.264 video, video of another codec, or sound.
Media == {"h264", "video", "audio"}
Tracks(s) == DOMAIN media[s]

\* The tracks of a source, sound last: pads are numbered within their kind,
\* and appear in any order.
TrackLists(s) ==
    {list \in UNION {[1..n -> Media] : n \in 1..MaxTracks[s]} :
        \A i, j \in DOMAIN list : i < j /\ list[i] = "audio" => list[j] = "audio"}

\* The name of a pad, up to its number.
PadName(s, t) ==
    IF src_type = "rtsp" THEN "recv_rtp_src"
    ELSE IF media[s][t] = "audio" THEN "audio" ELSE "video"

Init ==
    /\ src_type \in {"file", "rtsp"}
    /\ media \in [Sources -> UNION {TrackLists(s) : s \in Sources}]
    /\ \A s \in Sources : media[s] \in TrackLists(s)
    /\ pc = "ready"
    /\ pads = [s \in Sources |-> [t \in Tracks(s) |-> "none"]]
    /\ flow = [s \in Sources |-> "opening"]
    /\ linked = [s \in Sources |-> 0]
    /\ bus = <<>>
    /\ timeout_counter = 0
    /\ fatal = FALSE

\* The streaming threads run, and the process with them.
Streaming == pc \in {"loop", "quit"} /\ ~fatal

-----------------------------------------------------------------------------
(* on_pad_added, on a streaming thread.                                    *)

\* The element that a pad is meant for, by the name of the pad.
NamesElement(s, t) ==
    IF PadName(s, t) = "video" THEN "src_parser"
    ELSE IF PadName(s, t) = "recv_rtp_src" THEN "source_depay" ELSE "none"

\* A pad appears, and its callback looks for the element in the bin; what is
\* not there is not looked at twice: g_object_get on NULL ends the process.
PadAdded(s, t) ==
    /\ Streaming
    /\ flow[s] \in {"opening", "flowing"} /\ pads[s][t] = "none"
    /\ src_type = "file" => \A u \in Tracks(s) : pads[s][u] \notin {"test", "link"}
    /\ LET element == NamesElement(s, t)
       IN  /\ pads' = [pads EXCEPT ![s][t] = IF element = "none" THEN "ignored" ELSE "test"]
           /\ fatal' = (element # "none" /\ ~HasElement(SrcBin(src_type), element))
    /\ UNCHANGED <<sources, pc, flow, linked, bus, timeout_counter>>

\* Mutant: the second video pad is not ignored.
PadTestNot(s, t) ==
    /\ Streaming
    /\ pads[s][t] = "test"
    /\ pads' = [pads EXCEPT ![s][t] = "link"]
    /\ UNCHANGED <<sources, pc, flow, linked, bus, timeout_counter, fatal>>

\* gst_pad_is_linked: a second pad is ignored.
PadTest(s, t) ==
    /\ Streaming
    /\ pads[s][t] = "test"
    /\ pads' = [pads EXCEPT ![s][t] = IF linked[s] = 0 THEN "link" ELSE "ignored"]
    /\ UNCHANGED <<sources, pc, flow, linked, bus, timeout_counter, fatal>>

\* Mutant: a pad is linked twice.
LinkStatusTwice(s, t) == IF media[s][t] # "h264" THEN "NOFORMAT" ELSE "OK"

\* What gst_pad_link answers: the parsers take H.264 from one pad.
LinkStatus(s, t) ==
    IF linked[s] # 0 THEN "WAS_LINKED"
    ELSE IF media[s][t] # "h264" THEN "NOFORMAT" ELSE "OK"

\* gst_pad_link: any failure is LOG(FATAL).
PadLink(s, t) ==
    /\ Streaming
    /\ pads[s][t] = "link"
    /\ \/ /\ LinkStatus(s, t) = "OK"
          /\ linked' = [linked EXCEPT ![s] = t]
          /\ pads' = [pads EXCEPT ![s][t] = "linked"]
          /\ UNCHANGED fatal
       \/ /\ LinkStatus(s, t) # "OK"
          /\ fatal' = TRUE
          /\ UNCHANGED <<linked, pads>>
    /\ UNCHANGED <<sources, pc, flow, bus, timeout_counter>>

-----------------------------------------------------------------------------
(* The streams: GStreamer, the files and the cameras.                      *)

\* Source s goes on, and posts messages.  What it does once the main loop is
\* left is of no interest: nobody reads the bus.
Stream(s, from, to, messages) ==
    /\ pc = "loop" /\ ~fatal
    /\ flow[s] \in from
    /\ flow' = [flow EXCEPT ![s] = to]
    /\ bus' = bus \o messages
    /\ UNCHANGED <<sources, pc, pads, linked, timeout_counter, fatal>>

\* All pads of source s are there and their callbacks have returned.
PadsDone(s) == \A t \in Tracks(s) : pads[s][t] \in {"linked", "ignored"}

\* Video reaches nv_mux; a file is pushed once its pads are there.
Flows(s) ==
    /\ linked[s] # 0
    /\ src_type = "file" => PadsDone(s)
    /\ Stream(s, {"opening"}, "flowing", <<>>)

\* No pad is linked: the demuxer stops for that reason.
NotLinked(s) ==
    /\ PadsDone(s) /\ linked[s] = 0
    /\ Stream(s, {"opening"}, "failed", <<"ERROR">>)

\* The end of the stream; when it is the last one, the sinks have seen all.
Ends(s) ==
    Stream(s, {"flowing"}, "ended",
           IF \A r \in Sources \ {s} : flow[r] = "ended" THEN <<"EOS">> ELSE <<>>)

\* A file that cannot be opened or decoded, a server that is not there.
Fails(s) == Stream(s, {"opening", "flowing"}, "failed", <<"ERROR">>)

\* A camera stops sending, and its server says nothing.
GoesSilent(s) == src_type = "rtsp" /\ Stream(s, {"opening", "flowing"}, "silent", <<>>)

\* An element has something to say, while nothing else waits on the bus (a
\* bound: bus_call looks at no more than the type, and remembers nothing).
ElementMessage ==
    /\ pc = "loop" /\ ~fatal /\ bus = <<>>
    /\ bus' = <<"ELEMENT">>
    /\ UNCHANGED <<sources, pc, pads, flow, linked, timeout_counter, fatal>>

-----------------------------------------------------------------------------
(* The pipeline thread.                                                    *)

\* gst_element_set_state(PLAYING), by which the clock is chosen and the
\* streaming threads start, and g_main_loop_run.
Play ==
    /\ pc = "ready" /\ pc' = "loop"
    /\ bus' = Append(bus, "NEW_CLOCK")
    /\ UNCHANGED <<sources, pads, flow, linked, timeout_counter, fatal>>

\* Mutant: the case ELEMENT falls through to a quit.
QuitsOnElement(message) == message \in {"EOS", "ERROR", "ELEMENT"}

\* Mutant: an error of one source does not end the others.
QuitsOnEnd(message) == message = "EOS"

\* Mutant: an error is taken for the end of the streams, which is not seen.
QuitsOnError(message) == message = "ERROR"

\* The messages for which bus_call quits the main loop.
Quits(message) == message \in {"EOS", "ERROR"}

\* bus_call, with the oldest message; ELEMENT falls through to NEW_CLOCK.
BusCall ==
    /\ pc = "loop" /\ ~fatal /\ bus # <<>>
    /\ pc' = IF Quits(Head(bus)) THEN "quit" ELSE "loop"
    /\ timeout_counter' = IF Head(bus) \in {"ELEMENT", "NEW_CLOCK"} THEN 0 ELSE timeout_counter
    /\ bus' = Tail(bus)
    /\ UNCHANGED <<sources, pads, flow, linked, fatal>>

\* gst_element_set_state(NULL): the streaming threads are joined, which waits
\* for the callbacks, and the bus is flushed.
Teardown ==
    /\ pc = "quit" /\ ~fatal
    /\ \A s \in Sources : \A t \in Tracks(s) : pads[s][t] \notin {"test", "link"}
    /\ pc' = "null" /\ bus' = <<>>
    /\ UNCHANGED <<sources, pads, flow, linked, timeout_counter, fatal>>

-----------------------------------------------------------------------------
Callback(s, t) == PadAdded(s, t) \/ PadTest(s, t) \/ PadLink(s, t)
Pushes(s) == Flows(s) \/ NotLinked(s)
PipelineThread == Play \/ BusCall \/ Teardown

Next ==
    \/ \E s \in Sources : \E t \in Tracks(s) : Callback(s, t)
    \/ \E s \in Sources : Pushes(s) \/ Ends(s) \/ Fails(s) \/ GoesSilent(s)
    \/ ElementMessage
    \/ PipelineThread

Spec == Init /\ [][Next]_vars

(***************************************************************************)
(* All threads are scheduled; tracks that are there get their pads, and a  *)
(* file, which is finite, is read to its end.  Nothing is assumed of the   *)
(* end of a camera, of errors or of ELEMENT messages.                      *)
(***************************************************************************)
Fairness ==
    /\ WF_vars(PipelineThread)
    /\ \A s \in Sources :
          /\ \A t \in 1..MaxTracks[s] : WF_vars(t \in Tracks(s) /\ Callback(s, t))
          /\ WF_vars(Pushes(s))
          /\ WF_vars(src_type = "file" /\ Ends(s))

FairSpec == Spec /\ Fairness

-----------------------------------------------------------------------------
(* Properties.                                                             *)

\* The types; a track goes to the parser when its pad is the linked one.
TypeOK ==
    /\ src_type \in {"file", "rtsp"}
    /\ \A s \in Sources : media[s] \in TrackLists(s)
    /\ pc \in {"ready", "loop", "quit", "null"}
    /\ \A s \in Sources :
          pads[s] \in [Tracks(s) -> {"none", "test", "link", "linked", "ignored"}]
    /\ flow \in [Sources -> {"opening", "flowing", "ended", "failed", "silent"}]
    /\ \A s \in Sources :
          /\ linked[s] \in {0} \cup Tracks(s)
          /\ \A t \in Tracks(s) : pads[s][t] = "linked" <=> linked[s] = t
    /\ bus \in Seq({"EOS", "ERROR", "ELEMENT", "NEW_CLOCK"})
    /\ timeout_counter \in Nat
    /\ fatal \in BOOLEAN

\* A file whose video is H.264, whatever sound is with it, or a camera with
\* one stream of H.264.
Harmless(s) ==
    \/ /\ src_type = "file"
       /\ \A t \in Tracks(s) : media[s][t] \in {"h264", "audio"}
    \/ /\ src_type = "rtsp"
       /\ media[s] = <<"h264">>

\* In whatever order the pads appear, harmless sources never end the process
\* in on_pad_added: each pad finds its element, a second one is ignored, and
\* nothing is linked that cannot be (pipelineUtils.hpp:251-280). Of a camera
\* with sound this does not hold.
HarmlessSurvive == (\A s \in Sources : Harmless(s)) => ~fatal

\* The loop is left only when all sources have ended or one has failed: no
\* other message, and no end of one stream among several, stops the others
\* (pipelineUtils.hpp:99-155).
QuitHasReason ==
    pc \in {"quit", "null"} =>
        \/ \A s \in Sources : flow[s] = "ended"
        \/ \E s \in Sources : flow[s] = "failed"

\* While the loop runs, what must end it is not lost: once a source has failed
\* its ERROR, and once all have ended their EOS, still waits on the bus
\* (pipelineUtils.hpp:99-155, Pipeline.cpp:486-491).
EndIsOnTheBus ==
    pc = "loop" /\ ~fatal =>
        /\ (\E s \in Sources : flow[s] = "failed") =>
              \E i \in 1..Len(bus) : bus[i] = "ERROR"
        /\ Sources # {} /\ (\A s \in Sources : flow[s] = "ended") =>
              \E i \in 1..Len(bus) : bus[i] = "EOS"

Over == pc = "null" \/ fatal

\* A pipeline over files comes to its end, whatever is in the files
\* (pipelineUtils.hpp:100-142, Pipeline.cpp:486-491).
FilesEnd == src_type = "file" ~> Over

\* One source that fails ends the pipeline, whatever the others do: they may
\* be cameras that send for ever, or nothing (pipelineUtils.hpp:105-142).
ErrorEnds == (\E s \in Sources : flow[s] = "failed") ~> Over

\* "the maximum number of cycles that can be caught with an inactive source
\* before exiting" (pipelineUtils.hpp:35-36): a source that stays inactive
\* ends the pipeline.
InactiveSourceExits == (\E s \in Sources : flow[s] = "silent") ~> Over
=============================================================================
