------------------------ MODULE ConfigurationProofs ------------------------
(***************************************************************************)
(* Theorems about the configuration and the construction of the pipeline,  *)
(* for any strings and any number of sources and sinks.                    *)
(***************************************************************************)
EXTENDS Configuration, SequenceTheorems, TLAPS

-----------------------------------------------------------------------------
(* The section pipeline.                                                   *)

\* The lists of a section are sequences.
LEMMA Listed ==
    ASSUME NEW c \in Section
    PROVE  /\ c.sources \in Seq(Strings) /\ c.sinks \in Seq(Strings)
           /\ Len(c.sources) \in Nat /\ DOMAIN c.sources = 1..Len(c.sources)
           /\ Len(c.sinks) \in Nat /\ DOMAIN c.sinks = 1..Len(c.sinks)
           /\ c.src_type \in {"file", "rtsp", "other"}
           /\ c.sink_type \in {"display", "file", "rtmp", "other"}
           /\ c.sized \in BOOLEAN
<1>1. \A x \in SeqOf(Strings, MaxLen) : x \in Seq(Strings)
  BY MaxLenAssumption DEF SeqOf
<1>2. c.sources \in Seq(Strings) /\ c.sinks \in Seq(Strings)
  BY <1>1 DEF Section
<1> QED
  BY <1>2, LenProperties DEF Section

\* The directories change neither the number nor the order.
LEMMA Placed ==
    ASSUME NEW c \in Section
    PROVE  /\ Located(c).sources \in Seq(Location) /\ Located(c).sinks \in Seq(Location)
           /\ Len(Located(c).sources) = Len(c.sources)
           /\ Len(Located(c).sinks) = Len(c.sinks)
           /\ \A i \in 1..Len(c.sources) :
                 Located(c).sources[i] =
                    <<IF c.sized /\ c.src_type = "file" THEN "base" ELSE "as_is", c.sources[i]>>
           /\ \A i \in 1..Len(c.sinks) :
                 Located(c).sinks[i] =
                    <<IF c.sized /\ c.sink_type = "file" THEN "video" ELSE "as_is", c.sinks[i]>>
<1> DEFINE at(dir, seq) == [i \in DOMAIN seq |-> <<dir, seq[i]>>]
<1>1. ASSUME NEW seq \in Seq(Strings), NEW dir \in {"base", "video", "as_is"}
      PROVE  /\ at(dir, seq) \in Seq(Location) /\ Len(at(dir, seq)) = Len(seq)
             /\ \A i \in 1..Len(seq) : at(dir, seq)[i] = <<dir, seq[i]>>
  <2>1. Len(seq) \in Nat /\ DOMAIN seq = 1..Len(seq)
    BY LenProperties
  <2>2. \A i \in 1..Len(seq) : <<dir, seq[i]>> \in Location
    BY ElementOfSeq DEF Location
  <2>3. at(dir, seq) \in [1..Len(seq) -> Location]
    BY <2>1, <2>2
  <2> QED
    BY <2>1, <2>3
<1>2. /\ Located(c).sources = at(IF c.sized /\ c.src_type = "file" THEN "base" ELSE "as_is", c.sources)
      /\ Located(c).sinks = at(IF c.sized /\ c.sink_type = "file" THEN "video" ELSE "as_is", c.sinks)
  BY DEF Located
<1> HIDE DEF at
<1> QED
  BY <1>1, <1>2, Listed

\* What set_configs accepts.
Accepted(c) ==
    /\ c \in Section
    /\ c.sized /\ SourcesOk(c) /\ SinksOk(c) /\ ~MissingSource(c) /\ ~NullSource(c)

\* The test of set_configs asks no more than iva.md, but for rtmp sinks.
LEMMA UsablePasses ==
    ASSUME NEW c \in Section, Usable(c), c.sink_type # "rtmp"
    PROVE  c.sized /\ ~NullSource(c) /\ SourcesOk(c) /\ SinksOk(c)
<1>1. /\ \A i \in DOMAIN c.sources : c.sources[i] \in ToSet(c.sources)
      /\ \A i \in DOMAIN c.sinks : c.sinks[i] \in ToSet(c.sinks)
  BY DEF ToSet
<1>2. SourcesOk(c)
  BY <1>1, StringsAssumption DEF Usable, SourcesOk
<1>3. SinksOk(c)
  <2>1. c.sink_type # "display" => c.sinks # <<>>
    <3> SUFFICES ASSUME c.sink_type # "display", c.sinks = <<>> PROVE FALSE
      OBVIOUS
    <3>1. Len(c.sources) <= 0
      BY DEF Usable
    <3> QED
      BY <3>1, Listed, EmptySeq DEF Usable
  <2> QED
    BY <1>1, <2>1 DEF Usable, SinksOk
<1> QED
  BY <1>2, <1>3 DEF Usable, NullSource

\* No section with rtmp sinks is accepted: the source of a rtmp sink would have
\* to be a rtmp url, and is to be a rtsp url.
LEMMA RtmpIsNotAccepted == \A c : Accepted(c) => c.sink_type # "rtmp"
<1> SUFFICES ASSUME NEW c, Accepted(c), c.sink_type = "rtmp" PROVE FALSE
  OBVIOUS
<1>1. c \in Section /\ SourcesOk(c) /\ SinksOk(c) /\ c.sources # <<>> /\ c.sinks # <<>>
  BY DEF Accepted, SourcesOk, SinksOk
<1>2. 1 \in DOMAIN c.sources /\ 1 \in DOMAIN c.sinks
  BY <1>1, Listed, EmptySeq
<1>3. c.sources[1] \in Rtmp /\ c.src_type # "file"
  BY <1>1, <1>2 DEF SinksOk
<1>4. c.sources[1] \in Rtsp
  BY <1>1, <1>2, <1>3 DEF SourcesOk
<1> QED
  BY <1>3, <1>4, StringsAssumption

-----------------------------------------------------------------------------
(* The bins.                                                               *)

SrcOf(i) == [kind |-> "src", index |-> i, location |-> configs.sources[i + 1],
             elements |-> SrcBin(conf.src_type)]
InferenceBin == [kind |-> "inference", pads |-> source_count,
                 elements |-> createInferenceBinToStreamDemux]
SinkOf(i) == [kind |-> "sink", index |-> i, elements |-> SinkBin(conf.sink_type),
              location |-> IF conf.sink_type = "display" THEN "screen" ELSE configs.sinks[i + 1]]

SrcBins(n) == {SrcOf(i) : i \in 0..(n - 1)}
SinkBins(n) == {SinkOf(i) : i \in 0..(n - 1)}
SourceLinks(n) == {<<"srcBin", i, "input", i>> : i \in 0..(n - 1)}
SinkLinks(n) == {<<"output", i, "sinkBin", i>> : i \in 0..(n - 1)}
AllBins == SrcBins(source_count) \cup {InferenceBin} \cup SinkBins(source_count)

Early == {"load", "pipeline"}
Before == {"processing", "messaging", "start"}
Building == {"sources", "inference", "sinks", "link_sources", "link_sinks"}
Ended == {"refused", "fatal", "thrown"}

\* How far each part of _create_pipeline has come.
Progress ==
    /\ pc = "sources" => bins = SrcBins(b) /\ links = {}
    /\ pc = "inference" => bins = SrcBins(source_count) /\ links = {} /\ b = 0
    /\ pc = "sinks" => bins = SrcBins(source_count) \cup {InferenceBin} \cup SinkBins(b) /\ links = {}
    /\ pc = "link_sources" => bins = AllBins /\ links = SourceLinks(b)
    /\ pc = "link_sinks" => bins = AllBins /\ links = SourceLinks(source_count) \cup SinkLinks(b)
    /\ pc = "running" => bins = AllBins
                         /\ links = SourceLinks(source_count) \cup SinkLinks(source_count)

\* What is known wherever the process ends.
Known ==
    /\ bins \subseteq AllBins
    /\ links \subseteq SourceLinks(source_count) \cup SinkLinks(source_count)
    /\ bins # {} => Accepted(conf)
    /\ \A s \in Sinks : conf.sink_type = "display" \/ s.index < Len(configs.sinks)
    /\ \/ conf \in Section /\ configs = Located(conf)
       \/ conf = NoSection /\ configs = [sources |-> <<>>, sinks |-> <<>>]
    /\ Usable(conf) /\ conf.sink_type # "rtmp" => refused_by # "pipeline" /\ pc # "thrown"

Places ==
    /\ pc \in Early \cup Before \cup Building \cup {"running"} \cup Ended
    /\ pc \in Early => conf = NoSection /\ configs = [sources |-> <<>>, sinks |-> <<>>]
    /\ pc \in Early \cup Before => bins = {} /\ links = {} /\ queues = 0 /\ b = 0
    /\ pc \in Before \cup Building \cup {"running"} => Accepted(conf) /\ configs = Located(conf)
    /\ pc \in Building \cup {"running"} => queues = source_count
    /\ b \in 0..source_count /\ source_count \in Nat /\ queues \in Nat
    /\ loaded \in BOOLEAN /\ files \in SUBSET Mp4
    /\ refused_by \in {"none", "pipeline", "processing", "messaging"}
    /\ pc \notin Ended => refused_by = "none"

IInv == Places /\ Progress /\ Known /\ ThrownForSinks

\* One round adds one bin, or one link.
LEMMA Growth ==
    ASSUME NEW n \in Nat
    PROVE  /\ SrcBins(n + 1) = SrcBins(n) \cup {SrcOf(n)}
           /\ SinkBins(n + 1) = SinkBins(n) \cup {SinkOf(n)}
           /\ SourceLinks(n + 1) = SourceLinks(n) \cup {<<"srcBin", n, "input", n>>}
           /\ SinkLinks(n + 1) = SinkLinks(n) \cup {<<"output", n, "sinkBin", n>>}
           /\ SrcBins(0) = {} /\ SinkBins(0) = {} /\ SourceLinks(0) = {} /\ SinkLinks(0) = {}
<1>1. 0..((n + 1) - 1) = (0..(n - 1)) \cup {n} /\ 0..(0 - 1) = {}
  OBVIOUS
<1> HIDE DEF SrcOf, SinkOf
<1> QED
  BY <1>1 DEF SrcBins, SinkBins, SourceLinks, SinkLinks

\* The bins are named by the configuration alone.
LEMMA SameBins ==
    ASSUME UNCHANGED <<conf, configs>>
    PROVE  /\ source_count' = source_count
           /\ \A n \in Nat : /\ {SrcOf(i)' : i \in 0..(n - 1)} = SrcBins(n)
                             /\ {SinkOf(i)' : i \in 0..(n - 1)} = SinkBins(n)
           /\ AllBins' = AllBins
BY DEF source_count, SrcOf, SinkOf, InferenceBin, SrcBins, SinkBins, AllBins

\* The steps before the pipeline is built.
LEMMA ConfigureStep ==
    ASSUME IInv,
           \/ Load \/ LoadEnds \/ SetPipelineMistyped \/ SetPipelineNoModel
           \/ pc = "pipeline" /\ \E c \in Section : SetPipeline(c)
           \/ SetProcessing \/ SetMessaging
    PROVE  IInv'
<1>1. CASE Load \/ LoadEnds \/ SetPipelineMistyped \/ SetPipelineNoModel
  <2>1. /\ UNCHANGED <<b, files, conf, configs, graph>>
        /\ loaded' \in BOOLEAN
        /\ pc \in Early
        /\ pc' \in {"pipeline", "fatal", "thrown", "refused"}
        /\ refused_by' \in {refused_by, "pipeline"}
        /\ pc' = "pipeline" => refused_by' = refused_by
    BY <1>1 DEF Load, LoadEnds, SetPipelineMistyped, SetPipelineNoModel, Refuse, IInv, Places, Early
  <2>2. conf = NoSection /\ bins = {} /\ links = {} /\ queues = 0 /\ b = 0
    BY <2>1 DEF IInv, Places, Early
  <2>3. ~Usable(conf)'
    BY <2>1, <2>2 DEF Usable, NoSection
  <2>4. Places'
    BY <2>1, <2>2 DEF IInv, Places, Early, Before, Building, Ended, graph, source_count
  <2>5. Progress'
    BY <2>1 DEF Progress
  <2>6. Known'
    BY <2>1, <2>2, <2>3 DEF IInv, Known, Sinks, graph, Places, Early
  <2>7. ThrownForSinks'
    BY <2>1, <2>2 DEF ThrownForSinks
  <2> QED
    BY <2>4, <2>5, <2>6, <2>7 DEF IInv
<1>2. ASSUME pc = "pipeline", NEW c \in Section, SetPipeline(c) PROVE IInv'
  <2>1. /\ UNCHANGED <<b, loaded, files, queues, bins, links>>
        /\ conf' = c /\ configs' = Located(c)
        /\ pc' \in {"processing", "refused", "fatal", "thrown"}
        /\ pc' = "processing" => Accepted(c)
        /\ refused_by' \in {refused_by, "pipeline"}
    BY <1>2 DEF SetPipeline, Refuse, Accepted, graph
  <2>2. bins = {} /\ links = {} /\ queues = 0 /\ b = 0 /\ refused_by = "none"
    BY <1>2 DEF IInv, Places, Early, Ended
  <2>3. /\ Len(configs'.sources) \in Nat
        /\ pc' = "processing" \/ pc' \in Ended
    BY <2>1, Placed, Listed DEF Ended
  <2>4. Places'
    <3>1. /\ b' \in 0..source_count' /\ source_count' \in Nat
          /\ pc' \notin Ended => refused_by' = "none"
      BY <1>2, <2>1, <2>2, <2>3 DEF source_count, SetPipeline, Ended, Refuse
    <3>2. loaded' \in BOOLEAN /\ files' \in SUBSET Mp4 /\ queues' \in Nat
      BY <2>1 DEF IInv, Places
    <3>3. pc' \in Before \cup Ended /\ pc' \notin Early \cup Building \cup {"running"}
      BY <2>1 DEF Before, Ended, Early, Building
    <3>4. pc' \in Before => Accepted(conf)' /\ configs' = Located(conf)'
      BY <2>1 DEF Before, Accepted, MissingSource, NullSource
    <3> QED
      BY <2>1, <2>2, <3>1, <3>2, <3>3, <3>4 DEF Places
  <2>5. Progress'
    BY <2>1 DEF Progress
  <2>6. Usable(c)' /\ c.sink_type # "rtmp" => refused_by' # "pipeline" /\ pc' # "thrown"
    <3> SUFFICES ASSUME Usable(c), c.sink_type # "rtmp"
                 PROVE  refused_by' # "pipeline" /\ pc' # "thrown"
      BY <2>1 DEF Usable
    <3>1. c.sized /\ ~NullSource(c) /\ SourcesOk(c) /\ SinksOk(c)
      BY UsablePasses
    <3> QED
      BY <1>2, <2>2, <3>1 DEF SetPipeline, Refuse
  <2>7. Known'
    BY <2>1, <2>2, <2>6 DEF Known, Sinks, Usable
  <2>8. ThrownForSinks'
    BY <1>2, <2>1, <2>2 DEF SetPipeline, Refuse, NullSource, ThrownForSinks
  <2> QED
    BY <2>4, <2>5, <2>7, <2>8 DEF IInv
<1>3. CASE SetProcessing \/ SetMessaging
  <2>1. /\ UNCHANGED <<b, loaded, files, conf, configs, graph>>
        /\ pc \in Before
        /\ \/ pc' \in Before /\ refused_by' = refused_by
           \/ pc' = "refused" /\ refused_by' \in {"processing", "messaging"}
    BY <1>3 DEF SetProcessing, SetMessaging, Refuse, Before
  <2>2. bins = {} /\ links = {} /\ queues = 0 /\ b = 0
    BY <2>1 DEF IInv, Places, Before
  <2>3. pc' \in Before \cup Ended /\ pc' \notin Early \cup Building \cup {"running"} /\ pc' # "thrown"
    BY <2>1 DEF Before, Ended, Early, Building
  <2>4. Places'
    <3>1. Accepted(conf)' = Accepted(conf) /\ Located(conf)' = Located(conf)
      BY <2>1 DEF Accepted, MissingSource, NullSource
    <3>2. source_count' = source_count
      BY <2>1 DEF source_count
    <3>3. refused_by' \in {"none", "pipeline", "processing", "messaging"}
          /\ (pc' \notin Ended => refused_by' = "none")
      BY <2>1 DEF IInv, Places, Before, Ended
    <3> QED
      BY <2>1, <2>2, <2>3, <3>1, <3>2, <3>3 DEF IInv, Places, graph
  <2>5. Progress'
    BY <2>3 DEF Progress, Building
  <2>6. Known'
    BY <2>1, <2>2, <2>3 DEF IInv, Known, Sinks, graph, Usable
  <2>7. ThrownForSinks'
    BY <2>3 DEF ThrownForSinks
  <2> QED
    BY <2>4, <2>5, <2>6, <2>7 DEF IInv
<1> QED
  BY <1>1, <1>2, <1>3

\* What the steps of _create_pipeline do not touch.
LEMMA GivenStep ==
    ASSUME IInv, UNCHANGED given, pc \in {"start", "running"} \cup Building
    PROVE  /\ Accepted(conf) /\ configs = Located(conf) /\ refused_by = "none"
           /\ Accepted(conf)' /\ configs' = Located(conf)' /\ refused_by' = "none"
           /\ loaded' \in BOOLEAN /\ files' \in SUBSET Mp4
           /\ source_count' = source_count /\ AllBins' = AllBins
           /\ source_count \in Nat /\ b \in 0..source_count
           /\ conf' \in Section
           /\ Usable(conf)' = Usable(conf)
<1>1. UNCHANGED <<loaded, files, conf, configs, refused_by>>
  BY DEF given
<1>2. /\ Accepted(conf) /\ configs = Located(conf) /\ refused_by = "none"
      /\ loaded \in BOOLEAN /\ files \in SUBSET Mp4
      /\ source_count \in Nat /\ b \in 0..source_count
  BY DEF IInv, Places, Before, Building, Ended
<1>3. Accepted(conf)' = Accepted(conf) /\ Located(conf)' = Located(conf) /\ Usable(conf)' = Usable(conf)
  BY <1>1 DEF Accepted, MissingSource, NullSource, Usable
<1>4. source_count' = source_count /\ AllBins' = AllBins
  BY <1>1, SameBins
<1> QED
  BY <1>1, <1>2, <1>3, <1>4 DEF Accepted

\* The steps of _create_pipeline, but for those that end the process.
LEMMA BuildStep ==
    ASSUME IInv,
           \/ SetUp \/ AddSource \/ AddInference \/ AddSink \/ AddProbe \/ LinkSource \/ LinkSink
           \/ LoopEnds("sources", "inference") \/ LoopEnds("link_sources", "link_sinks")
           \/ LoopEnds("link_sinks", "running")
    PROVE  IInv'
<1>1. /\ UNCHANGED given
      /\ pc \in {"start"} \cup Building
      /\ pc' \in Building \cup {"running"}
  BY DEF SetUp, AddSource, AddInference, AddSink, AddProbe, LinkSource, LinkSink, LoopEnds, Round,
         given, Building
<1>2. /\ Accepted(conf) /\ configs = Located(conf) /\ refused_by = "none"
      /\ Accepted(conf)' /\ configs' = Located(conf)' /\ refused_by' = "none"
      /\ loaded' \in BOOLEAN /\ files' \in SUBSET Mp4
      /\ source_count' = source_count /\ AllBins' = AllBins
      /\ source_count \in Nat /\ b \in 0..source_count
      /\ conf' \in Section
      /\ UNCHANGED <<conf, configs>>
  BY <1>1, GivenStep DEF given
<1>3. /\ pc' \notin Early \cup Before \cup Ended
      /\ pc' # "thrown"
  BY <1>1 DEF Building, Early, Before, Ended
<1>4. /\ SrcBins(b)' = SrcBins(b') /\ SinkBins(b)' = SinkBins(b')
      /\ SourceLinks(b)' = SourceLinks(b') /\ SinkLinks(b)' = SinkLinks(b')
      /\ SrcBins(source_count)' = SrcBins(source_count)
      /\ SourceLinks(source_count)' = SourceLinks(source_count)
      /\ SinkLinks(source_count)' = SinkLinks(source_count)
      /\ InferenceBin' = InferenceBin
  BY <1>2 DEF SrcBins, SinkBins, SrcOf, SinkOf, SourceLinks, SinkLinks, InferenceBin
<1>5. ASSUME b' \in 0..source_count, queues' = source_count, Progress',
             bins' \subseteq AllBins,
             links' \subseteq SourceLinks(source_count) \cup SinkLinks(source_count),
             \A s \in Sinks' : conf.sink_type = "display" \/ s.index < Len(configs.sinks)
      PROVE  IInv'
  <2>1. Places'
    BY <1>1, <1>2, <1>3, <1>5 DEF Places
  <2>2. Known'
    BY <1>2, <1>3, <1>4, <1>5 DEF Known
  <2> QED
    BY <1>3, <1>5, <2>1, <2>2 DEF IInv, ThrownForSinks
<1>6. /\ bins \subseteq AllBins
      /\ links \subseteq SourceLinks(source_count) \cup SinkLinks(source_count)
      /\ \A s \in Sinks : conf.sink_type = "display" \/ s.index < Len(configs.sinks)
      /\ pc # "start" => queues = source_count
  BY <1>1 DEF IInv, Known, Places
<1>7. CASE SetUp
  <2>1. /\ pc' = "sources" /\ b' = 0 /\ queues' = source_count
        /\ bins' = {} /\ links' = {}
    BY <1>7 DEF SetUp, IInv, Places, Before
  <2>2. Progress'
    BY <1>4, <2>1, Growth DEF Progress
  <2> QED
    BY <1>2, <1>5, <2>1, <2>2 DEF Sinks
<1>8. CASE AddSource
  <2>1. /\ pc = "sources" /\ pc' = "sources" /\ b \in 0..(source_count - 1) /\ b' = b + 1
        /\ bins' = bins \cup {SrcOf(b)} /\ UNCHANGED <<queues, links>>
        /\ bins = SrcBins(b) /\ links = {}
    BY <1>2, <1>8 DEF AddSource, Round, SrcOf, IInv, Progress
  <2>2. bins' = SrcBins(b') /\ SrcOf(b) \in SrcBins(source_count)
    BY <1>2, <2>1, Growth DEF SrcBins
  <2>3. Progress'
    BY <1>4, <2>1, <2>2 DEF Progress
  <2>4. Sinks' = Sinks
    BY <2>1 DEF Sinks, SrcOf
  <2> QED
    BY <1>2, <1>5, <1>6, <2>1, <2>2, <2>3, <2>4 DEF AllBins
<1>9. CASE AddInference
  <2>1. /\ pc = "inference" /\ pc' = "sinks" /\ b' = 0 /\ UNCHANGED <<queues, links>>
        /\ bins' = bins \cup {InferenceBin}
        /\ bins = SrcBins(source_count) /\ links = {}
    BY <1>9 DEF AddInference, InferenceBin, IInv, Progress, Places
  <2>2. Progress'
    BY <1>4, <2>1, Growth DEF Progress
  <2>3. Sinks' = Sinks
    BY <2>1 DEF Sinks, InferenceBin
  <2> QED
    BY <1>2, <1>5, <1>6, <2>1, <2>2, <2>3 DEF AllBins
<1>10. CASE AddSink
  <2>1. /\ pc = "sinks" /\ pc' = "sinks" /\ b \in 0..(source_count - 1) /\ b' = b + 1
        /\ bins' = bins \cup {SinkOf(b)} /\ UNCHANGED <<queues, links>>
        /\ bins = SrcBins(source_count) \cup {InferenceBin} \cup SinkBins(b) /\ links = {}
        /\ conf.sink_type = "display" \/ b < Len(configs.sinks)
    BY <1>2, <1>10 DEF AddSink, Round, HasSink, SinkOf, IInv, Progress
  <2>2. /\ bins' = SrcBins(source_count) \cup {InferenceBin} \cup SinkBins(b')
        /\ SinkOf(b) \in SinkBins(source_count)
    BY <1>2, <2>1, Growth DEF SinkBins
  <2>3. Progress'
    BY <1>4, <2>1, <2>2 DEF Progress
  <2>4. \A s \in Sinks' : s \in Sinks \/ s = SinkOf(b)
    BY <2>1 DEF Sinks
  <2>5. SinkOf(b).index = b
    BY DEF SinkOf
  <2> QED
    BY <1>2, <1>5, <1>6, <2>1, <2>2, <2>3, <2>4, <2>5 DEF AllBins
<1>11. CASE LinkSource
  <2>1. /\ pc = "link_sources" /\ pc' = "link_sources" /\ b \in 0..(source_count - 1) /\ b' = b + 1
        /\ links' = links \cup {<<"srcBin", b, "input", b>>} /\ UNCHANGED <<queues, bins>>
        /\ bins = AllBins /\ links = SourceLinks(b)
    BY <1>2, <1>11 DEF LinkSource, Round, IInv, Progress
  <2>2. links' = SourceLinks(b') /\ <<"srcBin", b, "input", b>> \in SourceLinks(source_count)
    BY <1>2, <2>1, Growth DEF SourceLinks
  <2>3. Progress'
    BY <1>2, <1>4, <2>1, <2>2 DEF Progress
  <2> QED
    BY <1>2, <1>5, <1>6, <2>1, <2>2, <2>3 DEF Sinks
<1>12. CASE LinkSink
  <2>1. /\ pc = "link_sinks" /\ pc' = "link_sinks" /\ b \in 0..(source_count - 1) /\ b' = b + 1
        /\ links' = links \cup {<<"output", b, "sinkBin", b>>} /\ UNCHANGED <<queues, bins>>
        /\ bins = AllBins /\ links = SourceLinks(source_count) \cup SinkLinks(b)
    BY <1>2, <1>12 DEF LinkSink, Round, IInv, Progress
  <2>2. /\ links' = SourceLinks(source_count) \cup SinkLinks(b')
        /\ <<"output", b, "sinkBin", b>> \in SinkLinks(source_count)
    BY <1>2, <2>1, Growth DEF SinkLinks
  <2>3. Progress'
    BY <1>2, <1>4, <2>1, <2>2 DEF Progress
  <2> QED
    BY <1>2, <1>5, <1>6, <2>1, <2>2, <2>3 DEF Sinks
<1>13. CASE \/ LoopEnds("sources", "inference") \/ AddProbe
            \/ LoopEnds("link_sources", "link_sinks") \/ LoopEnds("link_sinks", "running")
  <2>1. /\ b = source_count /\ b' = 0 /\ UNCHANGED <<queues, bins, links>>
        /\ \/ pc = "sources" /\ pc' = "inference"
           \/ pc = "sinks" /\ pc' = "link_sources"
           \/ pc = "link_sources" /\ pc' = "link_sinks"
           \/ pc = "link_sinks" /\ pc' = "running"
    BY <1>13 DEF LoopEnds, AddProbe, graph
  <2>2. Progress'
    BY <1>2, <1>4, <2>1, Growth DEF IInv, Progress, AllBins
  <2> QED
    BY <1>2, <1>5, <1>6, <2>1, <2>2 DEF Sinks
<1> QED
  BY <1>7, <1>8, <1>9, <1>10, <1>11, <1>12, <1>13

\* The steps that end the process while the pipeline is built.
LEMMA EndStep ==
    ASSUME IInv, AddSinkThrows \/ BuildFails
    PROVE  IInv'
<1>1. /\ UNCHANGED <<b, given, graph>>
      /\ pc \in {"start"} \cup Building
      /\ pc' = "fatal" \/ (pc' = "thrown" /\ AddSinkThrows)
  BY DEF AddSinkThrows, BuildFails, Building
<1>2. /\ Accepted(conf) /\ configs = Located(conf)
      /\ Accepted(conf)' /\ configs' = Located(conf)' /\ refused_by' = "none"
      /\ loaded' \in BOOLEAN /\ files' \in SUBSET Mp4
      /\ source_count' = source_count /\ AllBins' = AllBins
      /\ source_count \in Nat /\ b \in 0..source_count
      /\ conf' \in Section
      /\ Usable(conf)' = Usable(conf)
      /\ UNCHANGED <<conf, configs>>
  BY <1>1, GivenStep DEF given
<1>3. pc' \in Ended /\ pc' \notin Early \cup Before \cup Building \cup {"running"}
  BY <1>1 DEF Ended, Early, Before, Building
<1>4. Places'
  BY <1>1, <1>2, <1>3 DEF IInv, Places, graph
<1>5. Progress'
  BY <1>3 DEF Progress, Building
<1>6. AddSinkThrows /\ conf.sink_type # "rtmp" => ~Usable(conf)
  <2> SUFFICES ASSUME AddSinkThrows, Usable(conf) PROVE FALSE
    OBVIOUS
  <2>1. conf.sink_type # "display" /\ ~(b < Len(configs.sinks)) /\ b < Len(configs.sources)
    BY DEF AddSinkThrows, HasSink, source_count
  <2>2. Len(configs.sinks) = Len(conf.sinks) /\ Len(configs.sources) = Len(conf.sources)
        /\ Len(conf.sinks) \in Nat /\ Len(conf.sources) \in Nat
    BY <1>2, Placed, Listed DEF Accepted
  <2>3. Len(conf.sinks) >= Len(conf.sources)
    BY <2>1 DEF Usable
  <2> QED
    BY <1>2, <2>1, <2>2, <2>3
<1>7. Known'
  <2>1. /\ SourceLinks(source_count)' = SourceLinks(source_count)
        /\ SinkLinks(source_count)' = SinkLinks(source_count)
    BY <1>2 DEF SourceLinks, SinkLinks
  <2> QED
    BY <1>1, <1>2, <1>6, <2>1 DEF IInv, Known, Sinks, graph
<1>8. ThrownForSinks'
  <2>1. CASE pc' = "fatal"
    BY <2>1 DEF ThrownForSinks
  <2>2. CASE AddSinkThrows
    <3>1. /\ conf.sink_type # "display" /\ ~(b < Len(configs.sinks)) /\ b < Len(configs.sources)
          /\ queues' = source_count /\ b \in Nat
      BY <1>2, <2>2 DEF AddSinkThrows, HasSink, source_count, graph, IInv, Places, Building
    <3>2. /\ Len(configs.sinks) = Len(conf.sinks) /\ Len(configs.sources) = Len(conf.sources)
          /\ Len(conf.sinks) \in Nat /\ Len(conf.sources) \in Nat
      BY <1>2, Placed, Listed DEF Accepted
    <3>3. queues' > 0 /\ Len(conf.sinks) < Len(conf.sources)
      BY <3>1, <3>2 DEF source_count
    <3>4. conf.sink_type = "file"
      BY <1>2, <3>1, RtmpIsNotAccepted DEF Accepted, SinksOk
    <3> QED
      BY <1>2, <3>3, <3>4 DEF ThrownForSinks
  <2> QED
    BY <1>1, <2>1, <2>2
<1> QED
  BY <1>4, <1>5, <1>7, <1>8 DEF IInv

\* The invariant of the configuration.
THEOREM Invariant == Spec => []IInv
<1>1. Init => IInv
  <2> SUFFICES ASSUME Init PROVE IInv
    OBVIOUS
  <2>1. /\ pc = "load" /\ b = 0 /\ bins = {} /\ links = {} /\ refused_by = "none" /\ queues = 0
        /\ conf = NoSection /\ configs = [sources |-> <<>>, sinks |-> <<>>]
        /\ loaded \in BOOLEAN /\ files \in SUBSET Mp4
    BY DEF Init
  <2>2. source_count = 0
    BY <2>1 DEF source_count
  <2>3. Places
    BY <2>1, <2>2 DEF Places, Early, Before, Building, Ended
  <2>4. Progress
    BY <2>1 DEF Progress
  <2>5. Known
    BY <2>1 DEF Known, Sinks
  <2> QED
    BY <2>1, <2>3, <2>4, <2>5 DEF IInv, ThrownForSinks
<1>2. IInv /\ [Next]_vars => IInv'
  <2> SUFFICES ASSUME IInv, [Next]_vars PROVE IInv'
    OBVIOUS
  <2>1. CASE UNCHANGED vars
    <3>1. UNCHANGED <<pc, b, loaded, files, conf, configs, refused_by, queues, bins, links>>
      BY <2>1 DEF vars
    <3>2. /\ source_count' = source_count /\ AllBins' = AllBins /\ InferenceBin' = InferenceBin
          /\ SrcBins(b)' = SrcBins(b) /\ SinkBins(b)' = SinkBins(b)
          /\ SrcBins(source_count)' = SrcBins(source_count)
          /\ Sinks' = Sinks /\ Usable(conf)' = Usable(conf) /\ Accepted(conf)' = Accepted(conf)
          /\ Located(conf)' = Located(conf)
          /\ SourceLinks(source_count)' = SourceLinks(source_count)
          /\ SinkLinks(source_count)' = SinkLinks(source_count)
          /\ SourceLinks(b)' = SourceLinks(b) /\ SinkLinks(b)' = SinkLinks(b)
      BY <3>1 DEF SrcBins, SinkBins, SrcOf, SinkOf, InferenceBin, AllBins, source_count, Sinks,
                  Usable, Accepted, MissingSource, NullSource, SourceLinks, SinkLinks
    <3>3. Places'
      BY <3>1, <3>2 DEF IInv, Places
    <3>4. Progress'
      BY <3>1, <3>2 DEF IInv, Progress
    <3>5. Known'
      BY <3>1, <3>2 DEF IInv, Known
    <3> QED
      BY <3>1, <3>3, <3>4, <3>5 DEF IInv, ThrownForSinks
  <2> QED
    BY <2>1, ConfigureStep, BuildStep, EndStep DEF Next
<1> QED
  BY <1>1, <1>2, PTL DEF Spec

\* A usable configuration that shows its video or writes it to files is neither
\* refused by the pipeline nor ends the process by an exception.
THEOREM UsablePassed == Spec => []UsableIsAccepted
<1>1. IInv => UsableIsAccepted
  BY DEF IInv, Known, UsableIsAccepted
<1> QED
  BY <1>1, Invariant, PTL

\* The number of sinks is the only thing in the section for which an exception
\* ends the process.
THEOREM ThrownForSinksOnly == Spec => []ThrownForSinks
BY Invariant, PTL DEF IInv

\* No two sink bins write to one file.
THEOREM OwnFiles == Spec => []SinksDisjoint
<1>1. IInv => SinksDisjoint
  <2> SUFFICES ASSUME IInv, NEW s \in Sinks, NEW t \in Sinks, s.location = t.location,
                      s.location # "screen"
               PROVE  s = t
    BY DEF SinksDisjoint
  <2>1. /\ Accepted(conf) /\ configs = Located(conf)
        /\ s \in AllBins /\ s.kind = "sink" /\ t \in AllBins /\ t.kind = "sink"
    BY DEF IInv, Known, Sinks, Accepted, NoSection
  <2>2. \A u \in AllBins : u.kind = "sink" => \E i \in 0..(source_count - 1) : u = SinkOf(i)
    BY DEF AllBins, SrcBins, SinkBins, SrcOf, InferenceBin
  <2>3. PICK i \in 0..(source_count - 1) : s = SinkOf(i)
    BY <2>1, <2>2
  <2>4. PICK j \in 0..(source_count - 1) : t = SinkOf(j)
    BY <2>1, <2>2
  <2>5. conf.sink_type # "display"
    BY <2>3 DEF SinkOf
  <2>6. configs.sinks[i + 1] = configs.sinks[j + 1]
    BY <2>3, <2>4, <2>5 DEF SinkOf
  <2>7. i + 1 \in 1..Len(conf.sinks) /\ j + 1 \in 1..Len(conf.sinks)
    <3>1. s.index = i /\ t.index = j
      BY <2>3, <2>4 DEF SinkOf
    <3>2. i < Len(configs.sinks) /\ j < Len(configs.sinks)
      BY <2>5, <3>1 DEF IInv, Known
    <3>3. Len(configs.sinks) = Len(conf.sinks) /\ Len(conf.sinks) \in Nat
      BY <2>1, Placed, Listed DEF Accepted
    <3> QED
      BY <3>2, <3>3
  <2>8. conf.sinks[i + 1] = conf.sinks[j + 1]
    BY <2>1, <2>6, <2>7, Placed DEF Accepted
  <2>9. i + 1 = j + 1
    BY <2>1, <2>7, <2>8, Listed DEF Accepted, SinksOk, IsInjective
  <2> QED
    BY <2>3, <2>4, <2>9
<1> QED
  BY <1>1, Invariant, PTL

\* A pipeline that runs is connected as the configuration says.
THEOREM RunningConnected == Spec => []RunningIsConnected
<1>1. IInv => RunningIsConnected
  <2> SUFFICES ASSUME IInv, pc = "running" PROVE RunningIsConnected
    BY DEF RunningIsConnected
  <2>1. /\ Accepted(conf) /\ configs = Located(conf) /\ queues = source_count
        /\ source_count \in Nat
        /\ bins = AllBins
        /\ links = SourceLinks(source_count) \cup SinkLinks(source_count)
    BY DEF IInv, Places, Progress
  <2>2. source_count = Len(conf.sources)
    BY <2>1, Placed DEF Accepted, source_count
  <2>3. /\ {t \in bins : t.kind = "src"} = SrcBins(source_count)
        /\ {t \in bins : t.kind = "inference"} = {InferenceBin}
        /\ Sinks = SinkBins(source_count)
    <3>1. /\ \A t \in SrcBins(source_count) : t.kind = "src"
          /\ InferenceBin.kind = "inference"
          /\ \A t \in SinkBins(source_count) : t.kind = "sink"
      BY DEF SrcBins, SinkBins, SrcOf, SinkOf, InferenceBin
    <3> QED
      BY <2>1, <3>1 DEF AllBins, Sinks
  <2>4. {<<s.index, s.location>> : s \in SrcBins(source_count)} =
              {<<i - 1, configs.sources[i]>> : i \in 1..source_count}
    <3>1. {<<s.index, s.location>> : s \in SrcBins(source_count)} =
             {<<SrcOf(i).index, SrcOf(i).location>> : i \in 0..(source_count - 1)}
      BY DEF SrcBins
    <3>2. \A i : SrcOf(i).index = i /\ SrcOf(i).location = configs.sources[i + 1]
      BY DEF SrcOf
    <3>3. ASSUME NEW i \in 0..(source_count - 1)
          PROVE  \E j \in 1..source_count : i = j - 1 /\ configs.sources[i + 1] = configs.sources[j]
      <4>1. i + 1 \in 1..source_count /\ i = (i + 1) - 1
        BY <2>1
      <4> QED
        BY <4>1
    <3>4. ASSUME NEW j \in 1..source_count
          PROVE  \E i \in 0..(source_count - 1) : i = j - 1 /\ configs.sources[i + 1] = configs.sources[j]
      <4>1. j - 1 \in 0..(source_count - 1) /\ (j - 1) + 1 = j
        BY <2>1
      <4> QED
        BY <4>1
    <3> HIDE DEF SrcOf
    <3> QED
      BY <3>1, <3>2, <3>3, <3>4
  <2>5. IsInjective(configs.sources)
    <3>1. IsInjective(conf.sources) /\ DOMAIN conf.sources = 1..Len(conf.sources)
      BY <2>1, Listed DEF Accepted, SourcesOk
    <3>2. DOMAIN configs.sources = 1..Len(conf.sources)
      BY <2>1, <2>2, Placed, LenProperties DEF Accepted
    <3>3. \A i \in 1..Len(conf.sources) : configs.sources[i][2] = conf.sources[i]
      BY <2>1, Placed DEF Accepted
    <3> QED
      BY <3>1, <3>2, <3>3 DEF IsInjective
  <2>6. \A i \in 1..source_count :
              configs.sources[i][1] = "base" => configs.sources[i][2] \in files
    <3> SUFFICES ASSUME NEW i \in 1..source_count, configs.sources[i][1] = "base"
                 PROVE  configs.sources[i][2] \in files
      OBVIOUS
    <3>1. conf.src_type = "file" /\ configs.sources[i][2] = conf.sources[i]
      BY <2>1, <2>2, Placed DEF Accepted
    <3>2. i \in DOMAIN conf.sources
      BY <2>1, <2>2, Listed DEF Accepted
    <3> QED
      BY <2>1, <3>1, <3>2 DEF Accepted, MissingSource, SourcesOk
  <2>7. {s.pads : s \in {InferenceBin}} = {source_count}
    BY DEF InferenceBin
  <2>8. {s.index : s \in SinkBins(source_count)} = 0..(source_count - 1)
    <3>1. {s.index : s \in SinkBins(source_count)} = {SinkOf(i).index : i \in 0..(source_count - 1)}
      BY DEF SinkBins
    <3>2. \A i : SinkOf(i).index = i
      BY DEF SinkOf
    <3> HIDE DEF SinkOf
    <3> QED
      BY <3>1, <3>2
  <2> QED
    BY <2>1, <2>3, <2>4, <2>5, <2>6, <2>7, <2>8 DEF RunningIsConnected, SourceLinks, SinkLinks
<1> QED
  BY <1>1, Invariant, PTL

\* Each of the sinks has its thread behind the drawing, and nowhere before it.
LEMMA SinkThreads ==
    ASSUME NEW t \in {"display", "file", "rtmp"}
    PROVE  /\ Queues \cap UpTo(SinkBin(t), "sink_caps") = {}
           /\ "sink_encode" \notin UpTo(SinkBin(t), "sink_caps")
           /\ \E e \in Queues : HasElement(SinkBin(t), e)
<1> DEFINE bin == SinkBin(t)
<1>1. /\ DOMAIN bin \subseteq Nat \ {0} /\ 1 \in DOMAIN bin /\ 2 \in DOMAIN bin /\ 3 \in DOMAIN bin
      /\ bin[1] = "sink_nvconvert" /\ bin[2] = "sink_convert" /\ bin[3] = "sink_caps"
      /\ \E i \in DOMAIN bin : bin[i] = "sink_queue"
  <2>1. CASE t = "display"
    BY <2>1 DEF SinkBin, createSinkBinToDisplay
  <2>2. CASE t # "display"
    BY <2>2 DEF SinkBin, createSinkBinToRTMP, createSinkBinToFile
  <2> QED
    BY <2>1, <2>2
<1> HIDE DEF bin
<1>2. \A i \in DOMAIN bin : (\A k \in 1..(i - 1) : bin[k] # "sink_caps") => i \in {1, 2, 3}
  <2> SUFFICES ASSUME NEW i \in DOMAIN bin, i \notin {1, 2, 3}
               PROVE  \E k \in 1..(i - 1) : bin[k] = "sink_caps"
    OBVIOUS
  <2>1. 3 \in 1..(i - 1)
    BY <1>1
  <2> QED
    BY <1>1, <2>1
<1>3. UpTo(bin, "sink_caps") \subseteq {"sink_nvconvert", "sink_convert", "sink_caps"}
  BY <1>1, <1>2 DEF UpTo
<1> QED
  BY <1>1, <1>3 DEF Queues, HasElement, bin

\* Between the two callbacks no element hands the frames to another thread.
THEOREM OneThread == Spec => []OneThreadToOverlay
<1>1. IInv => OneThreadToOverlay
  <2> SUFFICES ASSUME IInv, pc = "running" PROVE OneThreadToOverlay
    BY DEF OneThreadToOverlay
  <2>1. bins = AllBins /\ conf.sink_type \in {"display", "file", "rtmp"}
    BY DEF IInv, Places, Progress, Accepted, SinksOk
  <2>2. \A s \in Sinks : s.elements = SinkBin(conf.sink_type)
    BY <2>1 DEF Sinks, AllBins, SrcBins, SinkBins, SrcOf, SinkOf, InferenceBin
  <2>3. \A s \in bins : s.kind = "inference" => s.elements = createInferenceBinToStreamDemux
    BY <2>1 DEF AllBins, SrcBins, SinkBins, SrcOf, SinkOf, InferenceBin
  <2>4. Queues \cap ToSet(createInferenceBinToStreamDemux) = {}
    BY DEF Queues, ToSet, createInferenceBinToStreamDemux
  <2> QED
    BY <2>1, <2>2, <2>3, <2>4, SinkThreads DEF OneThreadToOverlay
<1> QED
  BY <1>1, Invariant, PTL

\* The variables have their types.
THEOREM TypeCorrect == Spec => []TypeOK
<1>1. IInv => TypeOK
  <2> SUFFICES ASSUME IInv PROVE TypeOK
    OBVIOUS
  <2>1. /\ conf.src_type \in {"file", "rtsp", "other"}
        /\ conf.sink_type \in {"display", "file", "rtmp", "other"}
        /\ conf.sources \in Seq(Strings) /\ conf.sinks \in Seq(Strings) /\ conf.sized \in BOOLEAN
        /\ configs.sources \in Seq(Location) /\ configs.sinks \in Seq(Location)
    <3>1. CASE conf \in Section /\ configs = Located(conf)
      BY <3>1, Listed, Placed
    <3>2. CASE conf = NoSection /\ configs = [sources |-> <<>>, sinks |-> <<>>]
      BY <3>2 DEF NoSection
    <3> QED
      BY <3>1, <3>2 DEF IInv, Known
  <2>2. bins \subseteq Bin
    <3> SUFFICES ASSUME NEW s \in bins PROVE s \in Bin
      OBVIOUS
    <3>1. /\ Accepted(conf) /\ source_count \in Nat
          /\ s \in AllBins
      BY DEF IInv, Known, Places
    <3>2. conf.src_type \in {"file", "rtsp"} /\ conf.sink_type \in {"display", "file", "rtmp"}
      BY <3>1 DEF Accepted, SourcesOk, SinksOk
    <3>3. CASE s \in SrcBins(source_count)
      <4>1. PICK i \in 0..(source_count - 1) : s = SrcOf(i)
        BY <3>3 DEF SrcBins
      <4>2. i \in Nat /\ i + 1 \in 1..Len(configs.sources)
        BY <3>1 DEF source_count
      <4>3. configs.sources[i + 1] \in Location
        BY <2>1, <4>2, ElementOfSeq
      <4> QED
        BY <3>2, <4>1, <4>2, <4>3 DEF SrcOf, Bin
    <3>4. CASE s = InferenceBin
      BY <3>1, <3>4 DEF InferenceBin, Bin
    <3>5. CASE s \in SinkBins(source_count)
      <4>1. PICK i \in 0..(source_count - 1) : s = SinkOf(i)
        BY <3>5 DEF SinkBins
      <4>2. i \in Nat /\ s.index = i /\ s \in Sinks
        BY <3>1, <4>1 DEF SinkOf, Sinks
      <4>3. conf.sink_type # "display" => configs.sinks[i + 1] \in Location
        <5> SUFFICES ASSUME conf.sink_type # "display" PROVE configs.sinks[i + 1] \in Location
          OBVIOUS
        <5>1. i < Len(configs.sinks)
          BY <4>2 DEF IInv, Known
        <5>2. i + 1 \in 1..Len(configs.sinks)
          BY <2>1, <4>2, <5>1, LenProperties
        <5> QED
          BY <2>1, <5>2, ElementOfSeq
      <4> QED
        BY <3>2, <4>1, <4>2, <4>3 DEF SinkOf, Bin
    <3> QED
      BY <3>1, <3>3, <3>4, <3>5 DEF AllBins
  <2>3. links \subseteq Link
    <3>1. source_count \in Nat
      BY DEF IInv, Places
    <3> QED
      BY <3>1 DEF IInv, Known, Link, SourceLinks, SinkLinks
  <2>4. /\ pc \in {"load", "pipeline", "processing", "messaging", "start", "sources", "inference",
                   "sinks", "link_sources", "link_sinks", "running", "refused", "fatal", "thrown"}
        /\ b \in 0..source_count /\ loaded \in BOOLEAN /\ files \in SUBSET Strings
        /\ refused_by \in {"none", "pipeline", "processing", "messaging"} /\ queues \in Nat
    BY StringsAssumption DEF IInv, Places, Early, Before, Building, Ended
  <2> QED
    BY <2>1, <2>2, <2>3, <2>4 DEF TypeOK
<1> QED
  BY <1>1, Invariant, PTL
=============================================================================
