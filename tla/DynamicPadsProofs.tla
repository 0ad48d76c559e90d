------------------------- MODULE DynamicPadsProofs -------------------------
(***************************************************************************)
(* Theorems about a pipeline that plays, for any number of sources and of  *)
(* tracks.                                                                 *)
(***************************************************************************)
EXTENDS DynamicPads, SequenceTheorems, TLAPS

-----------------------------------------------------------------------------
(* The inductive invariant.                                                *)

PadStates == {"none", "test", "link", "linked", "ignored"}
Flow == {"opening", "flowing", "ended", "failed", "silent"}
Messages == {"EOS", "ERROR", "ELEMENT", "NEW_CLOCK"}

\* Functions of the sources, which the EXCEPT of the actions needs.
Shapes ==
    /\ pads = [s \in Sources |-> pads[s]]
    /\ linked = [s \in Sources |-> linked[s]]

\* Between the test and the link no other callback of the same source can
\* link, if its pads come from one thread or it has only one.
LinkIsFree ==
    /\ src_type = "file" =>
          \A s \in Sources : \A t, u \in Tracks(s) :
             pads[s][t] \in {"test", "link"} /\ pads[s][u] \in {"test", "link"} => t = u
    /\ src_type = "file" =>
          \A s \in Sources : \A t \in Tracks(s) : pads[s][t] = "link" => linked[s] = 0

\* Only pads whose name asks for an element get as far as a link.
NamedPads ==
    \A s \in Sources : \A t \in Tracks(s) :
        pads[s][t] \in {"test", "link"} => NamesElement(s, t) # "none"

\* A message on the bus still says what it said when it was posted.
BusIsTrue ==
    \A i \in 1..Len(bus) :
        /\ bus[i] = "EOS" => \A s \in Sources : flow[s] = "ended"
        /\ bus[i] = "ERROR" => \E s \in Sources : flow[s] = "failed"

\* No source is on its way before the pipeline plays.
QuietStart == pc = "ready" => \A s \in Sources : flow[s] = "opening"

\* The message is on the bus.
Posted(message) == \E i \in 1..Len(bus) : bus[i] = message

IInv ==
    /\ TypeOK /\ Shapes /\ LinkIsFree /\ NamedPads /\ BusIsTrue /\ QuietStart
    /\ HarmlessSurvive /\ QuitHasReason /\ EndIsOnTheBus

\* Every pad that names an element finds it in the source bin.
LEMMA ElementIsThere ==
    ASSUME src_type \in {"file", "rtsp"}, NEW s, NEW t, NamesElement(s, t) # "none"
    PROVE  HasElement(SrcBin(src_type), NamesElement(s, t))
<1>1. CASE src_type = "file"
  <2>1. NamesElement(s, t) = "src_parser"
    BY <1>1 DEF NamesElement, PadName
  <2>2. SrcBin(src_type) = createMp4SrcBin
    BY <1>1 DEF SrcBin
  <2>3. 3 \in DOMAIN createMp4SrcBin /\ createMp4SrcBin[3] = "src_parser"
    BY DEF createMp4SrcBin
  <2> QED
    BY <2>1, <2>2, <2>3 DEF HasElement
<1>2. CASE src_type = "rtsp"
  <2>1. NamesElement(s, t) = "source_depay"
    BY <1>2 DEF NamesElement, PadName
  <2>2. SrcBin(src_type) = createRtspSrcBin
    BY <1>2 DEF SrcBin
  <2>3. 2 \in DOMAIN createRtspSrcBin /\ createRtspSrcBin[2] = "source_depay"
    BY DEF createRtspSrcBin
  <2> QED
    BY <2>1, <2>2, <2>3 DEF HasElement
<1> QED
  BY <1>1, <1>2

\* The tracks of a source are numbered from 1.
LEMMA TracksAreNumbers ==
    ASSUME NEW s \in Sources, media[s] \in TrackLists(s)
    PROVE  /\ Tracks(s) \subseteq Nat \ {0}
           /\ \A t \in Tracks(s) : media[s][t] \in Media
<1>1. PICK n \in 1..MaxTracks[s] : media[s] \in [1..n -> Media]
  BY DEF TrackLists
<1> QED
  BY <1>1, MaxTracksAssumption DEF Tracks

\* The initial state satisfies it.
LEMMA InvInit == Init => IInv
<1> SUFFICES ASSUME Init PROVE IInv
  OBVIOUS
<1>1. TypeOK
  <2>1. \A s \in Sources : media[s] \in TrackLists(s)
    BY DEF Init
  <2>2. \A s \in Sources : pads[s] = [t \in Tracks(s) |-> "none"] /\ linked[s] = 0
    BY DEF Init
  <2>3. ASSUME NEW s \in Sources
        PROVE  /\ pads[s] \in [Tracks(s) -> PadStates]
               /\ linked[s] \in {0} \cup Tracks(s)
               /\ \A t \in Tracks(s) : pads[s][t] # "linked" /\ linked[s] # t
    <3>1. Tracks(s) \subseteq Nat \ {0}
      BY <2>1, TracksAreNumbers
    <3> QED
      BY <2>2, <3>1 DEF PadStates
  <2>4. src_type \in {"file", "rtsp"} /\ pc = "ready" /\ timeout_counter = 0 /\ fatal = FALSE
    BY DEF Init
  <2>5. flow \in [Sources -> Flow]
    BY DEF Init, Flow
  <2>6. bus \in Seq(Messages)
    BY DEF Init
  <2> QED
    BY <2>1, <2>3, <2>4, <2>5, <2>6 DEF TypeOK, PadStates, Flow, Messages
<1>2. Shapes /\ LinkIsFree /\ NamedPads
  BY DEF Init, Shapes, LinkIsFree, NamedPads
<1>3. BusIsTrue /\ QuietStart /\ HarmlessSurvive /\ QuitHasReason /\ EndIsOnTheBus
  BY DEF Init, BusIsTrue, QuietStart, HarmlessSurvive, QuitHasReason, EndIsOnTheBus
<1> QED
  BY <1>1, <1>2, <1>3 DEF IInv

\* One pad of one source changes.
LEMMA PadChange ==
    ASSUME TypeOK, Shapes, NEW s \in Sources, NEW t \in Tracks(s), NEW v \in PadStates,
           pads' = [pads EXCEPT ![s][t] = v]
    PROVE  /\ pads' = [r \in Sources |-> pads'[r]]
           /\ \A r \in Sources : pads'[r] \in [Tracks(r) -> PadStates]
           /\ \A r \in Sources : \A u \in Tracks(r) :
                 pads'[r][u] = IF r = s /\ u = t THEN v ELSE pads[r][u]
<1>1. \A r \in Sources : pads[r] \in [Tracks(r) -> PadStates]
  BY DEF TypeOK, PadStates
<1>2. pads' = [pads EXCEPT ![s] = [pads[s] EXCEPT ![t] = v]]
  OBVIOUS
<1>3. pads' = [r \in Sources |-> IF r = s THEN [pads[s] EXCEPT ![t] = v] ELSE pads[r]]
  BY <1>2 DEF Shapes
<1>4. ASSUME NEW r \in Sources
      PROVE  /\ pads'[r] \in [Tracks(r) -> PadStates]
             /\ \A u \in Tracks(r) : pads'[r][u] = IF r = s /\ u = t THEN v ELSE pads[r][u]
  <2>1. CASE r = s
    BY <1>1, <1>3, <2>1
  <2>2. CASE r # s
    BY <1>1, <1>3, <2>2
  <2> QED
    BY <2>1, <2>2
<1> QED
  BY <1>3, <1>4

\* The part of the types that callbacks change.
LEMMA TypeOfPads ==
    ASSUME TypeOK, UNCHANGED <<src_type, media, pc, flow, bus, timeout_counter>>,
           fatal' \in BOOLEAN,
           \A r \in Sources : pads'[r] \in [Tracks(r) -> PadStates],
           \A r \in Sources :
              /\ linked'[r] \in {0} \cup Tracks(r)
              /\ \A u \in Tracks(r) : pads'[r][u] = "linked" <=> linked'[r] = u
    PROVE  TypeOK'
<1>1. \A r \in Sources : Tracks(r)' = Tracks(r) /\ TrackLists(r)' = TrackLists(r)
  BY DEF Tracks, TrackLists
<1>2. \A r \in Sources : media'[r] \in TrackLists(r)'
  BY <1>1 DEF TypeOK
<1>3. \A r \in Sources : pads'[r] \in [Tracks(r)' -> {"none", "test", "link", "linked", "ignored"}]
  BY <1>1 DEF PadStates
<1>4. \A r \in Sources :
          /\ linked'[r] \in {0} \cup Tracks(r)'
          /\ \A u \in Tracks(r)' : pads'[r][u] = "linked" <=> linked'[r] = u
  BY <1>1
<1>5. /\ src_type' \in {"file", "rtsp"} /\ pc' \in {"ready", "loop", "quit", "null"}
      /\ flow' \in [Sources -> {"opening", "flowing", "ended", "failed", "silent"}]
      /\ bus' \in Seq({"EOS", "ERROR", "ELEMENT", "NEW_CLOCK"})
      /\ timeout_counter' \in Nat /\ fatal' \in BOOLEAN
  BY DEF TypeOK
<1> QED
  BY <1>2, <1>3, <1>4, <1>5 DEF TypeOK

\* A step of a callback.
LEMMA CallbackStep ==
    ASSUME IInv, NEW s \in Sources, NEW t \in Tracks(s), Callback(s, t)
    PROVE  IInv'
<1> USE DEF sources
<1>0. /\ UNCHANGED <<src_type, media, pc, flow, bus, timeout_counter>>
      /\ pc \in {"loop", "quit"} /\ fatal = FALSE
  BY DEF Callback, PadAdded, PadTest, PadLink, Streaming, IInv, TypeOK
<1>1. Tracks(s) \subseteq Nat \ {0} /\ \A u \in Tracks(s) : media[s][u] \in Media
  BY TracksAreNumbers DEF IInv, TypeOK
<1>2. CASE PadAdded(s, t)
  <2> DEFINE v == IF NamesElement(s, t) = "none" THEN "ignored" ELSE "test"
  <2>1. /\ pads' = [pads EXCEPT ![s][t] = v] /\ v \in PadStates
        /\ pads[s][t] = "none" /\ linked' = linked
        /\ src_type = "file" => \A u \in Tracks(s) : pads[s][u] \notin {"test", "link"}
    BY <1>2 DEF PadAdded, PadStates
  <2>2. fatal' = FALSE
    BY <1>2, ElementIsThere DEF PadAdded, IInv, TypeOK
  <2> HIDE DEF v
  <2>3. /\ pads' = [r \in Sources |-> pads'[r]]
        /\ \A r \in Sources : pads'[r] \in [Tracks(r) -> PadStates]
        /\ \A r \in Sources : \A u \in Tracks(r) :
              pads'[r][u] = IF r = s /\ u = t THEN v ELSE pads[r][u]
    BY <2>1, PadChange DEF IInv
  <2>4. v # "linked" /\ v # "link" /\ (v = "test" => NamesElement(s, t) # "none")
    BY DEF v
  <2>5. TypeOK'
    <3>1. \A r \in Sources :
             /\ linked'[r] \in {0} \cup Tracks(r)
             /\ \A u \in Tracks(r) : pads'[r][u] = "linked" <=> linked'[r] = u
      BY <2>1, <2>3, <2>4 DEF IInv, TypeOK
    <3> QED
      BY <1>0, <2>2, <2>3, <3>1, TypeOfPads DEF IInv
  <2>6. Shapes' /\ LinkIsFree'
    BY <1>0, <2>1, <2>3, <2>4 DEF IInv, Shapes, LinkIsFree, Tracks
  <2>7. NamedPads'
    BY <1>0, <2>3, <2>4 DEF IInv, NamedPads, Tracks, NamesElement, PadName
  <2> QED
    BY <1>0, <2>2, <2>5, <2>6, <2>7 DEF IInv, BusIsTrue, QuietStart, HarmlessSurvive, QuitHasReason, EndIsOnTheBus
<1>3. CASE PadTest(s, t)
  <2> DEFINE v == IF linked[s] = 0 THEN "link" ELSE "ignored"
  <2>1. /\ pads' = [pads EXCEPT ![s][t] = v] /\ v \in PadStates
        /\ pads[s][t] = "test" /\ linked' = linked /\ fatal' = FALSE
    BY <1>0, <1>3 DEF PadTest, PadStates
  <2> HIDE DEF v
  <2>2. /\ pads' = [r \in Sources |-> pads'[r]]
        /\ \A r \in Sources : pads'[r] \in [Tracks(r) -> PadStates]
        /\ \A r \in Sources : \A u \in Tracks(r) :
              pads'[r][u] = IF r = s /\ u = t THEN v ELSE pads[r][u]
    BY <2>1, PadChange DEF IInv
  <2>3. v \in {"link", "ignored"} /\ (v = "link" => linked[s] = 0)
    BY DEF v
  <2>4. TypeOK'
    <3>1. \A r \in Sources :
             /\ linked'[r] \in {0} \cup Tracks(r)
             /\ \A u \in Tracks(r) : pads'[r][u] = "linked" <=> linked'[r] = u
      BY <2>1, <2>2, <2>3 DEF IInv, TypeOK
    <3> QED
      BY <1>0, <2>1, <2>2, <3>1, TypeOfPads DEF IInv
  <2>5. Shapes' /\ LinkIsFree'
    BY <1>0, <2>1, <2>2, <2>3 DEF IInv, Shapes, LinkIsFree, Tracks
  <2>6. NamedPads'
    BY <1>0, <2>1, <2>2 DEF IInv, NamedPads, Tracks, NamesElement, PadName
  <2> QED
    BY <1>0, <2>1, <2>4, <2>5, <2>6 DEF IInv, BusIsTrue, QuietStart, HarmlessSurvive, QuitHasReason, EndIsOnTheBus
<1>4. CASE PadLink(s, t) /\ LinkStatus(s, t) = "OK"
  <2>1. /\ pads' = [pads EXCEPT ![s][t] = "linked"] /\ "linked" \in PadStates
        /\ pads[s][t] = "link" /\ fatal' = FALSE
        /\ linked' = [linked EXCEPT ![s] = t] /\ linked[s] = 0
    BY <1>0, <1>4 DEF PadLink, PadStates, LinkStatus
  <2>2. /\ pads' = [r \in Sources |-> pads'[r]]
        /\ \A r \in Sources : pads'[r] \in [Tracks(r) -> PadStates]
        /\ \A r \in Sources : \A u \in Tracks(r) :
              pads'[r][u] = IF r = s /\ u = t THEN "linked" ELSE pads[r][u]
    BY <2>1, PadChange DEF IInv
  <2>3. linked' = [r \in Sources |-> IF r = s THEN t ELSE linked[r]]
    BY <2>1 DEF IInv, Shapes
  <2>4. TypeOK'
    <3>1. \A r \in Sources :
             /\ linked'[r] \in {0} \cup Tracks(r)
             /\ \A u \in Tracks(r) : pads'[r][u] = "linked" <=> linked'[r] = u
      BY <1>1, <2>1, <2>2, <2>3 DEF IInv, TypeOK
    <3> QED
      BY <1>0, <2>1, <2>2, <3>1, TypeOfPads DEF IInv
  <2>5. Shapes' /\ LinkIsFree'
    BY <1>0, <1>1, <2>1, <2>2, <2>3 DEF IInv, Shapes, LinkIsFree, Tracks
  <2>6. NamedPads'
    BY <1>0, <2>2 DEF IInv, NamedPads, Tracks, NamesElement, PadName
  <2> QED
    BY <1>0, <2>1, <2>4, <2>5, <2>6 DEF IInv, BusIsTrue, QuietStart, HarmlessSurvive, QuitHasReason, EndIsOnTheBus
<1>5. CASE PadLink(s, t) /\ LinkStatus(s, t) # "OK"
  <2>1. fatal' = TRUE /\ pads[s][t] = "link" /\ UNCHANGED <<linked, pads>>
    BY <1>5 DEF PadLink
  <2>2. ~Harmless(s)
    <3> SUFFICES ASSUME Harmless(s) PROVE FALSE
      OBVIOUS
    <3>1. CASE src_type = "file"
      <4>1. linked[s] = 0
        BY <2>1, <3>1 DEF IInv, LinkIsFree
      <4>2. media[s][t] # "audio"
        BY <2>1, <3>1 DEF IInv, NamedPads, NamesElement, PadName
      <4>3. media[s][t] = "h264"
        BY <3>1, <4>2 DEF Harmless
      <4> QED
        BY <1>5, <4>1, <4>3 DEF LinkStatus
    <3>2. CASE src_type = "rtsp"
      <4>1. media[s] = <<"h264">>
        BY <3>2 DEF Harmless
      <4>2. Tracks(s) = {1} /\ media[s][1] = "h264"
        BY <4>1 DEF Tracks
      <4>3. linked[s] = 0
        BY <2>1, <4>2 DEF IInv, TypeOK
      <4> QED
        BY <1>5, <4>2, <4>3 DEF LinkStatus
    <3> QED
      BY <3>1, <3>2 DEF IInv, TypeOK
  <2>3. HarmlessSurvive'
    BY <1>0, <2>2 DEF HarmlessSurvive, Harmless, Tracks
  <2> QED
    BY <1>0, <2>1, <2>3
       DEF IInv, TypeOK, TrackLists, Tracks, Shapes, LinkIsFree, NamedPads, NamesElement,
           PadName, BusIsTrue, QuietStart, QuitHasReason, EndIsOnTheBus
<1> QED
  BY <1>2, <1>3, <1>4, <1>5 DEF Callback

\* What does not change while pads, media and the fate of the process stay.
LEMMA PadsKept ==
    ASSUME IInv, UNCHANGED <<src_type, media, pads, linked, fatal>>,
           pc' \in {"ready", "loop", "quit", "null"}, flow' \in [Sources -> Flow],
           bus' \in Seq(Messages), timeout_counter' \in Nat
    PROVE  TypeOK' /\ Shapes' /\ LinkIsFree' /\ NamedPads' /\ HarmlessSurvive'
<1>1. TypeOK'
  BY DEF IInv, TypeOK, Tracks, TrackLists, Flow, Messages
<1>2. Shapes' /\ LinkIsFree' /\ NamedPads'
  BY DEF IInv, Shapes, LinkIsFree, NamedPads, Tracks, NamesElement, PadName
<1>3. HarmlessSurvive'
  BY DEF IInv, HarmlessSurvive, Harmless, Tracks
<1> QED
  BY <1>1, <1>2, <1>3

\* A source goes on: what is on the bus stays true, since the end and the
\* failure of a source are final, and what is added is true.
LEMMA StreamStep ==
    ASSUME IInv, NEW s \in Sources,
           Pushes(s) \/ Ends(s) \/ Fails(s) \/ GoesSilent(s)
    PROVE  IInv'
<1> USE DEF sources
<1>1. PICK from \in SUBSET {"opening", "flowing"}, to \in Flow, messages \in Seq(Messages) :
         /\ Stream(s, from, to, messages)
         /\ messages \in {<<>>, <<"EOS">>, <<"ERROR">>}
         /\ messages = <<"EOS">> => to = "ended" /\ \A r \in Sources \ {s} : flow[r] = "ended"
         /\ messages = <<"ERROR">> <=> to = "failed"
         /\ to = "ended" /\ (\A r \in Sources \ {s} : flow[r] = "ended") => messages = <<"EOS">>
  <2> DEFINE Says(from, to, messages) ==
         /\ Stream(s, from, to, messages)
         /\ messages \in {<<>>, <<"EOS">>, <<"ERROR">>}
         /\ messages = <<"EOS">> => to = "ended" /\ \A r \in Sources \ {s} : flow[r] = "ended"
         /\ messages = <<"ERROR">> <=> to = "failed"
         /\ to = "ended" /\ (\A r \in Sources \ {s} : flow[r] = "ended") => messages = <<"EOS">>
  <2>1. <<>> \in Seq(Messages) /\ <<"EOS">> \in Seq(Messages) /\ <<"ERROR">> \in Seq(Messages)
    BY DEF Messages
  <2>2. /\ <<>> # <<"EOS">> /\ <<>> # <<"ERROR">> /\ <<"EOS">> # <<"ERROR">>
    OBVIOUS
  <2>3. CASE Flows(s)
    <3>1. Says({"opening"}, "flowing", <<>>)
      BY <2>2, <2>3 DEF Flows
    <3> QED
      BY <2>1, <3>1 DEF Flow
  <2>4. CASE NotLinked(s)
    <3>1. Says({"opening"}, "failed", <<"ERROR">>)
      BY <2>2, <2>4 DEF NotLinked
    <3> QED
      BY <2>1, <3>1 DEF Flow
  <2>5. CASE Ends(s) /\ \A r \in Sources \ {s} : flow[r] = "ended"
    <3>1. Says({"flowing"}, "ended", <<"EOS">>)
      BY <2>2, <2>5 DEF Ends
    <3> QED
      BY <2>1, <3>1 DEF Flow
  <2>6. CASE Ends(s) /\ ~\A r \in Sources \ {s} : flow[r] = "ended"
    <3>1. Says({"flowing"}, "ended", <<>>)
      BY <2>2, <2>6 DEF Ends
    <3> QED
      BY <2>1, <3>1 DEF Flow
  <2>7. CASE Fails(s)
    <3>1. Says({"opening", "flowing"}, "failed", <<"ERROR">>)
      BY <2>2, <2>7 DEF Fails
    <3> QED
      BY <2>1, <3>1 DEF Flow
  <2>8. CASE GoesSilent(s)
    <3>1. Says({"opening", "flowing"}, "silent", <<>>)
      BY <2>2, <2>8 DEF GoesSilent
    <3> QED
      BY <2>1, <3>1 DEF Flow
  <2> QED
    BY <2>3, <2>4, <2>5, <2>6, <2>7, <2>8 DEF Pushes
<1>2. /\ UNCHANGED <<src_type, media, pc, pads, linked, timeout_counter, fatal>>
      /\ pc = "loop" /\ flow[s] \in {"opening", "flowing"}
      /\ flow' = [flow EXCEPT ![s] = to] /\ bus' = bus \o messages
  BY <1>1 DEF Stream
<1>3. flow \in [Sources -> Flow] /\ bus \in Seq(Messages)
  BY DEF IInv, TypeOK, Flow, Messages
<1>4. flow' \in [Sources -> Flow] /\ bus' \in Seq(Messages)
  BY <1>2, <1>3, ConcatProperties
<1>5. TypeOK' /\ Shapes' /\ LinkIsFree' /\ NamedPads' /\ HarmlessSurvive'
  BY <1>2, <1>4, PadsKept DEF IInv, TypeOK
<1>6. /\ (\A r \in Sources : flow[r] = "ended") => FALSE
      /\ (\E r \in Sources : flow[r] = "failed") => \E r \in Sources : flow'[r] = "failed"
  BY <1>2, <1>3
<1>7. BusIsTrue'
  <2> SUFFICES ASSUME NEW i \in 1..Len(bus')
               PROVE  /\ bus'[i] = "EOS" => \A r \in Sources : flow'[r] = "ended"
                      /\ bus'[i] = "ERROR" => \E r \in Sources : flow'[r] = "failed"
    BY DEF BusIsTrue
  <2>1. CASE i \in 1..Len(bus)
    <3>1. bus'[i] = bus[i]
      BY <1>2, <1>3, <2>1, ConcatProperties
    <3> QED
      BY <1>6, <2>1, <3>1 DEF IInv, BusIsTrue
  <2>2. CASE i \notin 1..Len(bus)
    <3>1. messages # <<>> /\ bus'[i] = messages[1]
      BY <1>1, <1>2, <1>3, <2>2, ConcatProperties
    <3> QED
      BY <1>1, <1>2, <1>3, <3>1
  <2> QED
    BY <2>1, <2>2
<1>8. QuitHasReason' /\ QuietStart'
  BY <1>2 DEF QuitHasReason, QuietStart
<1>9. EndIsOnTheBus'
  <2>1. \A message \in {"EOS", "ERROR"} : Posted(message) => Posted(message)'
    <3> SUFFICES ASSUME NEW message, NEW i \in 1..Len(bus), bus[i] = message PROVE Posted(message)'
      BY DEF Posted
    <3>1. i \in 1..Len(bus') /\ bus'[i] = message
      BY <1>1, <1>2, <1>3, ConcatProperties, LenProperties
    <3> QED
      BY <3>1 DEF Posted
  <2>2. ASSUME NEW message \in Messages, messages = <<message>> PROVE Posted(message)'
    <3>1. /\ Len(bus) + 1 \in 1..Len(bus') /\ bus'[Len(bus) + 1] = message
      BY <1>1, <1>2, <1>3, <2>2, ConcatProperties, LenProperties
    <3> QED
      BY <3>1 DEF Posted
  <2>3. ASSUME fatal' = FALSE, NEW r \in Sources, flow'[r] = "failed" PROVE Posted("ERROR")'
    <3>1. CASE flow[r] = "failed"
      BY <1>2, <2>1, <2>3, <3>1 DEF IInv, EndIsOnTheBus, Posted
    <3>2. CASE flow[r] # "failed"
      <4>1. r = s /\ to = "failed"
        BY <1>2, <1>3, <2>3, <3>2
      <4> QED
        BY <1>1, <2>2, <4>1 DEF Messages
    <3> QED
      BY <3>1, <3>2
  <2>4. ASSUME \A r \in Sources : flow'[r] = "ended" PROVE Posted("EOS")'
    <3>1. to = "ended" /\ \A r \in Sources \ {s} : flow[r] = "ended"
      BY <1>2, <1>3, <2>4
    <3> QED
      BY <1>1, <2>2, <3>1 DEF Messages
  <2>5. fatal' \in BOOLEAN
    BY <1>2 DEF IInv, TypeOK
  <2> QED
    BY <2>3, <2>4, <2>5 DEF EndIsOnTheBus, Posted
<1> QED
  BY <1>5, <1>7, <1>8, <1>9 DEF IInv

\* A step of the pipeline thread, or an ELEMENT message for it.
LEMMA PipelineStep ==
    ASSUME IInv, PipelineThread \/ ElementMessage
    PROVE  IInv'
<1> USE DEF sources
<1>1. flow \in [Sources -> Flow] /\ bus \in Seq(Messages) /\ timeout_counter \in Nat
  BY DEF IInv, TypeOK, Flow, Messages
<1>2. UNCHANGED <<src_type, media, pads, linked, fatal, flow>>
  BY DEF PipelineThread, Play, BusCall, Teardown, ElementMessage
<1>3. CASE Play
  <2>1. bus' = Append(bus, "NEW_CLOCK") /\ pc' = "loop" /\ timeout_counter' = timeout_counter
    BY <1>3 DEF Play
  <2>2. bus' \in Seq(Messages)
    BY <1>1, <2>1, AppendProperties DEF Messages
  <2>3. BusIsTrue'
    BY <1>1, <1>2, <2>1, AppendProperties DEF IInv, BusIsTrue
  <2>4. EndIsOnTheBus'
    <3>1. pc = "ready"
      BY <1>3 DEF Play
    <3> QED
      BY <1>2, <3>1 DEF IInv, QuietStart, EndIsOnTheBus
  <2> QED
    BY <1>1, <1>2, <2>1, <2>2, <2>3, <2>4, PadsKept DEF IInv, QuitHasReason, QuietStart
<1>4. CASE BusCall
  <2>1. /\ bus # <<>> /\ bus' = Tail(bus) /\ pc' = IF Quits(Head(bus)) THEN "quit" ELSE "loop"
        /\ timeout_counter' \in Nat
    BY <1>1, <1>4 DEF BusCall
  <2>2. /\ bus' \in Seq(Messages) /\ Len(bus) >= 1 /\ Head(bus) = bus[1]
        /\ Len(bus') = Len(bus) - 1 /\ \A i \in 1..Len(bus') : bus'[i] = bus[i + 1]
    BY <1>1, <2>1, HeadTailProperties, LenProperties, EmptySeq
  <2>3. BusIsTrue'
    BY <1>1, <1>2, <2>2, LenProperties DEF IInv, BusIsTrue
  <2>4. QuitHasReason'
    BY <1>1, <1>2, <2>1, <2>2, LenProperties DEF IInv, BusIsTrue, Quits, QuitHasReason
  <2>5. EndIsOnTheBus'
    <3> SUFFICES ASSUME pc' = "loop", ~fatal,
                        NEW message \in {"EOS", "ERROR"}, Posted(message)
                 PROVE  Posted(message)'
      BY <1>2, <1>4 DEF IInv, EndIsOnTheBus, Posted, BusCall
    <3>1. PICK i \in 1..Len(bus) : bus[i] = message
      BY DEF Posted
    <3>2. i # 1
      BY <2>1, <2>2, <3>1 DEF Quits
    <3>3. i - 1 \in 1..Len(bus') /\ bus'[i - 1] = message
      BY <1>1, <2>2, <3>1, <3>2, LenProperties
    <3> QED
      BY <3>3 DEF Posted
  <2>6. QuietStart'
    BY <2>1 DEF QuietStart
  <2> QED
    BY <1>1, <1>2, <2>1, <2>2, <2>3, <2>4, <2>5, <2>6, PadsKept DEF IInv
<1>5. CASE Teardown
  <2>1. pc = "quit" /\ pc' = "null" /\ bus' = <<>> /\ timeout_counter' = timeout_counter
    BY <1>5 DEF Teardown
  <2>2. bus' \in Seq(Messages) /\ BusIsTrue'
    BY <2>1 DEF BusIsTrue
  <2>3. QuitHasReason'
    BY <1>2, <2>1 DEF IInv, QuitHasReason
  <2>4. QuietStart' /\ EndIsOnTheBus'
    BY <2>1 DEF QuietStart, EndIsOnTheBus
  <2> QED
    BY <1>1, <1>2, <2>1, <2>2, <2>3, <2>4, PadsKept DEF IInv
<1>6. CASE ElementMessage
  <2>1. bus = <<>> /\ bus' = <<"ELEMENT">> /\ UNCHANGED <<pc, timeout_counter>>
    BY <1>6 DEF ElementMessage
  <2>2. bus' \in Seq(Messages) /\ BusIsTrue'
    BY <2>1 DEF BusIsTrue, Messages
  <2>3. EndIsOnTheBus' /\ QuietStart'
    BY <1>2, <2>1 DEF IInv, EndIsOnTheBus, QuietStart
  <2> QED
    BY <1>1, <1>2, <2>1, <2>2, <2>3, PadsKept DEF IInv, TypeOK, QuitHasReason
<1> QED
  BY <1>3, <1>4, <1>5, <1>6 DEF PipelineThread

\* The inductive invariant holds in every reachable state.
THEOREM Invariant == Spec => []IInv
<1>1. IInv /\ [Next]_vars => IInv'
  <2> SUFFICES ASSUME IInv, [Next]_vars PROVE IInv'
    OBVIOUS
  <2>1. CASE UNCHANGED vars
    <3>1. UNCHANGED <<src_type, media, pc, pads, flow, linked, bus, timeout_counter, fatal>>
      BY <2>1 DEF vars, sources
    <3>2. TypeOK' /\ Shapes' /\ LinkIsFree' /\ NamedPads' /\ HarmlessSurvive'
      BY <3>1, PadsKept DEF IInv, TypeOK, Flow, Messages
    <3> QED
      BY <3>1, <3>2 DEF IInv, BusIsTrue, QuietStart, QuitHasReason, EndIsOnTheBus
  <2> QED
    BY <2>1, CallbackStep, StreamStep, PipelineStep DEF Next
<1> QED
  BY <1>1, InvInit, PTL DEF Spec

-----------------------------------------------------------------------------
(* The invariants the run checks.                                          *)

\* The types are kept, and a track goes to the parser when its pad is linked.
THEOREM TypeCorrect == Spec => []TypeOK
BY Invariant, PTL DEF IInv

\* Harmless sources never end the process in on_pad_added, in whatever order
\* their pads appear.
THEOREM HarmlessSourcesSurvive == Spec => []HarmlessSurvive
BY Invariant, PTL DEF IInv

\* The main loop is left only when all sources have ended or one has failed.
THEOREM QuitsForAReason == Spec => []QuitHasReason
BY Invariant, PTL DEF IInv

\* Conversely, while the loop runs the message that must end it is not lost.
THEOREM EndIsNotLost == Spec => []EndIsOnTheBus
BY Invariant, PTL DEF IInv
=============================================================================
