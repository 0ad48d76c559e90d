SPECIFICATION Spec
CONSTANTS
    Strings = {"a.mp4", "b.mp4", "rtsp://a", "rtsp://b", "rtmp://a", ""}
    Mp4 = {"a.mp4", "b.mp4"}
    Rtsp = {"rtsp://a", "rtsp://b"}
    Rtmp = {"rtmp://a"}
    Empty = ""
    MaxLen = 2
CHECK_DEADLOCK FALSE
INVARIANTS
    TypeOK
    RunningIsConnected
    OneThreadToOverlay
    SinksDisjoint
    UsableIsAccepted
    ThrownForSinks
