--------------------------- MODULE MCDynamicPads ---------------------------
(* Pads and bus messages on small instances.                               *)
EXTENDS DynamicPads, TLC

CONSTANTS s1, s2

\* Two tracks, which is enough for two callbacks to meet, and a second source.
MCMaxTracks == s1 :> 2 @@ s2 :> 1
=============================================================================
