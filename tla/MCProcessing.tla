---------------------------- MODULE MCProcessing ----------------------------
(* The overlay path on small instances.                                    *)
EXTENDS Processing
=============================================================================
