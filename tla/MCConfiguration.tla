-------------------------- MODULE MCConfiguration --------------------------
(* The configuration and the construction of the pipeline, on small        *)
(* instances.                                                              *)
EXTENDS Configuration
=============================================================================
